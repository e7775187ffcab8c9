------------------------------ MODULE MCProbe ------------------------------
(* Probe for TLC: sites whose pages are built from a few pieces.            *)
EXTENDS Probe

CONSTANTS Web, App, NotFound

Is(kind, value) == [kind |-> kind, value |-> value]
Status(n) == Is("status", n)
To(where) == Is("location", where)
Blank == Is("blank", NoName)
HeadEnd == Is("headend", NoName)
Other == Is("other", NoName)

Site(root, web) == [p \in Path |-> IF p = Root THEN root ELSE web]

Missing == <<Status(40), Status(404), Blank, Is("title", NotFound), HeadEnd>>
Page == <<Status(20), Status(200), Blank, Other, Is("title", App), HeadEnd>>

\* A page behind a redirect; pages that redirect to each other for ever; a
\* redirect to elsewhere; a page named by a meta tag, with a drawing in its
\* body; an endless head; an error behind a header that may be cut; no HTTP.
MCSites ==
    {Site(<<Status(302), To(Web), Blank>>, Page),
     Site(<<Status(302), To(Web), Blank>>, <<Status(302), To(Root), Blank, HeadEnd>>),
     Site(<<Status(302), To(Elsewhere), Blank, HeadEnd>>, Missing),
     Site(<<Status(200), Blank, Is("meta", App), HeadEnd, Is("title", NotFound), HeadEnd>>, Missing),
     Site(<<Status(200), Blank, Other, Other, Other, Other, Other, Is("title", App), HeadEnd>>, Missing),
     Site(<<Status(302), To(Root), To(Web), Blank, HeadEnd>>, <<Status(401), Blank, Is("title", NoName), Is("meta", App), HeadEnd>>),
     Site(Missing, Missing),
     Site(<<Other, Other, HeadEnd, Other, Other, Other, Other, Other, Other>>, Missing)}
=============================================================================
