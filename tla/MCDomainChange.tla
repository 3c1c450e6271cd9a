---------------------------- MODULE MCDomainChange -----------------------------
(* Small configurations for module DomainChange. *)
EXTENDS DomainChange, TLC

CONSTANTS a, b, text, other

Joins(r, w, t, d, f) ==
    [reader |-> r, writer |-> w, topic |-> t, dynamic |-> d, transform |-> f]

\* domain_change/config.xml; a file whose connectors join two participants in both
\* directions, on another topic, with functions on dynamic data and on payloads; and
\* two whose connector stays in one participant, for dynamic data as it is, and with
\* a function on payloads that its listener does not find.
Example ==
    [connectors |-> <<Joins(1, 2, text, FALSE, "none")>>, domain |-> 1 :> 0 @@ 2 :> 5]

MCFiles == {
    Example,
    [connectors |-> <<Joins(1, 2, other, TRUE, "dynamic"), Joins(2, 1, other, FALSE, "static")>>,
     domain |-> 1 :> 0 @@ 2 :> 5],
    [connectors |-> <<Joins(2, 2, other, TRUE, "none")>>, domain |-> 1 :> 0 @@ 2 :> 5],
    [connectors |-> <<Joins(2, 2, other, TRUE, "static")>>, domain |-> 1 :> 0 @@ 2 :> 5] }

\* The two programs have nothing to do with the topic of the other files.
MCArguments == [f \in MCFiles |->
    IF f = Example THEN {a :> "publisher" @@ b :> "subscriber", a :> "other" @@ b :> "none"}
                   ELSE {a :> "none" @@ b :> "none"}]

\* The theorems about the texts apply to these files.
ASSUME MCFilesHaveOneTextRoute == OneTextRoute
===============================================================================
