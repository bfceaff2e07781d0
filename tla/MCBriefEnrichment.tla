-------------------------- MODULE MCBriefEnrichment --------------------------
(* Small instances of BriefEnrichment for TLC. *)
EXTENDS BriefEnrichment, TLC
CONSTANTS t1, t2, r1, r2, r3, f1, f2

MCSelections == {<<>>, <<r1>>, <<r1, r2, r3>>}
MCKnown == r1 :> {f1} @@ r2 :> {f2} @@ r3 :> {}

Fine(r) == [id |-> r, long |-> FALSE, iterable |-> TRUE, actions |-> 2,
            mentions |-> Known[r], claims |-> FALSE]
Flawed(r) == {[Fine(r) EXCEPT !.mentions = {f1, f2}], [Fine(r) EXCEPT !.claims = TRUE]}
List(entries) == [list |-> TRUE, entries |-> entries]
OneEntry == UNION {Flawed(r) \cup {Fine(r)} : r \in {r1, r2}} \cup {Fine(r3)}

RichAnswers ==
    {[list |-> FALSE, entries |-> <<>>], List(<<>>)}
    \cup {List(<<e>>) : e \in OneEntry}
    \cup {List(<<a, b>>) : a, b \in OneEntry}
    \cup {List(<<Fine(r3), Fine(r3), Fine(r3), Fine(r1), Fine(r2)>>),
          List(<<[Fine(r1) EXCEPT !.long = TRUE], Fine(r2), Fine(r1)>>),
          List(<<[Fine(r1) EXCEPT !.actions = 1], Fine(r2)>>),
          List(<<Fine(r1), [Fine(r2) EXCEPT !.iterable = FALSE]>>)}
MCAnswers == t1 :> RichAnswers @@ t2 :> {List(<<Fine(r1)>>)}
=============================================================================
