------------------------------ MODULE ResultCMP ------------------------------
(***************************************************************************)
(* Result.CMP of connector/result.go, one loop iteration at a time.  It    *)
(* counts the rows of the second result in a map, then takes the rows of   *)
(* the first one out of it.  An entry whose count reaches zero is deleted, *)
(* so that an empty map means that the first result holds every row of the *)
(* second.                                                                 *)
(***************************************************************************)
EXTENDS Results

CONSTANT Connectors   \* for each connector, the set of results of its queries

(* MySQL's connector fills the columns when it reads the first row, so an  *)
(* empty result has none; the other connectors always fill them.           *)
ASSUME ConnectorsAssumption ==
    /\ FlatOf \in [Rows -> Texts]
    /\ \A results \in Connectors :
          /\ results \subseteq ResultSet
          /\ \A r \in results : ~r.err /\ IsEmpty(r) => r.rows = <<>>
          /\ \A r, q \in results :
                ~r.err /\ ~q.err /\ IsEmpty(r) /\ ~IsEmpty(q) => q.rows # <<>>

VARIABLES
    this, another,   \* the two results, of one connector
    pc,              \* "start", "count", "consume" or "done"
    i,               \* the rows the current loop is through with
    mp,              \* the counts
    allInAnother,
    cmp              \* the value returned

vars == <<this, another, pc, i, mp, allInAnother, cmp>>

res1 == FlatRows(this)
res2 == FlatRows(another)

NotYet == 3

Init ==
    /\ \E results \in Connectors : this \in results /\ another \in results
    /\ pc = "start"
    /\ i = 0
    /\ mp = [x \in {} |-> 0]
    /\ allInAnother = TRUE
    /\ cmp = NotYet

Return(value) ==
    /\ pc' = "done"
    /\ cmp' = value
    /\ UNCHANGED <<this, another, i, mp, allInAnother>>

ReturnError ==
    /\ pc = "start"
    /\ this.err \/ another.err
    /\ Return(-2)

ReturnEmpty ==
    /\ pc = "start"
    /\ ~this.err /\ ~another.err
    /\ \/ IsEmpty(this) /\ IsEmpty(another) /\ Return(0)
       \/ IsEmpty(this) /\ ~IsEmpty(another) /\ Return(-1)
       \/ ~IsEmpty(this) /\ IsEmpty(another) /\ Return(1)

Comparable ==
    /\ ~this.err /\ ~another.err
    /\ ~IsEmpty(this) /\ ~IsEmpty(another)

ReturnColumns ==
    /\ pc = "start"
    /\ Comparable
    /\ this.cols # another.cols
    /\ Return(2)

StartCount ==
    /\ pc = "start"
    /\ Comparable
    /\ this.cols = another.cols
    /\ pc' = "count"
    /\ UNCHANGED <<this, another, i, mp, allInAnother, cmp>>

Put(m, x, n) == [y \in DOMAIN m \cup {x} |-> IF y = x THEN n ELSE m[y]]
\* A mutant: a count that reaches zero stays in the map.
Delete_KeepsEntry(m, x) == [m EXCEPT ![x] = 0]

Delete(m, x) == [y \in DOMAIN m \ {x} |-> m[y]]

\* A mutant: a row seen again starts a new count.
CountRow_Once ==
    /\ pc = "count"
    /\ i < Len(res2)
    /\ mp' = Put(mp, res2[i + 1], 1)
    /\ i' = i + 1
    /\ UNCHANGED <<this, another, pc, allInAnother, cmp>>

CountRow ==
    /\ pc = "count"
    /\ i < Len(res2)
    /\ LET x == res2[i + 1]
       IN  mp' = Put(mp, x, IF x \in DOMAIN mp THEN mp[x] + 1 ELSE 1)
    /\ i' = i + 1
    /\ UNCHANGED <<this, another, pc, allInAnother, cmp>>

StartConsume ==
    /\ pc = "count"
    /\ i = Len(res2)
    /\ pc' = "consume"
    /\ i' = 0
    /\ UNCHANGED <<this, another, mp, allInAnother, cmp>>

ConsumeRow ==
    /\ pc = "consume"
    /\ i < Len(res1)
    /\ LET x == res1[i + 1]
       IN  IF x \in DOMAIN mp
             THEN /\ mp' = IF mp[x] <= 1 THEN Delete(mp, x) ELSE Put(mp, x, mp[x] - 1)
                  /\ UNCHANGED allInAnother
             ELSE /\ allInAnother' = FALSE
                  /\ UNCHANGED mp
    /\ i' = i + 1
    /\ UNCHANGED <<this, another, pc, cmp>>

ReturnOrder ==
    /\ pc = "consume"
    /\ i = Len(res1)
    /\ Return(IF allInAnother
                THEN IF DOMAIN mp = {} THEN 0 ELSE -1
                ELSE IF DOMAIN mp = {} THEN 1 ELSE 2)

Next ==
    \/ ReturnError
    \/ ReturnEmpty
    \/ ReturnColumns
    \/ StartCount
    \/ CountRow
    \/ StartConsume
    \/ ConsumeRow
    \/ ReturnOrder

Spec == Init /\ [][Next]_vars

-----------------------------------------------------------------------------
(* The map in the middle of the loops; what makes the result right.        *)

Counting ==
    pc = "count" =>
        /\ Comparable /\ this.cols = another.cols
        /\ i \in 0 .. Len(res2)
        /\ DOMAIN mp = {x \in Texts : Occ(res2, i, x) > 0}
        /\ \A x \in DOMAIN mp : mp[x] = Occ(res2, i, x)
        /\ allInAnother

Consuming ==
    pc = "consume" =>
        /\ Comparable /\ this.cols = another.cols
        /\ i \in 0 .. Len(res1)
        /\ DOMAIN mp = {x \in Texts : Occurrences(res2, x) > Occ(res1, i, x)}
        /\ \A x \in DOMAIN mp : mp[x] = Occurrences(res2, x) - Occ(res1, i, x)
        /\ allInAnother <=> \A x \in Texts : Occ(res1, i, x) <= Occurrences(res2, x)

\* At the start nothing is counted.
Starting == pc = "start" => i = 0 /\ DOMAIN mp = {} /\ allInAnother

TypeOK ==
    /\ \E results \in Connectors : this \in results /\ another \in results
    /\ pc \in {"start", "count", "consume", "done"}
    /\ allInAnother \in BOOLEAN
    /\ cmp \in {-2, -1, 0, 1, 2, NotYet}

(* After every iteration the map holds, for each text, the rows of the     *)
(* second result that the rows of the first looked at so far did not use   *)
(* up (result.go:232-253).  Two loops, a deletion and duplicated rows have *)
(* to agree for it.                                                        *)
MapIsRemainder == TypeOK /\ Starting /\ Counting /\ Consuming

(* CMP tells containment of the rows as bags: -1, 0, 1 or 2, whatever the  *)
(* order and the multiplicity of the rows (result.go:194-200).             *)
CMPIsContainment == pc = "done" => cmp = CMP(this, another)
=============================================================================
