-------------------------------- MODULE P2PPlan --------------------------------
(***************************************************************************)
(* The pure part of a P2P upload: how many streams a plan gets and which   *)
(* file goes to which stream.  Sizes are in MiB.                           *)
(***************************************************************************)
EXTENDS Naturals, Sequences, SequencesExt

ThreeStreamFiles   == 6
ThreeStreamTotal   == 32
ThreeStreamAverage == 1
FourStreamFiles    == 24
FourStreamTotal    == 256
FourStreamAverage  == 4
MaxParallelism     == 8
AutoParallelism    == 4

Least(a, b) == IF a <= b THEN a ELSE b

\* A stored preference: a manual value from 1 to 8, anything else is Auto (0).
Preference(value) == IF value \in 1 .. MaxParallelism THEN value ELSE 0

AutoStreams(count, total) ==
  LET average == total \div count IN
  IF count >= FourStreamFiles /\ total >= FourStreamTotal /\ average >= FourStreamAverage
  THEN AutoParallelism
  ELSE IF count >= ThreeStreamFiles /\ total >= ThreeStreamTotal
          /\ average >= ThreeStreamAverage
       THEN 3
       ELSE 2

\* Streams for a number of files, their total size and the largest of them.
ChooseParallelism(count, total, largest, value) ==
  IF count <= 1 THEN 1
  ELSE IF Preference(value) # 0 THEN Least(Preference(value), count)
  ELSE IF total = 0 \/ largest = 0 \/ largest > total THEN 1
  ELSE LET selected == AutoStreams(count, total)
           capped   == IF largest * 4 >= total * 3 THEN Least(selected, 2) ELSE selected
       IN  Least(capped, count)

\* A deal that begins: all files in hand, nothing on any stream.
NewDeal(files, count) ==
  [left |-> files, batches |-> [k \in 1 .. count |-> <<>>], loads |-> [k \in 1 .. count |-> 0]]

Largest(files, size) == CHOOSE f \in files : \A g \in files : size[g] <= size[f]

\* The first of the streams with the smallest load.
LightestStream(loads) ==
  CHOOSE k \in DOMAIN loads :
    \A j \in DOMAIN loads : loads[k] < loads[j] \/ (loads[k] = loads[j] /\ k <= j)

\* The largest file in hand goes to the lightest stream.
DealOne(deal, size) ==
  IF deal.left = {} THEN deal
  ELSE LET f == Largest(deal.left, size)
           k == LightestStream(deal.loads)
       IN  [left    |-> deal.left \ {f},
            batches |-> [deal.batches EXCEPT ![k] = Append(@, f)],
            loads   |-> [deal.loads EXCEPT ![k] = @ + size[f]]]

\* Largest file first, each to the lightest stream; directories lead stream 1.
Batches(files, dirs, size, count) ==
  LET deal[n \in Nat] == IF n = 0 THEN NewDeal(files, count) ELSE DealOne(deal[n - 1], size)
      spread == deal[Cardinality(files)].batches
  IN  [spread EXCEPT ![1] = SetToSeq(dirs) \o @]
===============================================================================
