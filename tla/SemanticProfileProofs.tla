------------------------- MODULE SemanticProfileProofs -------------------------
(***************************************************************************)
(* Scans and spaces for any number of administrators, scans and spaces:    *)
(* what is done is saved, and a field is in one place.                     *)
(***************************************************************************)
EXTENDS SemanticProfile, SequenceTheorems, FiniteSetTheorems, TLAPS

Places == {"queued", "begin", "first", "scan", "scanned", "second", "profile", "discover",
           "save", "saved", "finish", "raised", "failing", "ended", "cut"}
Phases == {"pending", "phase_one", "phase_two", "discovering", "done", "failed"}

(* Where a scan has not saved its suggestions. *)
Before == {"queued", "begin", "first", "scan", "scanned", "second", "profile", "discover", "save"}

(* Where a scan may have marked its snapshot done. *)
Finished == {"finish", "raised", "failing", "ended", "cut"}

Makers == {<<kind, n>> : kind \in {"snapshot", "space"}, n \in Nat}
Fields == [of : Makers, column : Columns, status : {"confirmed", "excluded"}]
Snaps == [phase : Phases, catalog : SUBSET Columns, pool : SUBSET Fields]
Scans == [at : Places, snap : Nat, answer : {"none", "spaces", "empty"}]
Spaces == [snap : Nat, state : {"draft", "published"}, version : Nat, fields : SUBSET Fields]

ProfileType ==
  /\ asked \in Nat
  /\ jobs \in Seq(Phases) /\ snaps \in Seq(Snaps) /\ scans \in Seq(Scans)
  /\ Len(jobs) = Len(scans)
  /\ spaces \in [DOMAIN spaces -> Spaces]
  /\ handler = [a \in Admins |-> handler[a]]

(* A snapshot belongs to one scan, which marks it in its turn; a job that  *)
(* says done has nothing left to do. *)
ScansInv ==
  /\ \A j \in DOMAIN scans : scans[j].snap \in DOMAIN snaps
  /\ \A i, j \in DOMAIN scans : scans[i].snap = scans[j].snap => i = j
  /\ DoneIsSaved
  /\ \A j \in DOMAIN scans : scans[j].at = "finish" => snaps[scans[j].snap].phase = "done"
  /\ \A j \in DOMAIN scans : snaps[scans[j].snap].phase = "failed" => scans[j].at \in {"ended", "cut"}
  /\ \A j \in DOMAIN jobs : jobs[j] = "done" => scans[j].at = "ended"
  /\ \A a \in Admins : handler[a].op = "tell" => handler[a].job \in DOMAIN jobs

(* Fields with one id. *)
Same(f, g) == f.of = g.of /\ f.column = g.column
Apart(fs, gs) == \A f \in fs, g \in gs : ~Same(f, g)

(* Suggestions carry their snapshot; a space has its own fields and some   *)
(* of snapshots. *)
OwnPools == \A s \in DOMAIN snaps : \A f \in snaps[s].pool : f.of = <<"snapshot", s>>
OwnFields ==
  \A x \in DOMAIN spaces : \A f \in spaces[x].fields :
      f.of = <<"space", x>> \/ \E s \in DOMAIN snaps : f.of = <<"snapshot", s>>

(* What a scan is yet to suggest is suggested and adopted nowhere. *)
Unsaved ==
  \A j \in DOMAIN scans : scans[j].at \in Before =>
      /\ snaps[scans[j].snap].pool = {}
      /\ \A x \in DOMAIN spaces : \A f \in spaces[x].fields : f.of # <<"snapshot", scans[j].snap>>

(* A field is suggested once, or in one space. *)
OnePlace ==
  \A x \in DOMAIN spaces :
      /\ \A s \in DOMAIN snaps : Apart(snaps[s].pool, spaces[x].fields)
      /\ \A y \in DOMAIN spaces \ {x} : Apart(spaces[y].fields, spaces[x].fields)

(* The number of a space is used by one request and by no space before. *)
Numbered ==
  /\ DOMAIN spaces \subseteq 0 .. asked
  /\ \A a \in Admins : handler[a].op = "create" =>
        /\ handler[a].space \in 1 .. asked /\ handler[a].space \notin DOMAIN spaces
        /\ handler[a].snap \in DOMAIN snaps /\ handler[a].table \subseteq Columns
        /\ \A b \in Admins \ {a} : handler[b].op = "create" => handler[b].space # handler[a].space

AdoptInv == OwnPools /\ OwnFields /\ Unsaved /\ OnePlace /\ Numbered

ProfileInv == ProfileType /\ ScansInv /\ AdoptInv

-----------------------------------------------------------------------------
(* Jobs, snapshots and scans as functions. *)
LEMMA Rows ==
  ASSUME ProfileType
  PROVE  /\ Len(jobs) \in Nat /\ DOMAIN jobs = 1 .. Len(jobs)
         /\ \A j \in DOMAIN jobs : jobs[j] \in Phases
         /\ Len(scans) \in Nat /\ DOMAIN scans = 1 .. Len(scans) /\ DOMAIN scans = DOMAIN jobs
         /\ \A j \in DOMAIN scans : scans[j] \in Scans
         /\ Newest \in Nat /\ DOMAIN snaps = 1 .. Newest
         /\ \A s \in DOMAIN snaps : snaps[s] \in Snaps
  <1>1. jobs \in Seq(Phases) /\ snaps \in Seq(Snaps) /\ scans \in Seq(Scans) /\ Len(jobs) = Len(scans)
    BY DEF ProfileType
  <1>2. Len(jobs) \in Nat /\ DOMAIN jobs = 1 .. Len(jobs)
    BY <1>1, LenProperties
  <1>3. Len(scans) \in Nat /\ DOMAIN scans = 1 .. Len(scans)
    BY <1>1, LenProperties
  <1>4. Newest \in Nat /\ DOMAIN snaps = 1 .. Newest
    BY <1>1, LenProperties DEF Newest
  <1> QED
    BY <1>1, <1>2, <1>3, <1>4, ElementOfSeq DEF Newest

(* A scan goes on, and nothing is written but what its place allows. *)
LEMMA ScanMoves ==
  ASSUME ProfileInv, NEW j \in DOMAIN scans, NEW to \in Places,
         NEW answer \in {"none", "spaces", "empty"},
         scans' = [scans EXCEPT ![j].at = to, ![j].answer = answer]
  PROVE  /\ scans' \in Seq(Scans) /\ Len(scans') = Len(scans) /\ DOMAIN scans' = DOMAIN scans
         /\ \A i \in DOMAIN scans : scans'[i].snap = scans[i].snap
         /\ \A i \in DOMAIN scans \ {j} : scans'[i] = scans[i]
         /\ scans'[j].at = to
  <1> DEFINE row == [scans[j] EXCEPT !.at = to, !.answer = answer]
  <1>1. scans[j] \in Scans /\ j \in 1 .. Len(scans) /\ scans \in Seq(Scans)
    BY Rows DEF ProfileInv, ProfileType
  <1>2. row \in Scans /\ row.snap = scans[j].snap /\ row.at = to
    BY <1>1 DEF Scans
  <1>3. scans' = [scans EXCEPT ![j] = row]
    BY <1>1
  <1> HIDE DEF row
  <1>4. /\ scans' \in Seq(Scans) /\ Len(scans') = Len(scans)
        /\ \A i \in 1 .. Len(scans) : scans'[i] = IF i = j THEN row ELSE scans[i]
    <2> DEFINE new == [scans EXCEPT ![j] = row]
    <2>1. /\ new \in Seq(Scans) /\ Len(new) = Len(scans)
          /\ \A i \in 1 .. Len(scans) : new[i] = IF i = j THEN row ELSE scans[i]
      BY <1>1, <1>2, ExceptSeq
    <2> HIDE DEF new
    <2> QED
      BY <1>3, <2>1 DEF new
  <1>5. DOMAIN scans' = DOMAIN scans /\ DOMAIN scans = 1 .. Len(scans)
    BY <1>1, <1>4, LenProperties
  <1> QED
    BY <1>1, <1>2, <1>4, <1>5

(* One row of a table is written. *)
LEMMA RowWritten ==
  ASSUME NEW S, NEW q \in Seq(S), NEW i \in DOMAIN q, NEW row \in S, NEW new, new = [q EXCEPT ![i] = row]
  PROVE  /\ new \in Seq(S) /\ Len(new) = Len(q) /\ DOMAIN new = DOMAIN q
         /\ new[i] = row /\ \A k \in DOMAIN q \ {i} : new[k] = q[k]
  <1>1. i \in 1 .. Len(q) /\ DOMAIN q = 1 .. Len(q)
    BY LenProperties
  <1>2. /\ [q EXCEPT ![i] = row] \in Seq(S) /\ Len([q EXCEPT ![i] = row]) = Len(q)
        /\ \A k \in 1 .. Len(q) : [q EXCEPT ![i] = row][k] = IF k = i THEN row ELSE q[k]
    BY <1>1, ExceptSeq
  <1>3. /\ new \in Seq(S) /\ Len(new) = Len(q)
        /\ \A k \in 1 .. Len(q) : new[k] = IF k = i THEN row ELSE q[k]
    BY <1>2
  <1>4. DOMAIN new = 1 .. Len(new)
    BY <1>3, LenProperties
  <1> QED
    BY <1>1, <1>3, <1>4

(* What a step of a scan writes: to its own row, job and snapshot, and it  *)
(* leaves the spaces of X. *)
ScanWrites(j, to, answer, phase, row, X) ==
  /\ to \in Places /\ answer \in {"none", "spaces", "empty"} /\ phase \in Phases
  /\ row \in Snaps /\ X \in SUBSET DOMAIN spaces
  /\ scans' = [scans EXCEPT ![j].at = to, ![j].answer = answer]
  /\ jobs' = [jobs EXCEPT ![j] = phase]
  /\ snaps' = [snaps EXCEPT ![scans[j].snap] = row]
  /\ spaces' = [x \in X |-> spaces[x]]
  /\ handler' = handler /\ asked' = asked

(* Such a step keeps the invariant if the phases agree with where the scan *)
(* goes and the suggestions carry its snapshot. *)
LEMMA ScanKeeps ==
  ASSUME ProfileInv, NEW j \in DOMAIN scans, NEW to, NEW answer, NEW phase, NEW row, NEW X,
         ScanWrites(j, to, answer, phase, row, X),
         row.phase = "done" => to \in Finished,
         to = "finish" => row.phase = "done",
         row.phase = "failed" => to \in {"ended", "cut"},
         phase = "done" => row.phase = "done" /\ to = "ended",
         \A f \in row.pool : f.of = <<"snapshot", scans[j].snap>>,
         row.pool = snaps[scans[j].snap].pool \/ scans[j].at \in Before,
         to \in Before => scans[j].at \in Before /\ row.pool = {}
  PROVE  ProfileInv'
  <1> DEFINE n == scans[j].snap
  <1> USE DEF ScanWrites
  <1>1. /\ scans' \in Seq(Scans) /\ Len(scans') = Len(scans) /\ DOMAIN scans' = DOMAIN scans
        /\ \A i \in DOMAIN scans : scans'[i].snap = scans[i].snap
        /\ \A i \in DOMAIN scans \ {j} : scans'[i] = scans[i]
        /\ scans'[j].at = to
    BY ScanMoves
  <1>2. DOMAIN jobs = DOMAIN scans /\ jobs \in Seq(Phases) /\ snaps \in Seq(Snaps) /\ n \in DOMAIN snaps
    BY Rows DEF ProfileInv, ProfileType, ScansInv
  <1>3. /\ jobs' \in Seq(Phases) /\ Len(jobs') = Len(jobs) /\ DOMAIN jobs' = DOMAIN jobs
        /\ jobs'[j] = phase /\ \A i \in DOMAIN jobs \ {j} : jobs'[i] = jobs[i]
    BY <1>2, RowWritten
  <1>4. /\ snaps' \in Seq(Snaps) /\ Len(snaps') = Len(snaps) /\ DOMAIN snaps' = DOMAIN snaps
        /\ snaps'[n] = row /\ \A s \in DOMAIN snaps \ {n} : snaps'[s] = snaps[s]
    BY <1>2, RowWritten
  <1>5. DOMAIN spaces' = X /\ \A x \in X : spaces'[x] = spaces[x]
    OBVIOUS
  <1> HIDE DEF n
  <1>6. ProfileType'
    BY <1>1, <1>3, <1>4, <1>5 DEF ProfileInv, ProfileType
  <1>7. ScansInv'
    <2>1. \A i \in DOMAIN scans \ {j} : scans[i].snap \in DOMAIN snaps \ {n}
      BY DEF ProfileInv, ScansInv, n
    <2>2. \A i \in DOMAIN scans : scans'[i].snap \in DOMAIN snaps'
      BY <1>1, <1>2, <1>4 DEF ProfileInv, ScansInv
    <2>3. \A i, k \in DOMAIN scans : scans'[i].snap = scans'[k].snap => i = k
      BY <1>1 DEF ProfileInv, ScansInv
    <2>4. \A i \in DOMAIN scans : snaps'[scans'[i].snap].phase = "done" => scans'[i].at \in Finished
      BY <1>1, <1>4, <2>1 DEF ProfileInv, ScansInv, DoneIsSaved, Finished, n
    <2>5. \A i \in DOMAIN scans : scans'[i].at = "finish" => snaps'[scans'[i].snap].phase = "done"
      BY <1>1, <1>4, <2>1 DEF ProfileInv, ScansInv, n
    <2>6. \A i \in DOMAIN jobs : jobs'[i] = "done" =>
            snaps'[scans'[i].snap].phase = "done" /\ scans'[i].at = "ended"
      BY <1>1, <1>2, <1>3, <1>4, <2>1 DEF ProfileInv, ScansInv, DoneIsSaved, n
    <2>7. \A a \in Admins : handler'[a].op = "tell" => handler'[a].job \in DOMAIN jobs'
      BY <1>3 DEF ProfileInv, ScansInv
    <2>8. DoneIsSaved'
      BY <1>1, <1>3, <2>4, <2>6 DEF DoneIsSaved, Finished
    <2>9. \A i \in DOMAIN scans : snaps'[scans'[i].snap].phase = "failed" => scans'[i].at \in {"ended", "cut"}
      BY <1>1, <1>4, <2>1 DEF ProfileInv, ScansInv, n
    <2>10. DOMAIN scans' = DOMAIN scans /\ DOMAIN jobs' = DOMAIN jobs
      BY <1>1, <1>3
    <2>11. /\ \A i \in DOMAIN scans' : scans'[i].snap \in DOMAIN snaps'
           /\ \A i, k \in DOMAIN scans' : scans'[i].snap = scans'[k].snap => i = k
           /\ \A i \in DOMAIN scans' : scans'[i].at = "finish" => snaps'[scans'[i].snap].phase = "done"
      BY <2>2, <2>3, <2>5, <2>10
    <2>12. /\ \A i \in DOMAIN scans' : snaps'[scans'[i].snap].phase = "failed" => scans'[i].at \in {"ended", "cut"}
           /\ \A i \in DOMAIN jobs' : jobs'[i] = "done" => scans'[i].at = "ended"
      BY <2>6, <2>9, <2>10
    <2> QED
      BY <2>7, <2>8, <2>11, <2>12, Zenon DEF ScansInv
  <1>8. OwnPools' /\ OwnFields' /\ Numbered'
    BY <1>4, <1>5 DEF ProfileInv, AdoptInv, OwnPools, OwnFields, Numbered, n
  <1>9. Unsaved'
    <2>1. \A i \in DOMAIN scans \ {j} : scans[i].snap \in DOMAIN snaps \ {n}
      BY DEF ProfileInv, ScansInv, n
    <2> QED
      BY <1>1, <1>4, <1>5, <2>1 DEF ProfileInv, AdoptInv, Unsaved, n
  <1>10. OnePlace'
    <2>1. \A x \in X : Apart(row.pool, spaces[x].fields)
      BY <1>2 DEF ProfileInv, AdoptInv, Unsaved, OnePlace, Apart, Same, n
    <2> QED
      BY <1>4, <1>5, <2>1 DEF ProfileInv, AdoptInv, OnePlace
  <1> QED
    BY <1>6, <1>7, <1>8, <1>9, <1>10 DEF ProfileInv, AdoptInv

(* What a step of a scan leaves alone is written as it is. *)
LEMMA Unwritten ==
  ASSUME ProfileInv, NEW j \in DOMAIN scans
  PROVE  /\ jobs = [jobs EXCEPT ![j] = jobs[j]] /\ jobs[j] \in Phases
         /\ scans[j].snap \in DOMAIN snaps /\ snaps[scans[j].snap] \in Snaps
         /\ snaps = [snaps EXCEPT ![scans[j].snap] = snaps[scans[j].snap]]
         /\ spaces = [x \in DOMAIN spaces |-> spaces[x]]
         /\ scans[j].at \in Places /\ scans[j].answer \in {"none", "spaces", "empty"}
         /\ \A to : [scans EXCEPT ![j].at = to] =
                   [scans EXCEPT ![j].at = to, ![j].answer = scans[j].answer]
         /\ \A f \in snaps[scans[j].snap].pool : f.of = <<"snapshot", scans[j].snap>>
         /\ scans[j].at \in Before => snaps[scans[j].snap].pool = {}
         /\ snaps[scans[j].snap].phase = "done" => scans[j].at \in Finished
         /\ jobs[j] = "done" => snaps[scans[j].snap].phase = "done" /\ scans[j].at = "ended"
         /\ scans[j].at = "finish" => snaps[scans[j].snap].phase = "done"
         /\ snaps[scans[j].snap].phase = "failed" => scans[j].at \in {"ended", "cut"}
  <1>1. scans[j].snap \in DOMAIN snaps
    BY DEF ProfileInv, ScansInv
  <1>2. /\ j \in DOMAIN jobs /\ jobs \in [DOMAIN jobs -> Phases]
        /\ snaps \in [DOMAIN snaps -> Snaps] /\ scans \in [DOMAIN scans -> Scans]
    <2>1. jobs \in Seq(Phases) /\ snaps \in Seq(Snaps) /\ scans \in Seq(Scans)
      BY DEF ProfileInv, ProfileType
    <2> QED
      BY <2>1, Rows, LenProperties DEF ProfileInv, Newest
  <1>3. jobs = [jobs EXCEPT ![j] = jobs[j]] /\ jobs[j] \in Phases
    BY <1>2
  <1>4. /\ snaps[scans[j].snap] \in Snaps
        /\ snaps = [snaps EXCEPT ![scans[j].snap] = snaps[scans[j].snap]]
    BY <1>1, <1>2
  <1>5. scans[j] \in Scans
    BY <1>2
  <1>6. \A to : [scans[j] EXCEPT !.at = to] = [scans[j] EXCEPT !.at = to, !.answer = scans[j].answer]
    BY <1>5 DEF Scans
  <1>7. \A to : [scans EXCEPT ![j].at = to] =
                [scans EXCEPT ![j].at = to, ![j].answer = scans[j].answer]
    BY <1>2, <1>6
  <1>8. spaces = [x \in DOMAIN spaces |-> spaces[x]]
    BY DEF ProfileInv, ProfileType
  <1>9. scans[j].at \in Places /\ scans[j].answer \in {"none", "spaces", "empty"}
    BY <1>5 DEF Scans
  <1> QED
    BY <1>1, <1>2, <1>3, <1>4, <1>7, <1>8, <1>9
    DEF ProfileInv, ScansInv, DoneIsSaved, AdoptInv, OwnPools, Unsaved, Finished

(* Steps that write nothing but where the scan is. *)
LEMMA ScanGoesOn ==
  ASSUME ProfileInv, NEW j \in DOMAIN scans, NEW to \in Places,
         NEW answer \in {"none", "spaces", "empty"},
         scans' = [scans EXCEPT ![j].at = to, ![j].answer = answer],
         UNCHANGED <<jobs, snaps, spaces, handler, asked>>,
         to \in Before => scans[j].at \in Before,
         scans[j].at \in Finished => to \in Finished,
         scans[j].at \notin {"ended", "cut"}, to # "finish"
  PROVE  ProfileInv'
  <1> DEFINE n == scans[j].snap
  <1>1. /\ jobs' = [jobs EXCEPT ![j] = jobs[j]] /\ jobs[j] \in Phases
        /\ snaps' = [snaps EXCEPT ![n] = snaps[n]] /\ snaps[n] \in Snaps
        /\ spaces' = [x \in DOMAIN spaces |-> spaces[x]]
    BY Unwritten
  <1>2. /\ snaps[n].phase = "done" => to \in Finished
        /\ jobs[j] # "done" /\ snaps[n].phase # "failed"
        /\ \A f \in snaps[n].pool : f.of = <<"snapshot", n>>
        /\ to \in Before => scans[j].at \in Before /\ snaps[n].pool = {}
    BY Unwritten
  <1>3. scans[j].at \in Places
    BY Unwritten
  <1>4. ScanWrites(j, to, answer, jobs[j], snaps[n], DOMAIN spaces)
    BY <1>1 DEF ScanWrites
  <1> QED
    BY <1>2, <1>4, ScanKeeps

(* A thread takes the scan, the model answers, something raises, or the    *)
(* thread ends. *)
LEMMA ScanAdvances ==
  ASSUME ProfileInv, NEW j \in DOMAIN scans, TakeScan(j) \/ Discover(j) \/ Raise(j) \/ GiveUp(j)
  PROVE  ProfileInv'
  <1>1. CASE TakeScan(j)
    <2>1. scans' = [scans EXCEPT ![j].at = "begin", ![j].answer = scans[j].answer]
      BY <1>1, Unwritten DEF TakeScan, Move
    <2> QED
      BY <1>1, <2>1, Unwritten, ScanGoesOn DEF TakeScan, Before, Finished, Places
  <1>2. CASE Discover(j)
    <2>1. PICK answers \in {{"error"}, {"error", "empty"}, {"spaces"}} :
            scans' = [scans EXCEPT
                ![j].at = IF answers = {"error"} THEN "raised" ELSE "save",
                ![j].answer = IF answers = {"error"} THEN "none"
                              ELSE IF "spaces" \in answers THEN "spaces" ELSE "empty"]
      BY <1>2 DEF Discover
    <2> DEFINE to == IF answers = {"error"} THEN "raised" ELSE "save"
               answer == IF answers = {"error"} THEN "none"
                         ELSE IF "spaces" \in answers THEN "spaces" ELSE "empty"
    <2>2. to \in {"raised", "save"} /\ answer \in {"none", "spaces", "empty"}
      OBVIOUS
    <2>3. scans' = [scans EXCEPT ![j].at = to, ![j].answer = answer]
      BY <2>1
    <2> HIDE DEF to, answer
    <2>4. scans[j].at = "discover" /\ UNCHANGED <<jobs, snaps, spaces, handler, asked>>
      BY <1>2 DEF Discover
    <2> QED
      BY <2>2, <2>3, <2>4, ScanGoesOn DEF Before, Finished, Places
  <1>3. CASE Raise(j)
    <2>1. scans' = [scans EXCEPT ![j].at = "raised", ![j].answer = scans[j].answer]
      BY <1>3, Unwritten DEF Raise, Move
    <2>2. scans[j].at \notin {"ended", "cut"} /\ UNCHANGED <<jobs, snaps, spaces, handler, asked>>
      BY <1>3 DEF Raise
    <2>3. scans[j].answer \in {"none", "spaces", "empty"}
      BY Unwritten
    <2> QED
      BY <2>1, <2>2, <2>3, ScanGoesOn DEF Before, Finished, Places
  <1>4. CASE GiveUp(j)
    <2>1. scans' = [scans EXCEPT ![j].at = "cut", ![j].answer = scans[j].answer]
      BY <1>4, Unwritten DEF GiveUp, Move
    <2> QED
      BY <1>4, <2>1, Unwritten, ScanGoesOn DEF GiveUp, Before, Finished, Places
  <1> QED
    BY <1>1, <1>2, <1>3, <1>4

(* What the scan tells its job. *)
LEMMA JobMarked ==
  ASSUME ProfileInv, NEW j \in DOMAIN scans, MarkJob(j)
  PROVE  ProfileInv'
  <1>1. PICK m \in JobMarks :
          /\ scans[j].at = m[1] /\ jobs' = [jobs EXCEPT ![j] = m[2]] /\ Move(j, m[3])
          /\ UNCHANGED <<snaps, spaces, handler, asked>>
    BY DEF MarkJob
  <1>2. /\ m[1] \in {"begin", "second", "profile", "finish", "raised"}
        /\ m[2] \in Phases /\ m[3] \in Places /\ m[3] # "finish"
        /\ m[3] \in Before => m[1] \in Before
        /\ m[1] \in Finished => m[3] \in Finished
        /\ m[2] = "done" => m[1] = "finish" /\ m[3] = "ended"
        /\ m[1] \notin {"ended", "cut"}
    BY DEF JobMarks, Phases, Places, Before, Finished
  <1>3. scans' = [scans EXCEPT ![j].at = m[3], ![j].answer = scans[j].answer]
    BY <1>1, Unwritten DEF Move
  <1> DEFINE n == scans[j].snap
  <1>4. /\ snaps' = [snaps EXCEPT ![n] = snaps[n]] /\ snaps[n] \in Snaps
        /\ spaces' = [x \in DOMAIN spaces |-> spaces[x]]
        /\ scans[j].answer \in {"none", "spaces", "empty"}
    BY <1>1, Unwritten
  <1>5. /\ snaps[n].phase = "done" => m[3] \in Finished
        /\ m[3] = "finish" => snaps[n].phase = "done"
        /\ snaps[n].phase # "failed"
        /\ m[2] = "done" => snaps[n].phase = "done" /\ m[3] = "ended"
        /\ \A f \in snaps[n].pool : f.of = <<"snapshot", n>>
        /\ m[3] \in Before => scans[j].at \in Before /\ snaps[n].pool = {}
    BY <1>1, <1>2, Unwritten
  <1>6. ScanWrites(j, m[3], scans[j].answer, m[2], snaps[n], DOMAIN spaces)
    BY <1>1, <1>2, <1>3, <1>4 DEF ScanWrites
  <1> QED
    BY <1>5, <1>6, ScanKeeps

(* What the scan tells its snapshot. *)
LEMMA SnapMarked ==
  ASSUME ProfileInv, NEW j \in DOMAIN scans, MarkSnap(j)
  PROVE  ProfileInv'
  <1> DEFINE n == scans[j].snap
  <1>1. PICK m \in SnapMarks :
          /\ scans[j].at = m[1] /\ snaps' = [snaps EXCEPT ![n].phase = m[2]] /\ Move(j, m[3])
          /\ UNCHANGED <<jobs, spaces, handler, asked>>
    BY DEF MarkSnap
  <1>2. /\ m[1] \in {"first", "scanned", "saved", "failing"}
        /\ m[2] \in Phases /\ m[3] \in Places
        /\ m[3] \in Before => m[1] \in Before
        /\ m[2] = "done" => m[3] = "finish"
        /\ m[3] = "finish" => m[2] = "done"
        /\ m[2] = "failed" => m[3] = "ended"
    BY DEF SnapMarks, Phases, Places, Before
  <1>3. scans' = [scans EXCEPT ![j].at = m[3], ![j].answer = scans[j].answer]
    BY <1>1, Unwritten DEF Move
  <1>4. PICK row \in Snaps :
          row.phase = m[2] /\ row.pool = snaps[n].pool /\ snaps' = [snaps EXCEPT ![n] = row]
    <2> DEFINE new == [snaps[n] EXCEPT !.phase = m[2]]
    <2>1. new \in Snaps /\ new.phase = m[2] /\ new.pool = snaps[n].pool
      BY <1>2, Unwritten DEF Snaps
    <2>2. snaps' = [snaps EXCEPT ![n] = new]
      BY <1>1
    <2> HIDE DEF new
    <2> QED
      BY <2>1, <2>2
  <1>6. /\ jobs' = [jobs EXCEPT ![j] = jobs[j]] /\ jobs[j] \in Phases /\ jobs[j] # "done"
        /\ spaces' = [x \in DOMAIN spaces |-> spaces[x]]
        /\ scans[j].answer \in {"none", "spaces", "empty"}
    BY <1>1, <1>2, Unwritten
  <1>7. /\ \A f \in row.pool : f.of = <<"snapshot", n>>
        /\ m[3] \in Before => scans[j].at \in Before /\ row.pool = {}
    BY <1>1, <1>2, <1>4, Unwritten
  <1>8. row.phase = "done" => m[3] \in Finished
    BY <1>2, <1>4 DEF Finished
  <1>9. ScanWrites(j, m[3], scans[j].answer, jobs[j], row, DOMAIN spaces)
    BY <1>1, <1>2, <1>3, <1>4, <1>6 DEF ScanWrites
  <1>10. /\ m[3] = "finish" => row.phase = "done"
         /\ row.phase = "failed" => m[3] = "ended"
         /\ row.pool = snaps[n].pool
    BY <1>2, <1>4
  <1> QED
    BY <1>6, <1>7, <1>8, <1>9, <1>10, ScanKeeps

(* The catalog is written as a whole. *)
LEMMA CatalogSaved ==
  ASSUME ProfileInv, NEW j \in DOMAIN scans, SaveCatalog(j)
  PROVE  ProfileInv'
  <1> DEFINE n == scans[j].snap
  <1>1. PICK cs \in Schemas :
          /\ scans[j].at = "scan" /\ snaps' = [snaps EXCEPT ![n].catalog = cs] /\ Move(j, "scanned")
          /\ UNCHANGED <<jobs, spaces, handler, asked>>
    BY DEF SaveCatalog
  <1>2. scans' = [scans EXCEPT ![j].at = "scanned", ![j].answer = scans[j].answer]
    BY <1>1, Unwritten DEF Move
  <1>3. PICK row \in Snaps :
          row.phase = snaps[n].phase /\ row.pool = snaps[n].pool /\ snaps' = [snaps EXCEPT ![n] = row]
    <2> DEFINE new == [snaps[n] EXCEPT !.catalog = cs]
    <2>1. snaps[n] \in Snaps /\ cs \in SUBSET Columns
      BY Unwritten, ProfileAssumption
    <2>2. new \in Snaps /\ new.phase = snaps[n].phase /\ new.pool = snaps[n].pool
      BY <2>1 DEF Snaps
    <2>3. snaps' = [snaps EXCEPT ![n] = new]
      BY <1>1
    <2> HIDE DEF new
    <2> QED
      BY <2>2, <2>3
  <1>5. /\ jobs' = [jobs EXCEPT ![j] = jobs[j]] /\ jobs[j] \in Phases /\ jobs[j] # "done"
        /\ spaces' = [x \in DOMAIN spaces |-> spaces[x]]
        /\ scans[j].answer \in {"none", "spaces", "empty"}
    BY <1>1, Unwritten
  <1>6. scans[j].at \in Before /\ scans[j].at \notin Finished /\ "scanned" \in Places
        /\ scans[j].at \notin {"ended", "cut"}
    BY <1>1 DEF Before, Finished, Places
  <1>7. row.phase # "done" /\ row.phase # "failed" /\ row.pool = {}
    BY <1>3, <1>6, Unwritten
  <1>8. ScanWrites(j, "scanned", scans[j].answer, jobs[j], row, DOMAIN spaces)
    BY <1>1, <1>2, <1>3, <1>5, <1>6 DEF ScanWrites
  <1> QED
    BY <1>3, <1>5, <1>6, <1>7, <1>8, ScanKeeps

(* The suggestions come, the snapshot's spaces go. *)
LEMMA SpacesSaved ==
  ASSUME ProfileInv, NEW j \in DOMAIN scans, SaveSpaces(j)
  PROVE  ProfileInv'
  <1> DEFINE n == scans[j].snap
  <1>1. PICK cs \in SUBSET snaps[n].catalog :
          snaps' = [snaps EXCEPT ![n].pool = {Field("snapshot", n, c) : c \in cs}]
    BY DEF SaveSpaces
  <1>2. /\ scans[j].at = "save" /\ Move(j, "saved") /\ UNCHANGED <<jobs, handler, asked>>
        /\ spaces' = [x \in Others(n) |-> spaces[x]]
    BY DEF SaveSpaces
  <1>3. scans' = [scans EXCEPT ![j].at = "saved", ![j].answer = scans[j].answer]
    BY <1>2, Unwritten DEF Move
  <1>4. PICK row \in Snaps :
          /\ row.phase = snaps[n].phase /\ \A f \in row.pool : f.of = <<"snapshot", n>>
          /\ snaps' = [snaps EXCEPT ![n] = row]
    <2> DEFINE pool == {Field("snapshot", n, c) : c \in cs}
               new == [snaps[n] EXCEPT !.pool = pool]
    <2>1. snaps[n] \in Snaps /\ n \in Nat
      <3>1. n \in 1 .. Newest /\ Newest \in Nat
        BY Unwritten, Rows DEF ProfileInv
      <3>2. n \in Nat
        BY <3>1
      <3>3. snaps[n] \in Snaps
        BY Unwritten
      <3> QED
        BY <3>2, <3>3
    <2>2. cs \subseteq Columns
      BY <2>1 DEF Snaps
    <2>3. pool \in SUBSET Fields /\ \A f \in pool : f.of = <<"snapshot", n>>
      BY <2>1, <2>2 DEF Field, Fields, Makers
    <2> HIDE DEF pool
    <2>4. new \in Snaps /\ new.phase = snaps[n].phase /\ new.pool = pool
      BY <2>1, <2>3 DEF Snaps
    <2>5. snaps' = [snaps EXCEPT ![n] = new]
      BY <1>1 DEF pool
    <2> HIDE DEF new
    <2> QED
      BY <2>3, <2>4, <2>5
  <1>7. /\ jobs' = [jobs EXCEPT ![j] = jobs[j]] /\ jobs[j] \in Phases /\ jobs[j] # "done"
        /\ Others(n) \in SUBSET DOMAIN spaces
        /\ scans[j].answer \in {"none", "spaces", "empty"}
    BY <1>2, Unwritten DEF Others
  <1>8. scans[j].at \in Before /\ scans[j].at \notin Finished /\ "saved" \in Places /\ "saved" \notin Before
        /\ scans[j].at \notin {"ended", "cut"}
    BY <1>2 DEF Before, Finished, Places
  <1>9. row.phase # "done" /\ row.phase # "failed"
    BY <1>4, <1>8, Unwritten
  <1>10. ScanWrites(j, "saved", scans[j].answer, jobs[j], row, Others(n))
    BY <1>2, <1>3, <1>4, <1>7, <1>8 DEF ScanWrites
  <1> QED
    BY <1>4, <1>7, <1>8, <1>9, <1>10, ScanKeeps

(* Every step of a scan keeps the invariant. *)
LEMMA ScanStepKeeps ==
  ASSUME ProfileInv, NEW j \in DOMAIN scans, ScanStep(j)
  PROVE  ProfileInv'
  BY ScanAdvances, JobMarked, SnapMarked, CatalogSaved, SpacesSaved DEF ScanStep

-----------------------------------------------------------------------------
(* Requests. *)

(* A row is added to a table. *)
LEMMA RowAdded ==
  ASSUME NEW S, NEW q \in Seq(S), NEW row \in S, NEW new, new = Append(q, row)
  PROVE  /\ new \in Seq(S) /\ Len(new) = Len(q) + 1 /\ DOMAIN new = DOMAIN q \cup {Len(q) + 1}
         /\ Len(q) + 1 \notin DOMAIN q
         /\ new[Len(q) + 1] = row /\ \A k \in DOMAIN q : new[k] = q[k]
  <1>1. /\ new \in Seq(S) /\ Len(new) = Len(q) + 1
        /\ \A k \in 1 .. Len(new) : new[k] = IF k = Len(q) + 1 THEN row ELSE q[k]
    BY AppendProperties
  <1>2. DOMAIN new = 1 .. Len(new) /\ DOMAIN q = 1 .. Len(q) /\ Len(q) \in Nat
    BY <1>1, LenProperties
  <1>3. 1 .. (Len(q) + 1) = 1 .. Len(q) \cup {Len(q) + 1} /\ Len(q) + 1 \notin 1 .. Len(q)
    BY <1>2
  <1>4. DOMAIN new = DOMAIN q \cup {Len(q) + 1} /\ Len(q) + 1 \notin DOMAIN q
    BY <1>1, <1>2, <1>3
  <1>5. new[Len(q) + 1] = row /\ \A k \in DOMAIN q : new[k] = q[k]
    BY <1>1, <1>2, <1>3
  <1> QED
    BY <1>1, <1>4, <1>5

(* Where jobs, scans and snapshots stay as they are and no request is to   *)
(* tell a new job. *)
LEMMA ScansStay ==
  ASSUME ProfileInv, UNCHANGED <<jobs, scans, snaps>>,
         \A a \in Admins : handler'[a].op = "tell" => handler'[a] = handler[a]
  PROVE  ScansInv' /\ OwnPools'
  BY DEF ProfileInv, AdoptInv, ScansInv, DoneIsSaved, OwnPools

(* A request ends or none does, and no space comes. *)
LEMMA RequestEnds ==
  ASSUME ProfileInv, NEW a \in Admins,
         handler' = handler \/ handler' = [handler EXCEPT ![a] = Idle],
         asked' = asked \/ asked' = asked + 1,
         DOMAIN spaces' \subseteq DOMAIN spaces, DOMAIN snaps' = DOMAIN snaps
  PROVE  /\ Numbered' /\ asked' \in Nat /\ handler' = [b \in Admins |-> handler'[b]]
         /\ \A b \in Admins : handler'[b].op = "tell" => handler'[b] = handler[b]
  <1>1. asked \in Nat /\ asked' \in Nat /\ asked <= asked' /\ handler = [b \in Admins |-> handler[b]]
    BY DEF ProfileInv, ProfileType
  <1>2. \A b \in Admins : handler'[b] = handler[b] \/ handler'[b] = Idle
    BY <1>1
  <1>3. handler' = [b \in Admins |-> handler'[b]]
    BY <1>1
  <1>4. \A b \in Admins : handler'[b].op \in {"create", "tell"} => handler'[b] = handler[b]
    BY <1>2 DEF Idle
  <1>5. Numbered'
    BY <1>1, <1>4 DEF ProfileInv, AdoptInv, Numbered
  <1> QED
    BY <1>1, <1>3, <1>4, <1>5

(* A space is written: its fields have ids of their own, or ids it had. *)
LEMMA SpaceWritten ==
  ASSUME ProfileInv, NEW x, UNCHANGED <<scans, snaps>>,
         DOMAIN spaces' = DOMAIN spaces \cup {x},
         \A y \in DOMAIN spaces \ {x} : spaces'[y] = spaces[y],
         \A f \in spaces'[x].fields :
             f.of = <<"space", x>> \/ (x \in DOMAIN spaces /\ \E g \in spaces[x].fields : Same(f, g))
  PROVE  OwnFields' /\ Unsaved' /\ OnePlace'
  <1> USE DEF ProfileInv, AdoptInv, Same
  <1>1. OwnFields'
    BY DEF OwnFields
  <1>2. Unsaved'
    <2>1. \A s : <<"space", x>> # <<"snapshot", s>>
      OBVIOUS
    <2> QED
      BY <2>1 DEF Unsaved
  <1>3. \A y \in DOMAIN spaces', s \in DOMAIN snaps : Apart(snaps[s].pool, spaces'[y].fields)
    <2> SUFFICES ASSUME NEW y \in DOMAIN spaces', NEW s \in DOMAIN snaps,
                        NEW f \in snaps[s].pool, NEW g \in spaces'[y].fields, Same(f, g)
                 PROVE  FALSE
      BY DEF Apart
    <2>1. f.of = <<"snapshot", s>> /\ f.of # <<"space", x>>
      BY DEF OwnPools
    <2>2. CASE y # x
      BY <2>2 DEF OnePlace, Apart
    <2>3. CASE y = x
      <3>1. g \in spaces'[x].fields /\ g.of # <<"space", x>>
        BY <2>1, <2>3
      <3>2. x \in DOMAIN spaces
        BY <3>1
      <3>3. PICK h \in spaces[x].fields : Same(g, h)
        BY <3>1
      <3>4. Same(f, h)
        BY <3>3
      <3> QED
        BY <3>2, <3>4 DEF OnePlace, Apart
    <2> QED
      BY <2>2, <2>3
  <1>4. \A y \in DOMAIN spaces \ {x} : Apart(spaces'[x].fields, spaces[y].fields)
    <2> SUFFICES ASSUME NEW y \in DOMAIN spaces \ {x},
                        NEW f \in spaces'[x].fields, NEW g \in spaces[y].fields, Same(f, g)
                 PROVE  FALSE
      BY DEF Apart
    <2>1. g.of # <<"space", x>>
      <3>1. <<"space", y>> # <<"space", x>> /\ \A s : <<"snapshot", s>> # <<"space", x>>
        OBVIOUS
      <3> QED
        BY <3>1 DEF OwnFields
    <2>2. f.of # <<"space", x>>
      BY <2>1
    <2> QED
      BY <2>2 DEF OnePlace, Apart
  <1>5. OnePlace'
    BY <1>3, <1>4 DEF OnePlace, Apart
  <1> QED
    BY <1>1, <1>2, <1>5

(* A scan begins with a job and a snapshot of its own. *)
LEMMA ScanStarts ==
  ASSUME ProfileInv, NEW a \in Admins, StartScan(a)
  PROVE  ProfileInv'
  <1> DEFINE k == Len(jobs) + 1
             n == Newest + 1
  <1>1. /\ jobs \in Seq(Phases) /\ snaps \in Seq(Snaps) /\ scans \in Seq(Scans)
        /\ Len(jobs) = Len(scans) /\ asked \in Nat /\ Newest \in Nat
        /\ DOMAIN jobs = DOMAIN scans /\ handler = [b \in Admins |-> handler[b]]
    BY Rows DEF ProfileInv, ProfileType
  <1>2. "pending" \in Phases /\ NewSnapshot \in Snaps /\ Submitted \in Scans
    BY <1>1 DEF Phases, NewSnapshot, Snaps, Submitted, Scans, Places
  <1>3. /\ jobs' = Append(jobs, "pending") /\ snaps' = Append(snaps, NewSnapshot)
        /\ scans' = Append(scans, Submitted) /\ spaces' = spaces /\ asked' = asked + 1
        /\ handler' = [handler EXCEPT ![a] = [op |-> "tell", job |-> k]]
    BY DEF StartScan, Ask
  <1>4. /\ jobs' \in Seq(Phases) /\ Len(jobs') = k /\ DOMAIN jobs' = DOMAIN jobs \cup {k}
        /\ k \notin DOMAIN jobs /\ jobs'[k] = "pending" /\ \A j \in DOMAIN jobs : jobs'[j] = jobs[j]
    BY <1>1, <1>2, <1>3, RowAdded
  <1>5. /\ scans' \in Seq(Scans) /\ Len(scans') = k /\ DOMAIN scans' = DOMAIN scans \cup {k}
        /\ scans'[k] = Submitted /\ \A j \in DOMAIN scans : scans'[j] = scans[j]
    BY <1>1, <1>2, <1>3, RowAdded
  <1>6. /\ snaps' \in Seq(Snaps) /\ DOMAIN snaps' = DOMAIN snaps \cup {n} /\ n \notin DOMAIN snaps
        /\ snaps'[n] = NewSnapshot /\ \A s \in DOMAIN snaps : snaps'[s] = snaps[s]
    BY <1>1, <1>2, <1>3, RowAdded DEF Newest
  <1>7. /\ handler'[a].op = "tell" /\ handler'[a].job = k
        /\ \A b \in Admins \ {a} : handler'[b] = handler[b]
        /\ handler' = [b \in Admins |-> handler'[b]]
    BY <1>1, <1>3
  <1>8. /\ Submitted.snap = n /\ Submitted.at = "queued"
        /\ NewSnapshot.pool = {} /\ NewSnapshot.phase = "pending"
    BY DEF Submitted, NewSnapshot
  <1> HIDE DEF k, n
  <1>9. ProfileType'
    BY <1>1, <1>3, <1>4, <1>5, <1>6, <1>7 DEF ProfileInv, ProfileType
  <1>10. ScansInv'
    <2>1. \A j \in DOMAIN scans :
            /\ scans'[j] = scans[j] /\ scans[j].snap \in DOMAIN snaps /\ scans[j].snap # n
            /\ snaps'[scans[j].snap] = snaps[scans[j].snap]
      BY <1>5, <1>6 DEF ProfileInv, ScansInv
    <2>2. scans'[k].snap = n /\ scans'[k].at = "queued" /\ snaps'[n].phase = "pending"
      BY <1>5, <1>6, <1>8
    <2>3. \A i, j \in DOMAIN scans : scans[i].snap = scans[j].snap => i = j
      BY DEF ProfileInv, ScansInv
    <2>4. \A j \in DOMAIN scans :
            /\ snaps[scans[j].snap].phase = "done" => scans[j].at \in Finished
            /\ snaps[scans[j].snap].phase = "failed" => scans[j].at \in {"ended", "cut"}
            /\ scans[j].at = "finish" => snaps[scans[j].snap].phase = "done"
            /\ jobs[j] = "done" => snaps[scans[j].snap].phase = "done" /\ scans[j].at = "ended"
      BY Unwritten
    <2>5. \A j \in DOMAIN scans' : scans'[j].snap \in DOMAIN snaps'
      BY <1>5, <1>6, <2>1, <2>2
    <2>6. \A i, j \in DOMAIN scans' : scans'[i].snap = scans'[j].snap => i = j
      <3>1. \A i \in DOMAIN scans, j \in DOMAIN scans' : scans'[i].snap = scans'[j].snap => i = j
        BY <1>5, <2>1, <2>2, <2>3
      <3> QED
        BY <1>5, <2>1, <2>2, <3>1
    <2>7. \A j \in DOMAIN scans' :
            /\ snaps'[scans'[j].snap].phase = "done" => scans'[j].at \in Finished
            /\ snaps'[scans'[j].snap].phase = "failed" => scans'[j].at \in {"ended", "cut"}
            /\ scans'[j].at = "finish" => snaps'[scans'[j].snap].phase = "done"
      BY <1>5, <2>1, <2>2, <2>4
    <2>8. \A j \in DOMAIN jobs' : jobs'[j] = "done" =>
              snaps'[scans'[j].snap].phase = "done" /\ scans'[j].at = "ended"
      BY <1>1, <1>4, <2>1, <2>4
    <2>9. \A b \in Admins : handler'[b].op = "tell" => handler'[b].job \in DOMAIN jobs'
      BY <1>4, <1>7 DEF ProfileInv, ScansInv
    <2>10. DoneIsSaved'
      BY <2>7, <2>8 DEF DoneIsSaved, Finished
    <2> QED
      BY <2>5, <2>6, <2>7, <2>8, <2>9, <2>10 DEF ScansInv
  <1>11. OwnPools' /\ OwnFields' /\ OnePlace'
    BY <1>3, <1>6, <1>8 DEF ProfileInv, AdoptInv, OwnPools, OwnFields, OnePlace, Apart
  <1>12. Unsaved'
    <2>1. \A x \in DOMAIN spaces : \A f \in spaces[x].fields : f.of # <<"snapshot", n>>
      <3>1. \A x : <<"space", x>> # <<"snapshot", n>>
        OBVIOUS
      <3>2. \A s \in DOMAIN snaps : <<"snapshot", s>> # <<"snapshot", n>>
        BY <1>6
      <3> QED
        BY <3>1, <3>2 DEF ProfileInv, AdoptInv, OwnFields
    <2> QED
      BY <1>3, <1>5, <1>6, <1>8, <2>1 DEF ProfileInv, ScansInv, AdoptInv, Unsaved
  <1>13. Numbered'
    BY <1>1, <1>3, <1>6, <1>7 DEF ProfileInv, AdoptInv, Numbered
  <1> QED
    BY <1>9, <1>10, <1>11, <1>12, <1>13 DEF ProfileInv, AdoptInv

(* The administrator's request says pending, whatever the job says by then. *)
LEMMA PendingTold ==
  ASSUME ProfileInv, NEW a \in Admins, TellPending(a)
  PROVE  ProfileInv'
  <1> DEFINE j == handler[a].job
  <1>1. /\ jobs' = [jobs EXCEPT ![j] = "pending"] /\ handler' = [handler EXCEPT ![a] = Idle]
        /\ UNCHANGED <<snaps, scans, spaces, asked>> /\ handler[a].op = "tell"
    BY DEF TellPending
  <1>2. j \in DOMAIN jobs /\ jobs \in Seq(Phases) /\ "pending" \in Phases
    BY <1>1 DEF ProfileInv, ScansInv, ProfileType, Phases
  <1> HIDE DEF j
  <1>3. /\ jobs' \in Seq(Phases) /\ Len(jobs') = Len(jobs) /\ DOMAIN jobs' = DOMAIN jobs
        /\ jobs'[j] = "pending" /\ \A i \in DOMAIN jobs \ {j} : jobs'[i] = jobs[i]
    BY <1>1, <1>2, RowWritten
  <1>4. /\ Numbered' /\ handler' = [b \in Admins |-> handler'[b]] /\ asked' \in Nat
        /\ \A b \in Admins : handler'[b].op = "tell" => handler'[b] = handler[b]
    BY <1>1, RequestEnds
  <1>5. ProfileType'
    BY <1>1, <1>3, <1>4 DEF ProfileInv, ProfileType
  <1>6. \A i \in DOMAIN jobs : jobs'[i] = "done" => jobs[i] = "done"
    BY <1>2, <1>3
  <1>7. ScansInv'
    BY <1>1, <1>3, <1>4, <1>6 DEF ProfileInv, ScansInv, DoneIsSaved
  <1>8. OwnPools' /\ OwnFields' /\ Unsaved' /\ OnePlace'
    BY <1>1 DEF ProfileInv, AdoptInv, OwnPools, OwnFields, Unsaved, OnePlace
  <1> QED
    BY <1>4, <1>5, <1>7, <1>8 DEF ProfileInv, AdoptInv

(* A request to create a space takes the next number. *)
LEMMA SpaceAsked ==
  ASSUME ProfileInv, NEW a \in Admins, NEW t \in Tables \cup {{}}, LookForSnapshot(a, t)
  PROVE  ProfileInv'
  <1>1. /\ snaps' = (IF snaps = <<>> THEN <<NewSnapshot>> ELSE snaps)
        /\ handler' = [handler EXCEPT ![a] = [op |-> "create", space |-> asked', snap |-> Len(snaps'), table |-> t]]
        /\ UNCHANGED <<jobs, scans, spaces>> /\ asked' = asked + 1
    BY DEF LookForSnapshot, Ask
  <1>2. /\ asked \in Nat /\ handler = [b \in Admins |-> handler[b]]
        /\ snaps \in Seq(Snaps) /\ Newest \in Nat /\ DOMAIN snaps = 1 .. Newest
        /\ DOMAIN jobs = DOMAIN scans
    BY Rows DEF ProfileInv, ProfileType
  <1>3. /\ snaps' \in Seq(Snaps) /\ Len(snaps') \in DOMAIN snaps'
        /\ DOMAIN snaps \subseteq DOMAIN snaps' /\ \A s \in DOMAIN snaps : snaps'[s] = snaps[s]
        /\ \A s \in DOMAIN snaps' \ DOMAIN snaps : snaps'[s].pool = {}
    <2>1. CASE snaps = <<>>
      <3>1. NewSnapshot \in Snaps /\ NewSnapshot.pool = {}
        BY DEF NewSnapshot, Snaps, Phases
      <3>2. /\ <<NewSnapshot>> \in Seq(Snaps) /\ Len(<<NewSnapshot>>) = 1
            /\ DOMAIN <<NewSnapshot>> = {1} /\ <<NewSnapshot>>[1] = NewSnapshot
        BY <3>1
      <3>3. DOMAIN snaps = {}
        BY <2>1
      <3> QED
        BY <1>1, <2>1, <3>1, <3>2, <3>3
    <2>2. CASE snaps # <<>>
      <3>1. Newest # 0
        BY <1>2, <2>2, EmptySeq DEF Newest
      <3> QED
        BY <1>1, <1>2, <2>2, <3>1 DEF Newest
    <2> QED
      BY <2>1, <2>2
  <1>4. t \subseteq Columns
    BY ProfileAssumption
  <1>5. /\ handler'[a] = [op |-> "create", space |-> asked', snap |-> Len(snaps'), table |-> t]
        /\ \A b \in Admins \ {a} : handler'[b] = handler[b]
        /\ handler' = [b \in Admins |-> handler'[b]]
    BY <1>1, <1>2
  <1>6. ProfileType'
    BY <1>1, <1>2, <1>3, <1>5 DEF ProfileInv, ProfileType
  <1>7. ScansInv'
    <2>1. \A j \in DOMAIN scans : snaps'[scans[j].snap] = snaps[scans[j].snap]
      BY <1>3 DEF ProfileInv, ScansInv
    <2>2. DoneIsSaved'
      BY <1>1, <1>2, <2>1 DEF ProfileInv, ScansInv, DoneIsSaved
    <2>3. \A b \in Admins : handler'[b].op = "tell" => handler'[b].job \in DOMAIN jobs
      BY <1>5 DEF ProfileInv, ScansInv
    <2> QED
      BY <1>1, <1>3, <2>1, <2>2, <2>3 DEF ProfileInv, ScansInv
  <1>8. OwnPools' /\ OwnFields' /\ Unsaved' /\ OnePlace'
    BY <1>1, <1>3 DEF ProfileInv, ScansInv, AdoptInv, OwnPools, OwnFields, Unsaved, OnePlace, Apart
  <1>9. Numbered'
    <2>1. \A b \in Admins \ {a} : handler[b].op = "create" => handler[b].space \in 1 .. asked
      BY DEF ProfileInv, AdoptInv, Numbered
    <2>2. asked' = asked + 1 /\ asked' \notin DOMAIN spaces /\ DOMAIN spaces \subseteq 0 .. asked'
      BY <1>1, <1>2 DEF ProfileInv, AdoptInv, Numbered
    <2> QED
      BY <1>1, <1>2, <1>3, <1>4, <1>5, <2>1, <2>2 DEF ProfileInv, AdoptInv, Numbered
  <1> QED
    BY <1>6, <1>7, <1>8, <1>9 DEF ProfileInv, AdoptInv

(* The space comes with fields of its own. *)
LEMMA SpaceCreated ==
  ASSUME ProfileInv, NEW a \in Admins, CreateSpace(a)
  PROVE  ProfileInv'
  <1> DEFINE h == handler[a]
             x == h.space
             columns == (ColumnsOf(Suggested) \cap h.table) \cup (snaps[h.snap].catalog \cap h.table)
             new == Draft(h.snap, {Field("space", x, c) : c \in columns})
  <1>1. /\ handler[a].op = "create" /\ spaces' = With(spaces, x, new)
        /\ handler' = [handler EXCEPT ![a] = Idle] /\ UNCHANGED <<jobs, snaps, scans, asked>>
    BY DEF CreateSpace
  <1>2. /\ x \in 1 .. asked /\ x \notin DOMAIN spaces /\ h.snap \in DOMAIN snaps /\ h.table \subseteq Columns
        /\ asked \in Nat
    BY <1>1 DEF ProfileInv, AdoptInv, Numbered, ProfileType
  <1>3. x \in Nat /\ h.snap \in Nat /\ columns \subseteq Columns
    BY <1>2, Rows DEF ProfileInv
  <1> HIDE DEF h, columns
  <1>4. /\ new \in Spaces /\ \A f \in new.fields : f.of = <<"space", x>>
    <2> DEFINE fs == {Field("space", x, c) : c \in columns}
    <2>1. fs \in SUBSET Fields /\ \A f \in fs : f.of = <<"space", x>>
      BY <1>3 DEF Field, Fields, Makers
    <2> HIDE DEF fs
    <2>2. Draft(h.snap, fs) \in Spaces /\ Draft(h.snap, fs).fields = fs
      BY <1>3, <2>1 DEF Draft, Spaces
    <2> QED
      BY <2>1, <2>2 DEF fs
  <1> HIDE DEF new, x
  <1>5. /\ DOMAIN spaces' = DOMAIN spaces \cup {x} /\ spaces'[x] = new
        /\ \A y \in DOMAIN spaces : spaces'[y] = spaces[y]
        /\ spaces' = [y \in DOMAIN spaces' |-> spaces'[y]]
    BY <1>1, <1>2 DEF With
  <1>6. OwnFields' /\ Unsaved' /\ OnePlace'
    BY <1>1, <1>4, <1>5, SpaceWritten
  <1>7. /\ handler' = [b \in Admins |-> handler'[b]]
        /\ \A b \in Admins : handler'[b] = IF b = a THEN Idle ELSE handler[b]
    BY <1>1 DEF ProfileInv, ProfileType
  <1>8. \A b \in Admins : handler'[b].op \in {"tell", "create"} => b # a /\ handler'[b] = handler[b]
    BY <1>7 DEF Idle
  <1>9. ScansInv' /\ OwnPools'
    BY <1>1, <1>8, ScansStay
  <1>10. spaces' \in [DOMAIN spaces' -> Spaces]
    BY <1>4, <1>5 DEF ProfileInv, ProfileType
  <1>11. ProfileType'
    BY <1>1, <1>7, <1>10 DEF ProfileInv, ProfileType
  <1>12. Numbered'
    <2>1. x = handler[a].space
      BY DEF x, h
    <2> QED
      BY <1>1, <1>2, <1>5, <1>8, <2>1 DEF ProfileInv, AdoptInv, Numbered
  <1> QED
    BY <1>6, <1>9, <1>11, <1>12 DEF ProfileInv, AdoptInv

(* A space goes, or nothing but a request changes. *)
LEMMA SpacesLeft ==
  ASSUME ProfileInv, NEW X \in SUBSET DOMAIN spaces, spaces' = [x \in X |-> spaces[x]],
         UNCHANGED <<jobs, snaps, scans>>, Numbered', asked' \in Nat,
         handler' = [b \in Admins |-> handler'[b]],
         \A b \in Admins : handler'[b].op = "tell" => handler'[b] = handler[b]
  PROVE  ProfileInv'
  <1>1. DOMAIN spaces' = X /\ \A x \in X : spaces'[x] = spaces[x]
    OBVIOUS
  <1>2. ProfileType'
    BY <1>1 DEF ProfileInv, ProfileType
  <1>3. ScansInv' /\ OwnPools'
    BY ScansStay
  <1>4. OwnFields'
    BY <1>1 DEF ProfileInv, AdoptInv, OwnFields
  <1>5. Unsaved'
    BY <1>1 DEF ProfileInv, AdoptInv, Unsaved
  <1>6. OnePlace'
    BY <1>1 DEF ProfileInv, AdoptInv, OnePlace
  <1> QED
    BY <1>2, <1>3, <1>4, <1>5, <1>6 DEF ProfileInv, AdoptInv

(* A space is deleted. *)
LEMMA SpaceDeleted ==
  ASSUME ProfileInv, NEW a \in Admins, NEW x \in DOMAIN spaces, DeleteSpace(a, x)
  PROVE  ProfileInv'
  <1>1. /\ spaces' = [y \in DOMAIN spaces \ {x} |-> spaces[y]] /\ asked' = asked + 1
        /\ UNCHANGED <<jobs, snaps, scans, handler>>
    BY DEF DeleteSpace, Ask, Without
  <1>2. /\ Numbered' /\ asked' \in Nat /\ handler' = [b \in Admins |-> handler'[b]]
        /\ \A b \in Admins : handler'[b].op = "tell" => handler'[b] = handler[b]
    BY <1>1, RequestEnds
  <1>3. DOMAIN spaces \ {x} \in SUBSET DOMAIN spaces
    OBVIOUS
  <1> QED
    BY <1>1, <1>2, <1>3, SpacesLeft

(* A publication that finds no space. *)
LEMMA RefusalKeeps ==
  ASSUME ProfileInv, NEW a \in Admins, PublishRefused(a)
  PROVE  ProfileInv'
  <1>1. handler' = [handler EXCEPT ![a] = Idle] /\ UNCHANGED <<jobs, snaps, scans, spaces, asked>>
    BY DEF PublishRefused
  <1>2. /\ Numbered' /\ asked' \in Nat /\ handler' = [b \in Admins |-> handler'[b]]
        /\ \A b \in Admins : handler'[b].op = "tell" => handler'[b] = handler[b]
    BY <1>1, RequestEnds
  <1>3. spaces' = [x \in DOMAIN spaces |-> spaces[x]] /\ DOMAIN spaces \in SUBSET DOMAIN spaces
    BY <1>1 DEF ProfileInv, ProfileType
  <1> QED
    BY <1>1, <1>2, <1>3, SpacesLeft

(* A refresh that is read. *)
LEMMA RefreshRead ==
  ASSUME ProfileInv, NEW a \in Admins, NEW x \in DOMAIN spaces, Refresh(a, x)
  PROVE  ProfileInv'
  <1>1. PICK ids : handler' = [handler EXCEPT ![a] = [op |-> "publish", space |-> x, ids |-> ids]]
    BY DEF Refresh
  <1>2. asked' = asked + 1 /\ UNCHANGED <<jobs, snaps, scans, spaces>>
    BY DEF Refresh, Ask
  <1>3. /\ handler' = [b \in Admins |-> handler'[b]] /\ handler'[a].op = "publish"
        /\ \A b \in Admins \ {a} : handler'[b] = handler[b]
    BY <1>1 DEF ProfileInv, ProfileType
  <1>4. asked \in Nat /\ asked' \in Nat
    BY <1>2 DEF ProfileInv, ProfileType
  <1>5. Numbered'
    BY <1>2, <1>3, <1>4 DEF ProfileInv, AdoptInv, Numbered
  <1>6. spaces' = [y \in DOMAIN spaces |-> spaces[y]] /\ DOMAIN spaces \in SUBSET DOMAIN spaces
    BY <1>2 DEF ProfileInv, ProfileType
  <1> QED
    BY <1>2, <1>3, <1>4, <1>5, <1>6, SpacesLeft

(* The fields of a space are written in place. *)
LEMMA FieldsWritten ==
  ASSUME ProfileInv, NEW a \in Admins, NEW x \in DOMAIN spaces, NEW fs \in SUBSET Fields,
         spaces' = [spaces EXCEPT ![x].fields = fs], asked' = asked + 1,
         UNCHANGED <<jobs, snaps, scans, handler>>,
         \A f \in fs : f.of = <<"space", x>> \/ \E g \in spaces[x].fields : Same(f, g)
  PROVE  ProfileInv'
  <1> DEFINE new == [spaces[x] EXCEPT !.fields = fs]
  <1>1. spaces \in [DOMAIN spaces -> Spaces] /\ spaces' = [spaces EXCEPT ![x] = new]
    BY DEF ProfileInv, ProfileType
  <1>2. new \in Spaces /\ new.fields = fs
    BY <1>1 DEF Spaces
  <1> HIDE DEF new
  <1>3. /\ DOMAIN spaces' = DOMAIN spaces \cup {x} /\ DOMAIN spaces' = DOMAIN spaces
        /\ spaces'[x] = new /\ \A y \in DOMAIN spaces \ {x} : spaces'[y] = spaces[y]
        /\ spaces' \in [DOMAIN spaces' -> Spaces]
    BY <1>1, <1>2
  <1>4. OwnFields' /\ Unsaved' /\ OnePlace'
    BY <1>2, <1>3, SpaceWritten
  <1>5. /\ Numbered' /\ asked' \in Nat /\ handler' = [b \in Admins |-> handler'[b]]
        /\ \A b \in Admins : handler'[b].op = "tell" => handler'[b] = handler[b]
    BY <1>3, RequestEnds
  <1>6. ScansInv' /\ OwnPools'
    BY <1>5, ScansStay
  <1>7. ProfileType'
    BY <1>3, <1>5 DEF ProfileInv, ProfileType
  <1> QED
    BY <1>4, <1>5, <1>6, <1>7 DEF ProfileInv, AdoptInv

(* A table of the catalog comes as fields that only this space makes. *)
LEMMA TableAdded ==
  ASSUME ProfileInv, NEW a \in Admins, NEW x \in DOMAIN spaces, NEW t \in Tables, AddTable(a, x, t)
  PROVE  ProfileInv'
  <1> DEFINE added == {Field("space", x, c) : c \in t \cap snaps[spaces[x].snap].catalog}
             fs == spaces[x].fields \cup added
  <1>1. spaces' = [spaces EXCEPT ![x].fields = fs] /\ asked' = asked + 1
        /\ UNCHANGED <<jobs, snaps, scans, handler>>
    BY DEF AddTable, Ask
  <1>2. x \in Nat /\ spaces[x] \in Spaces /\ t \subseteq Columns
    <2>1. DOMAIN spaces \subseteq 0 .. asked /\ asked \in Nat /\ spaces \in [DOMAIN spaces -> Spaces]
      BY DEF ProfileInv, ProfileType, AdoptInv, Numbered
    <2> QED
      BY <2>1, ProfileAssumption
  <1>3. added \in SUBSET Fields /\ \A f \in added : f.of = <<"space", x>>
    BY <1>2 DEF Field, Fields, Makers
  <1>4. spaces[x].fields \in SUBSET Fields
    BY <1>2 DEF Spaces
  <1> HIDE DEF added
  <1>5. fs \in SUBSET Fields
    BY <1>3, <1>4
  <1>6. \A f \in fs : f.of = <<"space", x>> \/ \E g \in spaces[x].fields : Same(f, g)
    BY <1>3 DEF Same
  <1> HIDE DEF fs
  <1> QED
    BY <1>1, <1>5, <1>6, FieldsWritten

(* A field that is confirmed or excluded keeps its id. *)
LEMMA FieldAdjusted ==
  ASSUME ProfileInv, NEW a \in Admins, NEW x \in DOMAIN spaces, NEW c \in Columns, Adjust(a, x, c)
  PROVE  ProfileInv'
  <1>1. PICK f \in spaces[x].fields, status \in {"confirmed", "excluded"} :
          spaces' = [spaces EXCEPT ![x].fields = (@ \ {f}) \cup {[f EXCEPT !.status = status]}]
    BY DEF Adjust
  <1> DEFINE g == [f EXCEPT !.status = status]
             fs == (spaces[x].fields \ {f}) \cup {g}
  <1>2. spaces[x].fields \in SUBSET Fields
    BY DEF ProfileInv, ProfileType, Spaces
  <1>3. g \in Fields /\ Same(g, f)
    BY <1>2 DEF Fields, Same
  <1>4. spaces' = [spaces EXCEPT ![x].fields = fs] /\ asked' = asked + 1
        /\ UNCHANGED <<jobs, snaps, scans, handler>>
    BY <1>1 DEF Adjust, Ask
  <1> HIDE DEF g
  <1>5. fs \in SUBSET Fields /\ \A k \in fs : \E l \in spaces[x].fields : Same(k, l)
    BY <1>2, <1>3 DEF Same
  <1> HIDE DEF fs
  <1> QED
    BY <1>4, <1>5, FieldsWritten

(* Suggestions of the newest snapshot move into the space: what no other   *)
(* space has, and no scan is yet to suggest. *)
LEMMA SpacePublished ==
  ASSUME ProfileInv, NEW a \in Admins, PublishSpace(a)
  PROVE  ProfileInv'
  <1> DEFINE x == handler[a].space
             moved == {f \in Suggested : <<f.of, f.column>> \in handler[a].ids}
             fs == spaces[x].fields \cup moved
  <1>1. /\ x \in DOMAIN spaces /\ handler' = [handler EXCEPT ![a] = Idle]
        /\ UNCHANGED <<jobs, scans, asked>>
        /\ spaces' = [spaces EXCEPT ![x] = [spaces[x] EXCEPT !.fields = fs, !.state = "published",
                                                        !.version = NextVersion(spaces[x])]]
        /\ snaps' = IF snaps = <<>> THEN snaps
                    ELSE [snaps EXCEPT ![Newest] = [snaps[Newest] EXCEPT !.pool = PoolWithout(moved)]]
    BY DEF PublishSpace
  <1>2. /\ snaps \in Seq(Snaps) /\ Newest \in Nat /\ DOMAIN snaps = 1 .. Newest
        /\ \A s \in DOMAIN snaps : snaps[s] \in Snaps
        /\ spaces \in [DOMAIN spaces -> Spaces]
    BY Rows DEF ProfileInv, ProfileType
  <1>3. \A f, g \in Suggested : f \in moved /\ Same(f, g) => g \in moved
    BY DEF Same
  <1>4. moved \subseteq Suggested
    OBVIOUS
  <1> HIDE DEF moved
  <1>5. /\ snaps' \in Seq(Snaps) /\ DOMAIN snaps' = DOMAIN snaps
        /\ \A s \in DOMAIN snaps : /\ snaps'[s].phase = snaps[s].phase
                                  /\ \A f \in snaps'[s].pool : f \in snaps[s].pool
        /\ \A f \in moved : f \notin snaps'[Newest].pool
        /\ moved \subseteq Fields
        /\ \A f \in moved : Newest \in DOMAIN snaps /\ f \in snaps[Newest].pool
    <2>1. CASE snaps = <<>>
      BY <1>1, <1>2, <1>4, <2>1 DEF Suggested
    <2>2. CASE snaps # <<>>
      <3> DEFINE new == [snaps[Newest] EXCEPT !.pool = PoolWithout(moved)]
      <3>1. Newest \in DOMAIN snaps
        BY <1>2, <2>2, EmptySeq DEF Newest
      <3>2. Suggested = snaps[Newest].pool /\ Suggested \subseteq Fields
        BY <1>2, <2>2, <3>1 DEF Suggested, Snaps
      <3>3. PoolWithout(moved) = Suggested \ moved
        BY DEF PoolWithout
      <3>4. /\ new \in Snaps /\ new.phase = snaps[Newest].phase
            /\ new.pool = Suggested \ moved
        BY <1>2, <3>1, <3>2, <3>3 DEF Snaps
      <3>5. snaps' = [snaps EXCEPT ![Newest] = new]
        BY <1>1, <2>2
      <3> HIDE DEF new
      <3>6. /\ snaps' \in Seq(Snaps) /\ DOMAIN snaps' = DOMAIN snaps
            /\ snaps'[Newest] = new /\ \A s \in DOMAIN snaps \ {Newest} : snaps'[s] = snaps[s]
        BY <1>2, <3>1, <3>4, <3>5, RowWritten
      <3> QED
        BY <1>4, <3>1, <3>2, <3>4, <3>6
    <2> QED
      BY <2>1, <2>2
  <1>6. /\ DOMAIN spaces' = DOMAIN spaces /\ x \in DOMAIN spaces
        /\ \A f \in spaces'[x].fields : f \in spaces[x].fields \/ f \in moved
        /\ \A y \in DOMAIN spaces \ {x} : spaces'[y] = spaces[y]
        /\ spaces' \in [DOMAIN spaces' -> Spaces]
    <2> DEFINE new == [spaces[x] EXCEPT !.fields = fs, !.state = "published", !.version = NextVersion(spaces[x])]
    <2>1. spaces[x] \in Spaces /\ NextVersion(spaces[x]) \in Nat
      BY <1>1, <1>2 DEF Spaces, NextVersion
    <2>2. fs \in SUBSET Fields
      BY <1>5, <2>1 DEF Spaces
    <2>5. \A f \in fs : f \in spaces[x].fields \/ f \in moved
      OBVIOUS
    <2> HIDE DEF fs
    <2>3. new \in Spaces /\ new.fields = fs
      BY <2>1, <2>2 DEF Spaces
    <2>4. spaces' = [spaces EXCEPT ![x] = new]
      BY <1>1
    <2> HIDE DEF new
    <2>6. spaces' \in [DOMAIN spaces -> Spaces] /\ spaces'[x] = new
      BY <1>1, <1>2, <2>3, <2>4
    <2>7. \A y \in DOMAIN spaces \ {x} : spaces'[y] = spaces[y]
      BY <2>4
    <2>8. x \in DOMAIN spaces
      BY <1>1
    <2> QED
      BY <2>3, <2>5, <2>6, <2>7, <2>8
  <1> HIDE DEF x, fs
  <1>7. \A f \in moved : f.of = <<"snapshot", Newest>>
    BY <1>5 DEF ProfileInv, AdoptInv, OwnPools
  <1>8. /\ Numbered' /\ asked' \in Nat /\ handler' = [b \in Admins |-> handler'[b]]
        /\ \A b \in Admins : handler'[b].op = "tell" => handler'[b] = handler[b]
    BY <1>1, <1>5, <1>6, RequestEnds
  <1>9. ProfileType'
    BY <1>1, <1>5, <1>6, <1>8 DEF ProfileInv, ProfileType
  <1>10. ScansInv'
    <2>1. \A j \in DOMAIN scans : snaps'[scans[j].snap].phase = snaps[scans[j].snap].phase
      BY <1>5 DEF ProfileInv, ScansInv
    <2>2. DOMAIN jobs = DOMAIN scans
      BY Rows DEF ProfileInv
    <2>3. DoneIsSaved'
      BY <1>1, <2>1, <2>2 DEF ProfileInv, ScansInv, DoneIsSaved
    <2> QED
      BY <1>1, <1>5, <1>8, <2>1, <2>3 DEF ProfileInv, ScansInv
  <1>11. OwnPools' /\ OwnFields'
    BY <1>5, <1>6, <1>7 DEF ProfileInv, AdoptInv, OwnPools, OwnFields
  <1>12. Unsaved'
    <2> SUFFICES ASSUME NEW j \in DOMAIN scans, scans[j].at \in Before
                 PROVE  /\ snaps'[scans[j].snap].pool = {}
                        /\ \A y \in DOMAIN spaces : \A f \in spaces'[y].fields : f.of # <<"snapshot", scans[j].snap>>
      BY <1>1, <1>6 DEF Unsaved
    <2> DEFINE n == scans[j].snap
    <2>1. /\ n \in DOMAIN snaps /\ snaps[n].pool = {}
          /\ \A y \in DOMAIN spaces : \A f \in spaces[y].fields : f.of # <<"snapshot", n>>
      BY DEF ProfileInv, ScansInv, AdoptInv, Unsaved
    <2>2. \A f \in moved : Newest # n
      BY <1>5, <2>1
    <2>3. \A f \in moved : f.of # <<"snapshot", n>>
      BY <1>7, <2>2
    <2> QED
      BY <1>5, <1>6, <2>1, <2>3
  <1>13. OnePlace'
    <2>1. \A s \in DOMAIN snaps, y \in DOMAIN spaces : Apart(snaps[s].pool, spaces[y].fields)
      BY DEF ProfileInv, AdoptInv, OnePlace
    <2>2. \A s \in DOMAIN snaps : Apart(snaps'[s].pool, moved)
      <3> SUFFICES ASSUME NEW s \in DOMAIN snaps, NEW f \in snaps'[s].pool, NEW g \in moved, Same(f, g)
                   PROVE  FALSE
        BY DEF Apart
      <3>1. f \in snaps[s].pool /\ f.of = <<"snapshot", s>>
        BY <1>5 DEF ProfileInv, AdoptInv, OwnPools
      <3>2. f.of = <<"snapshot", Newest>>
        BY <1>7 DEF Same
      <3>3. s = Newest
        BY <3>1, <3>2
      <3>4. f \in Suggested /\ g \in Suggested /\ Same(g, f)
        BY <1>1, <1>2, <1>4, <1>5, <3>1, <3>3, EmptySeq DEF Same, Suggested
      <3>5. f \in moved
        BY <1>3, <3>4
      <3> QED
        BY <1>5, <3>3, <3>5
    <2>3. \A s \in DOMAIN snaps', y \in DOMAIN spaces' : Apart(snaps'[s].pool, spaces'[y].fields)
      BY <1>5, <1>6, <2>1, <2>2 DEF Apart
    <2>4. \A y \in DOMAIN spaces \ {x} : Apart(moved, spaces[y].fields) /\ Apart(spaces[y].fields, moved)
      BY <1>5, <2>1 DEF Apart, Same
    <2>5. \A y \in DOMAIN spaces : \A z \in DOMAIN spaces \ {y} : Apart(spaces[z].fields, spaces[y].fields)
      BY DEF ProfileInv, AdoptInv, OnePlace
    <2>6. \A y \in DOMAIN spaces' : \A z \in DOMAIN spaces' \ {y} : Apart(spaces'[z].fields, spaces'[y].fields)
      BY <1>6, <2>4, <2>5 DEF Apart
    <2> QED
      BY <2>3, <2>6 DEF OnePlace
  <1> QED
    BY <1>8, <1>9, <1>10, <1>11, <1>12, <1>13 DEF ProfileInv, AdoptInv

(* A function on 1 .. n is a sequence. *)
LEMMA FunctionIsSeq ==
  ASSUME NEW S, NEW n \in Nat, NEW f \in [1 .. n -> S]
  PROVE  f \in Seq(S) /\ Len(f) = n
  <1>1. f \in Seq(S)
    BY SeqDef
  <1> QED
    BY <1>1, LenProperties

(* The process ends: scans are cut where they are, requests forgotten. *)
LEMMA CrashKeeps ==
  ASSUME ProfileInv, CrashScans
  PROVE  ProfileInv'
  <1>0. scans' = [j \in DOMAIN scans |->
            [scans[j] EXCEPT !.at = IF scans[j].at = "ended" THEN scans[j].at ELSE "cut"]]
    BY DEF CrashScans
  <1>1. handler' = [a \in Admins |-> Idle] /\ UNCHANGED <<jobs, snaps, spaces, asked>>
    BY DEF CrashScans
  <1>2. /\ Len(scans) \in Nat /\ DOMAIN scans = 1 .. Len(scans) /\ DOMAIN jobs = DOMAIN scans
        /\ \A j \in DOMAIN scans : scans[j] \in Scans
    BY Rows DEF ProfileInv
  <1>3. \A j \in DOMAIN scans :
          /\ scans'[j] \in Scans /\ scans'[j].snap = scans[j].snap
          /\ scans'[j].at = IF scans[j].at = "ended" THEN "ended" ELSE "cut"
    BY <1>0, <1>2 DEF Scans, Places
  <1>4. scans' \in Seq(Scans) /\ Len(scans') = Len(scans) /\ DOMAIN scans' = DOMAIN scans
    <2>1. DOMAIN scans' = 1 .. Len(scans) /\ scans' = [j \in 1 .. Len(scans) |-> scans'[j]]
      BY <1>0, <1>2
    <2>2. \A j \in 1 .. Len(scans) : scans'[j] \in Scans
      BY <1>2, <1>3
    <2> QED
      BY <1>2, <2>1, <2>2, FunctionIsSeq
  <1>5. /\ handler' = [a \in Admins |-> handler'[a]]
        /\ \A a \in Admins : handler'[a].op # "tell" /\ handler'[a].op # "create"
    BY <1>1 DEF Idle
  <1>6. ProfileType'
    BY <1>1, <1>4, <1>5 DEF ProfileInv, ProfileType
  <1>7. ScansInv'
    <2>1. \A j \in DOMAIN scans : scans'[j].at \in {"ended", "cut"}
      BY <1>3
    <2>2. \A j \in DOMAIN jobs : jobs[j] = "done" => scans'[j].at = "ended"
      BY <1>2, <1>3 DEF ProfileInv, ScansInv
    <2>3. DoneIsSaved'
      BY <1>1, <1>2, <1>3, <1>4, <2>1 DEF ProfileInv, ScansInv, DoneIsSaved
    <2> QED
      BY <1>1, <1>2, <1>3, <1>4, <1>5, <2>1, <2>2, <2>3 DEF ProfileInv, ScansInv
  <1>8. OwnPools' /\ OwnFields' /\ OnePlace' /\ Numbered'
    BY <1>1, <1>5 DEF ProfileInv, AdoptInv, OwnPools, OwnFields, OnePlace, Numbered
  <1>9. Unsaved'
    BY <1>3, <1>4 DEF Unsaved, Before
  <1> QED
    BY <1>6, <1>7, <1>8, <1>9 DEF ProfileInv, AdoptInv

(* Nothing is there at the start. *)
LEMMA ProfileInitially == ProfileInit => ProfileInv
  <1> SUFFICES ASSUME ProfileInit
               PROVE  ProfileInv
    OBVIOUS
  <1> USE DEF ProfileInit
  <1>1. /\ jobs \in Seq(Phases) /\ snaps \in Seq(Snaps) /\ scans \in Seq(Scans)
        /\ Len(jobs) = 0 /\ Len(scans) = 0
        /\ DOMAIN jobs = {} /\ DOMAIN snaps = {} /\ DOMAIN scans = {}
    BY EmptySeq
  <1>2. DOMAIN spaces = {} /\ spaces \in [{} -> Spaces]
    OBVIOUS
  <1>3. /\ handler = [a \in Admins |-> handler[a]]
        /\ \A a \in Admins : handler[a].op # "tell" /\ handler[a].op # "create"
    BY DEF Idle
  <1>4. ProfileType
    BY <1>1, <1>2, <1>3 DEF ProfileType
  <1>5. ScansInv
    BY <1>1, <1>3 DEF ScansInv, DoneIsSaved
  <1>6. AdoptInv
    BY <1>1, <1>2, <1>3 DEF AdoptInv, OwnPools, OwnFields, Unsaved, OnePlace, Numbered
  <1> QED
    BY <1>4, <1>5, <1>6 DEF ProfileInv

-----------------------------------------------------------------------------
(* The invariant is inductive. *)
LEMMA ProfileSteps == ProfileInv /\ [ProfileNext]_pvars => ProfileInv'
  <1> SUFFICES ASSUME ProfileInv, [ProfileNext]_pvars
               PROVE  ProfileInv'
    OBVIOUS
  <1>1. ASSUME NEW a \in Admins, StartScan(a) \/ TellPending(a)
        PROVE  ProfileInv'
    BY <1>1, ScanStarts, PendingTold
  <1>2. ASSUME NEW a \in Admins, Manage(a)
        PROVE  ProfileInv'
    BY <1>2, SpaceAsked, SpaceCreated, SpacePublished, RefusalKeeps, SpaceDeleted, RefreshRead,
       TableAdded, FieldAdjusted DEF Manage
  <1>3. ASSUME NEW j \in DOMAIN scans, ScanStep(j)
        PROVE  ProfileInv'
    BY <1>3, ScanStepKeeps
  <1>4. CASE CrashScans
    BY <1>4, CrashKeeps
  <1>5. CASE UNCHANGED pvars
    BY <1>5 DEF pvars, ProfileInv, ProfileType, ScansInv, DoneIsSaved, AdoptInv, OwnPools, OwnFields,
                Unsaved, OnePlace, Numbered, Newest
  <1> QED
    BY <1>1, <1>2, <1>3, <1>4, <1>5 DEF ProfileNext

(* Types, scans and adoption hold throughout, for any number of            *)
(* administrators, scans and spaces. *)
THEOREM ProfileInvariant == ProfileSpec => []ProfileInv
  BY ProfileInitially, ProfileSteps, PTL DEF ProfileSpec

(* A snapshot that says done has its suggestions, and a job says done only *)
(* when its snapshot does: _run_scan_background with any number of scans,  *)
(* failures, pending told late (start_scan) and ends of the process.       *)
THEOREM ScansDoneAreSaved == ProfileSpec => []DoneIsSaved
  <1>1. ProfileInv => DoneIsSaved
    BY DEF ProfileInv, ScansInv
  <1> QED
    BY <1>1, ProfileInvariant, PTL

(* A suggested field goes to one space: publish_space moves it, and no     *)
(* refresh that was read before (refresh_space), no space created, changed *)
(* or deleted in between and no scan puts it in a second place.            *)
THEOREM FieldsAdoptedOnce == ProfileSpec => []AdoptedOnce
  <1>1. ProfileInv => AdoptedOnce
    <2> SUFFICES ASSUME ProfileInv
                 PROVE  AdoptedOnce
      OBVIOUS
    <2> DEFINE Ids(fs) == {<<f.of, f.column>> : f \in fs}
    <2>1. \A fs, gs : Apart(fs, gs) => Ids(gs) \cap Ids(fs) = {}
      BY DEF Apart, Same
    <2>2. ASSUME NEW x \in DOMAIN spaces, snaps # <<>>
          PROVE  Ids(spaces[x].fields) \cap Ids(Suggested) = {}
      <3>1. Newest \in DOMAIN snaps /\ Suggested = snaps[Newest].pool
        BY <2>2, Rows, EmptySeq DEF ProfileInv, ProfileType, Newest, Suggested
      <3>2. Apart(Suggested, spaces[x].fields)
        BY <3>1 DEF ProfileInv, AdoptInv, OnePlace
      <3> HIDE DEF Ids
      <3> QED
        BY <2>1, <3>2
    <2>3. ASSUME NEW x \in DOMAIN spaces, NEW y \in DOMAIN spaces \ {x}
          PROVE  Ids(spaces[x].fields) \cap Ids(spaces[y].fields) = {}
      <3>1. Apart(spaces[y].fields, spaces[x].fields)
        BY DEF ProfileInv, AdoptInv, OnePlace
      <3> HIDE DEF Ids
      <3> QED
        BY <2>1, <3>1
    <2> QED
      BY <2>2, <2>3 DEF AdoptedOnce
  <1> QED
    BY <1>1, ProfileInvariant, PTL

(* No scan takes away a space whose snapshot is done or failed: only a scan *)
(* that has not finished saves spaces (save_spaces), and those of its own  *)
(* snapshot go.                                                            *)
THEOREM SpacesStay == ProfileSpec => SpacesKept
  <1> DEFINE Kept == \A x \in DOMAIN spaces :
                         \/ x \in DOMAIN spaces' \/ ~Over(spaces[x].snap)
                         \/ \E a \in Admins : DeleteSpace(a, x)
  <1>1. ProfileInv /\ [ProfileNext]_pvars => [Kept]_pvars
    <2> SUFFICES ASSUME ProfileInv, ProfileNext
                 PROVE  Kept
      OBVIOUS
    <2>1. ASSUME NEW j \in DOMAIN scans, SaveSpaces(j)
          PROVE  Kept
      <3> DEFINE n == scans[j].snap
      <3>1. scans[j].at = "save" /\ DOMAIN spaces' = Others(n)
        BY <2>1 DEF SaveSpaces
      <3>2. snaps[n].phase # "done" /\ snaps[n].phase # "failed"
        BY <3>1, Unwritten DEF Finished
      <3> QED
        BY <3>1, <3>2 DEF Others, Over
    <2>2. ASSUME NEW j \in DOMAIN scans, ScanStep(j)
          PROVE  Kept
      BY <2>1, <2>2 DEF ScanStep, TakeScan, MarkJob, MarkSnap, SaveCatalog, Discover, Raise, GiveUp
    <2>3. ASSUME NEW a \in Admins, StartScan(a) \/ TellPending(a)
          PROVE  Kept
      BY <2>3 DEF StartScan, TellPending
    <2>4. ASSUME NEW a \in Admins, Manage(a)
          PROVE  Kept
      <3>1. ASSUME NEW t, LookForSnapshot(a, t)
            PROVE  Kept
        BY <3>1 DEF LookForSnapshot
      <3>2. CASE CreateSpace(a)
        BY <3>2 DEF CreateSpace, With
      <3>3. CASE PublishSpace(a)
        <4>1. DOMAIN spaces' = DOMAIN spaces
          BY <3>3 DEF PublishSpace
        <4> QED
          BY <4>1
      <3>4. CASE PublishRefused(a)
        BY <3>4 DEF PublishRefused
      <3>5. ASSUME NEW x \in DOMAIN spaces, DeleteSpace(a, x)
            PROVE  Kept
        <4>1. DOMAIN spaces' = DOMAIN spaces \ {x}
          BY <3>5 DEF DeleteSpace, Without
        <4> QED
          BY <3>5, <4>1
      <3>6. ASSUME NEW x \in DOMAIN spaces, Refresh(a, x)
            PROVE  Kept
        BY <3>6 DEF Refresh
      <3>7. ASSUME NEW x \in DOMAIN spaces, NEW t, AddTable(a, x, t)
            PROVE  Kept
        <4>1. DOMAIN spaces' = DOMAIN spaces
          BY <3>7 DEF AddTable
        <4> QED
          BY <4>1
      <3>8. ASSUME NEW x \in DOMAIN spaces, NEW c, Adjust(a, x, c)
            PROVE  Kept
        <4>1. DOMAIN spaces' = DOMAIN spaces
          BY <3>8 DEF Adjust
        <4> QED
          BY <4>1
      <3> HIDE DEF Kept
      <3> QED
        BY <2>4, <3>1, <3>2, <3>3, <3>4, <3>5, <3>6, <3>7, <3>8 DEF Manage
    <2>5. CASE CrashScans
      BY <2>5 DEF CrashScans
    <2> HIDE DEF Kept
    <2> QED
      BY <2>2, <2>3, <2>4, <2>5 DEF ProfileNext
  <1> QED
    BY <1>1, ProfileInvariant, PTL DEF ProfileSpec, SpacesKept

-----------------------------------------------------------------------------
(* Published versions.  A version names a space that was asked for; those  *)
(* of a space that is there are its history, and a draft has none.         *)
History(x) ==
  /\ spaces[x].state = "draft" => spaces[x].version = 1 /\ \A v \in versions : v.space # x
  /\ spaces[x].state = "published" =>
       /\ \A v \in versions : v.space = x => v.version \in 1 .. spaces[x].version
       /\ \A n \in 1 .. spaces[x].version : \E v \in versions : v.space = x /\ v.version = n
  /\ \A v, w \in versions : v.space = x /\ w.space = x /\ v.version = w.version => v = w

VersionsInv ==
  /\ \A v \in versions : v.space \in 0 .. asked
  /\ \A a \in Admins : handler[a].op = "create" => \A v \in versions : v.space # handler[a].space
  /\ \A x \in DOMAIN spaces : History(x)

(* Most steps publish nothing: spaces keep their state and version, and a  *)
(* request asks for a space under a new number. *)
LEMMA NothingPublished ==
  ASSUME ProfileInv, VersionsInv, versions' = versions,
         asked' = asked \/ asked' = asked + 1,
         \A a \in Admins : handler'[a].op = "create" =>
             handler'[a] = handler[a] \/ handler'[a].space = asked + 1,
         \A x \in DOMAIN spaces' :
             /\ x \in DOMAIN spaces
             /\ spaces'[x].state = spaces[x].state /\ spaces'[x].version = spaces[x].version
  PROVE  VersionsInv'
  <1>1. asked \in Nat
    BY DEF ProfileInv, ProfileType
  <1>2. \A v \in versions : v.space \in 0 .. asked /\ v.space # asked + 1 /\ v.space \in 0 .. asked'
    BY <1>1 DEF VersionsInv
  <1>3. \A x \in DOMAIN spaces' : History(x)'
    BY DEF VersionsInv, History
  <1> QED
    BY <1>2, <1>3 DEF VersionsInv

(* A draft comes without versions. *)
LEMMA DraftCreated ==
  ASSUME ProfileInv, VersionsInv, NEW a \in Admins, CreateSpace(a)
  PROVE  VersionsInv'
  <1>0. PICK x : x = handler[a].space
    OBVIOUS
  <1>1. PICK fs : spaces' = With(spaces, x, Draft(handler[a].snap, fs))
    BY <1>0 DEF CreateSpace
  <1>2. handler[a].op = "create" /\ versions' = versions /\ asked' = asked
        /\ handler' = [handler EXCEPT ![a] = Idle]
    BY DEF CreateSpace
  <1>3. \A b \in Admins : handler'[b].op = "create" => handler'[b] = handler[b]
    BY <1>2 DEF ProfileInv, ProfileType, Idle
  <1>4. x \notin DOMAIN spaces /\ \A v \in versions : v.space # x
    BY <1>0, <1>2 DEF ProfileInv, AdoptInv, Numbered, VersionsInv
  <1>5. /\ DOMAIN spaces' = DOMAIN spaces \cup {x} /\ \A y \in DOMAIN spaces : spaces'[y] = spaces[y]
        /\ spaces'[x].state = "draft" /\ spaces'[x].version = 1
    BY <1>1, <1>4 DEF With, Draft
  <1>6. \A y \in DOMAIN spaces : History(y)'
    BY <1>2, <1>5 DEF VersionsInv, History
  <1>7. History(x)'
    BY <1>2, <1>4, <1>5 DEF History
  <1> QED
    BY <1>2, <1>3, <1>5, <1>6, <1>7 DEF VersionsInv

(* The versions of a space go with it. *)
LEMMA HistoryDeleted ==
  ASSUME ProfileInv, VersionsInv, NEW a \in Admins, NEW x \in DOMAIN spaces, DeleteSpace(a, x)
  PROVE  VersionsInv'
  <1>1. /\ asked \in Nat /\ asked' = asked + 1 /\ handler' = handler
        /\ DOMAIN spaces' = DOMAIN spaces \ {x} /\ \A y \in DOMAIN spaces \ {x} : spaces'[y] = spaces[y]
    BY DEF DeleteSpace, Ask, Without, ProfileInv, ProfileType
  <1>2. \A v : v \in versions' <=> v \in versions /\ v.space # x
    BY DEF DeleteSpace
  <1>3. \A y \in DOMAIN spaces' : History(y)'
    BY <1>1, <1>2 DEF VersionsInv, History
  <1>4. \A v \in versions' : v.space \in 0 .. asked'
    BY <1>1, <1>2 DEF VersionsInv
  <1> QED
    BY <1>1, <1>2, <1>3, <1>4 DEF VersionsInv

(* A publication adds the version after the last, or the first. *)
LEMMA VersionPublished ==
  ASSUME ProfileInv, VersionsInv, NEW a \in Admins, PublishSpace(a)
  PROVE  VersionsInv'
  <1>0. PICK x : x = handler[a].space
    OBVIOUS
  <1>1. /\ x \in DOMAIN spaces /\ handler' = [handler EXCEPT ![a] = Idle] /\ asked' = asked
        /\ spaces \in [DOMAIN spaces -> Spaces] /\ asked \in Nat
    BY <1>0 DEF PublishSpace, ProfileInv, ProfileType
  <1>2. PICK new :
          /\ new.state = "published" /\ new.version = NextVersion(spaces[x])
          /\ spaces' = [spaces EXCEPT ![x] = new]
          /\ versions' = versions \cup {[space |-> x, version |-> new.version, fields |-> new.fields]}
    <2> DEFINE new == [spaces[x] EXCEPT
                  !.fields = spaces[x].fields \cup {f \in Suggested : <<f.of, f.column>> \in handler[a].ids},
                  !.state = "published", !.version = NextVersion(spaces[x])]
    <2>1. /\ spaces' = [spaces EXCEPT ![x] = new]
          /\ versions' = versions \cup {[space |-> x, version |-> new.version, fields |-> new.fields]}
      BY <1>0 DEF PublishSpace
    <2>2. new.state = "published" /\ new.version = NextVersion(spaces[x])
      <3>1. spaces[x] \in Spaces
        BY <1>1
      <3> QED
        BY <3>1 DEF Spaces
    <2> HIDE DEF new
    <2> QED
      BY <2>1, <2>2
  <1> DEFINE added == [space |-> x, version |-> new.version, fields |-> new.fields]
  <1>3. /\ versions' = versions \cup {added} /\ added.space = x /\ added.version = NextVersion(spaces[x])
        /\ DOMAIN spaces' = DOMAIN spaces /\ \A y \in DOMAIN spaces \ {x} : spaces'[y] = spaces[y]
        /\ spaces'[x].state = "published" /\ spaces'[x].version = NextVersion(spaces[x])
    BY <1>1, <1>2
  <1>4. \A b \in Admins : handler'[b].op = "create" => handler'[b] = handler[b]
    BY <1>1 DEF ProfileInv, ProfileType, Idle
  <1>5. \A b \in Admins : handler[b].op = "create" => handler[b].space # x
    BY <1>0, <1>1 DEF ProfileInv, AdoptInv, Numbered
  <1>6. x \in 0 .. asked /\ spaces[x].version \in Nat /\ spaces[x].state \in {"draft", "published"}
        /\ History(x)
    BY <1>1 DEF ProfileInv, AdoptInv, Numbered, Spaces, VersionsInv
  <1> HIDE DEF added
  <1>7. \A y \in DOMAIN spaces \ {x} : History(y)'
    BY <1>3 DEF VersionsInv, History
  <1>8. History(x)'
    <2>1. CASE spaces[x].state = "draft"
      <3>1. NextVersion(spaces[x]) = 1 /\ \A v \in versions : v.space # x
        BY <1>6, <2>1 DEF NextVersion, History
      <3>2. \A v \in versions' : v.space = x => v = added
        BY <1>3, <3>1
      <3> QED
        BY <1>3, <3>1, <3>2 DEF History
    <2>2. CASE spaces[x].state = "published"
      <3> DEFINE n == spaces[x].version
      <3>1. NextVersion(spaces[x]) = n + 1 /\ n \in Nat
        BY <1>6, <2>2 DEF NextVersion
      <3>2. /\ \A v \in versions : v.space = x => v.version \in 1 .. n
            /\ \A k \in 1 .. n : \E v \in versions : v.space = x /\ v.version = k
            /\ \A v, w \in versions : v.space = x /\ w.space = x /\ v.version = w.version => v = w
        BY <1>6, <2>2 DEF History
      <3> HIDE DEF n
      <3>3. /\ 1 .. (n + 1) = 1 .. n \cup {n + 1} /\ n + 1 \notin 1 .. n
            /\ added.version = n + 1 /\ spaces'[x].version = n + 1
        BY <1>3, <3>1
      <3>4. \A v \in versions' : v.space = x => v.version \in 1 .. (n + 1)
        BY <1>3, <3>2, <3>3
      <3>5. \A k \in 1 .. (n + 1) : \E v \in versions' : v.space = x /\ v.version = k
        BY <1>3, <3>2, <3>3
      <3>6. \A v, w \in versions' : v.space = x /\ w.space = x /\ v.version = w.version => v = w
        BY <1>3, <3>2, <3>3
      <3> QED
        BY <1>3, <3>3, <3>4, <3>5, <3>6 DEF History
    <2> QED
      BY <1>6, <2>1, <2>2
  <1>9. \A v \in versions' : v.space \in 0 .. asked'
    BY <1>1, <1>3, <1>6 DEF VersionsInv
  <1>10. \A b \in Admins : handler'[b].op = "create" => \A v \in versions' : v.space # handler'[b].space
    BY <1>3, <1>4, <1>5 DEF VersionsInv
  <1>11. \A y \in DOMAIN spaces' : History(y)'
    BY <1>3, <1>7, <1>8
  <1> QED
    BY <1>9, <1>10, <1>11 DEF VersionsInv

(* The history of every space is kept by every step. *)
LEMMA VersionsSteps == ProfileInv /\ VersionsInv /\ [ProfileNext]_pvars => VersionsInv'
  <1> SUFFICES ASSUME ProfileInv, VersionsInv, [ProfileNext]_pvars
               PROVE  VersionsInv'
    OBVIOUS
  <1> DEFINE Quiet ==
        /\ versions' = versions /\ (asked' = asked \/ asked' = asked + 1)
        /\ \A x \in DOMAIN spaces' :
              /\ x \in DOMAIN spaces
              /\ spaces'[x].state = spaces[x].state /\ spaces'[x].version = spaces[x].version
  <1>0. /\ handler = [b \in Admins |-> handler[b]]
        /\ spaces \in [DOMAIN spaces -> Spaces]
    BY DEF ProfileInv, ProfileType
  <1>1. ASSUME NEW j \in DOMAIN scans, ScanStep(j)
        PROVE  VersionsInv'
    <2>1. handler' = handler /\ Quiet
      BY <1>1 DEF ScanStep, TakeScan, MarkJob, MarkSnap, SaveCatalog, Discover, SaveSpaces, Raise, GiveUp, Others
    <2> QED
      BY <2>1, NothingPublished
  <1>2. ASSUME NEW a \in Admins, StartScan(a) \/ TellPending(a) \/ PublishRefused(a)
        PROVE  VersionsInv'
    <2>1. Quiet
      BY <1>2 DEF StartScan, TellPending, PublishRefused, Ask
    <2>2. /\ \A b \in Admins \ {a} : handler'[b] = handler[b]
          /\ handler'[a].op # "create"
      BY <1>0, <1>2 DEF StartScan, TellPending, PublishRefused, Idle
    <2> QED
      BY <2>1, <2>2, NothingPublished
  <1>3. ASSUME NEW a \in Admins, NEW t, LookForSnapshot(a, t)
        PROVE  VersionsInv'
    <2>1. Quiet /\ asked' = asked + 1
      BY <1>3 DEF LookForSnapshot, Ask
    <2>2. \A b \in Admins : handler'[b] = handler[b] \/ handler'[b].space = asked + 1
      BY <1>0, <1>3, <2>1 DEF LookForSnapshot
    <2> QED
      BY <2>1, <2>2, NothingPublished
  <1>4. ASSUME NEW a \in Admins, NEW x \in DOMAIN spaces, Refresh(a, x)
        PROVE  VersionsInv'
    <2>1. Quiet
      BY <1>4 DEF Refresh, Ask
    <2>2. PICK ids : handler' = [handler EXCEPT ![a] = [op |-> "publish", space |-> x, ids |-> ids]]
      BY <1>4 DEF Refresh
    <2>3. /\ \A b \in Admins \ {a} : handler'[b] = handler[b]
          /\ handler'[a].op = "publish"
      BY <1>0, <2>2
    <2> QED
      BY <2>1, <2>3, NothingPublished
  <1>5. ASSUME NEW a \in Admins, NEW x \in DOMAIN spaces, NEW t, AddTable(a, x, t)
        PROVE  VersionsInv'
    <2>1. PICK fs : spaces' = [spaces EXCEPT ![x].fields = fs]
      BY <1>5 DEF AddTable
    <2>2. Quiet
      BY <1>0, <1>5, <2>1 DEF AddTable, Ask, Spaces
    <2> QED
      BY <1>5, <2>2, NothingPublished DEF AddTable
  <1>6. ASSUME NEW a \in Admins, NEW x \in DOMAIN spaces, NEW c, Adjust(a, x, c)
        PROVE  VersionsInv'
    <2>1. PICK fs : spaces' = [spaces EXCEPT ![x].fields = fs]
      BY <1>6 DEF Adjust
    <2>2. Quiet
      BY <1>0, <1>6, <2>1 DEF Adjust, Ask, Spaces
    <2> QED
      BY <1>6, <2>2, NothingPublished DEF Adjust
  <1>7. ASSUME NEW a \in Admins, Manage(a)
        PROVE  VersionsInv'
    BY <1>2, <1>3, <1>4, <1>5, <1>6, <1>7, DraftCreated, VersionPublished, HistoryDeleted DEF Manage
  <1>8. CASE CrashScans
    <2>1. Quiet /\ \A b \in Admins : handler'[b].op # "create"
      BY <1>8 DEF CrashScans, Idle
    <2> QED
      BY <2>1, NothingPublished
  <1>9. CASE UNCHANGED pvars
    BY <1>9 DEF pvars, VersionsInv, History
  <1> QED
    BY <1>1, <1>2, <1>7, <1>8, <1>9 DEF ProfileNext

(* A published space has kept each version up to its own once and a draft  *)
(* none, which _publish_impact_analysis compares: publish_space, with      *)
(* delete_space and the scans of _run_scan_background in between.          *)
THEOREM VersionsRemainComplete == ProfileSpec => []VersionsComplete
  <1>1. ProfileInit => VersionsInv
    BY DEF ProfileInit, VersionsInv, Idle
  <1>2. ProfileSpec => []VersionsInv
    BY <1>1, ProfileInvariant, VersionsSteps, PTL DEF ProfileSpec
  <1>3. ProfileInv /\ VersionsInv => VersionsComplete
    <2> SUFFICES ASSUME ProfileInv, VersionsInv, NEW x \in DOMAIN spaces
                 PROVE  LET kept == {v \in versions : v.space = x} IN
                        /\ {v.version : v \in kept} = IF spaces[x].state = "draft" THEN {} ELSE 1 .. spaces[x].version
                        /\ Cardinality(kept) = Cardinality({v.version : v \in kept})
      BY DEF VersionsComplete
    <2> DEFINE kept == {v \in versions : v.space = x}
               n == spaces[x].version
    <2>1. History(x) /\ spaces[x].state \in {"draft", "published"} /\ n \in Nat
      BY DEF VersionsInv, ProfileInv, ProfileType, Spaces
    <2>2. CASE spaces[x].state = "draft"
      <3>1. kept = {}
        BY <2>1, <2>2 DEF History
      <3> QED
        BY <2>2, <3>1
    <2>3. CASE spaces[x].state = "published"
      <3>1. /\ \A v \in kept : v.version \in 1 .. n
            /\ \A k \in 1 .. n : \E v \in kept : v.version = k
            /\ \A v, w \in kept : v.version = w.version => v = w
        BY <2>1, <2>3 DEF History
      <3> HIDE DEF kept, n
      <3>2. {v.version : v \in kept} = 1 .. n
        BY <3>1
      <3> DEFINE f == [k \in 1 .. n |-> CHOOSE v \in kept : v.version = k]
      <3>3. \A k \in 1 .. n : f[k] \in kept /\ f[k].version = k
        BY <3>1
      <3>4. f \in [1 .. n -> kept]
        BY <3>3
      <3> HIDE DEF f
      <3>5. f \in Bijection(1 .. n, kept)
        <4>1. \A k, l \in 1 .. n : f[k] = f[l] => k = l
          BY <3>3
        <4>2. \A v \in kept : \E k \in 1 .. n : f[k] = v
          BY <3>1, <3>3
        <4> QED
          BY <3>4, <4>1, <4>2 DEF Bijection, Injection, Surjection, IsInjective
      <3>6. Cardinality(kept) = n
        BY <2>1, <3>5, FS_CountingElements DEF ExistsBijection
      <3>7. Cardinality(1 .. n) = n
        BY <2>1, FS_Interval
      <3> QED
        BY <2>3, <3>2, <3>6, <3>7 DEF n, kept
    <2> QED
      BY <2>1, <2>2, <2>3
  <1> QED
    BY <1>2, <1>3, ProfileInvariant, PTL
=============================================================================
