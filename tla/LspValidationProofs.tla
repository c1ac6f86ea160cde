------------------------ MODULE LspValidationProofs ------------------------
(***************************************************************************)
(* Theorems about validation scheduling in the language server and about   *)
(* the requests that wait for it, for every set of documents, texts and    *)
(* client actions.                                                         *)
(*                                                                         *)
(* Registration (LiveIsRegistered) is not inductive alone: the worker must *)
(* not turn a free or cancelled task into a running one, so the queue and  *)
(* the worker have to agree with the tasks (JobsMatchTasks), and a task    *)
(* that exists must carry a document and a text (Shape).                   *)
(*                                                                         *)
(* On that invariant three more are built.  TextInv follows the last text  *)
(* of a client that only types, from the calls on the loop to the screen.  *)
(* PacedInv says, for a client that waits for the server, of which states  *)
(* of the buffers the tables, the cache and what is shown are.  TableInv   *)
(* says which documents have a symbol table a request can be answered of.  *)
(***************************************************************************)
EXTENDS LspRequests, FiniteSetTheorems, SequenceTheorems, TLAPS

LiveAt == {"starting", "submitted", "running", "computed"}

Shape ==
    /\ \A i \in Ids : task[i].at # "free" => task[i].uri \in Docs /\ task[i].source \in Texts
    /\ step # "idle" <=> worker # 0
    /\ step \in {"checking", "store"} => view \in [Docs -> Texts]

IInv == TypeOK /\ Shape /\ LiveIsRegistered /\ JobsMatchTasks

-----------------------------------------------------------------------------
(* The types of the operators. *)
LEMMA TextType == \A d \in Docs : \A s \in TextsOf[d] : s \in Texts /\ s # None
  BY LspAssumption DEF Texts

LEMMA FreeType == Free \in Tasks
  BY DEF Free, Tasks, Places

LEMMA CheckType ==
    ASSUME NEW d \in Docs, NEW s \in Texts, NEW v \in [Docs -> Texts]
    PROVE  Check(d, s, v) \in Checks /\ Check(d, s, v) \in Results /\ Check(d, s, v).text = s
<1> DEFINE D == IF s \in Crashing THEN {} ELSE Reached(d, s, v)
<1>1. D \subseteq Docs
  <2>1. Reached(d, s, v) \subseteq Docs
    BY DEF Reached
  <2> QED
    BY <2>1
<1>2. [x \in D |-> v[x]] \in [D -> Texts]
  BY <1>1
<1>3. [x \in D |-> v[x]] \in UNION {[E -> Texts] : E \in SUBSET Docs}
  BY <1>1, <1>2
<1>4. Check(d, s, v) = [text |-> s, deps |-> [x \in D |-> v[x]]]
  BY DEF Check
<1> HIDE DEF D
<1> QED
  BY <1>3, <1>4 DEF Results, Checks

LEMMA WithdrawnFacts ==
    ASSUME NEW i, jobs \in Seq(Ids),
           \A n, k \in DOMAIN jobs : jobs[n] = jobs[k] => n = k
    PROVE  /\ Withdrawn(i) \in Seq(Ids)
           /\ \A n, k \in DOMAIN Withdrawn(i) : Withdrawn(i)[n] = Withdrawn(i)[k] => n = k
           /\ \A j : (\E n \in DOMAIN Withdrawn(i) : Withdrawn(i)[n] = j)
                     <=> j # i /\ \E n \in DOMAIN jobs : jobs[n] = j
<1>1. CASE ~ \E n \in DOMAIN jobs : jobs[n] = i
  BY <1>1 DEF Withdrawn
<1>2. CASE \E n \in DOMAIN jobs : jobs[n] = i
  <2> DEFINE n == CHOOSE n \in DOMAIN jobs : jobs[n] = i
             w == [k \in 1 .. Len(jobs) - 1 |-> jobs[IF k < n THEN k ELSE k + 1]]
  <2>1. n \in 1 .. Len(jobs) /\ jobs[n] = i
    BY <1>2
  <2>2. Withdrawn(i) = w
    BY <1>2 DEF Withdrawn
  <2> HIDE DEF n
  <2>3. w \in Seq(Ids) /\ DOMAIN w = 1 .. Len(jobs) - 1
    <3>1. \A k \in 1 .. Len(jobs) - 1 : w[k] \in Ids
      BY <2>1
    <3>2. Len(jobs) - 1 \in Nat
      BY <2>1
    <3> QED
      BY <3>1, <3>2
  <2>4. \A k, l \in DOMAIN w : w[k] = w[l] => k = l
    BY <2>1, <2>3
  <2>5. ASSUME NEW j
        PROVE  (\E k \in DOMAIN w : w[k] = j) <=> j # i /\ \E k \in DOMAIN jobs : jobs[k] = j
    <3>1. ASSUME NEW k \in DOMAIN w, w[k] = j
          PROVE  j # i /\ \E l \in DOMAIN jobs : jobs[l] = j
      BY <2>1, <2>3, <3>1
    <3>2. ASSUME NEW k \in DOMAIN jobs, jobs[k] = j, j # i
          PROVE  \E l \in DOMAIN w : w[l] = j
      <4>1. CASE k < n
        <5>1. k \in DOMAIN w /\ w[k] = j
          BY <2>1, <2>3, <3>2, <4>1
        <5> QED
          BY <5>1
      <4>2. CASE k > n
        <5>1. k - 1 \in DOMAIN w /\ w[k - 1] = j
          BY <2>1, <2>3, <3>2, <4>2
        <5> QED
          BY <5>1
      <4> QED
        BY <2>1, <3>2, <4>1, <4>2
    <3> QED
      BY <3>1, <3>2
  <2> HIDE DEF w
  <2> QED
    BY <2>2, <2>3, <2>4, <2>5
<1> QED
  BY <1>1, <1>2

-----------------------------------------------------------------------------
(* The part of the invariant that scheduling is about. *)
Scheduled == Shape /\ LiveIsRegistered /\ JobsMatchTasks

(* Cancelling the registered task of a document. *)
LEMMA CancelledFacts ==
    ASSUME IInv, NEW d \in Docs
    PROVE  /\ Cancelled(current[d]) \in [Ids -> Tasks]
           /\ \A i \in Ids : i # current[d] => Cancelled(current[d])[i] = task[i]
           /\ current[d] # 0 =>
                 Cancelled(current[d])[current[d]] =
                    IF worker = current[d] THEN [task[current[d]] EXCEPT !.at = "orphan"] ELSE Free
<1> USE DEF IInv
<1>1. CASE current[d] = 0
  BY <1>1 DEF Cancelled, TypeOK, Ids
<1>2. CASE current[d] # 0
  <2>1. current[d] \in Ids /\ task[current[d]] \in Tasks /\ Live(current[d])
    BY <1>2 DEF TypeOK, LiveIsRegistered
  <2>2. task[current[d]].at = "running" <=> worker = current[d]
    BY <2>1 DEF JobsMatchTasks, Live
  <2>3. [task[current[d]] EXCEPT !.at = "orphan"] \in Tasks
    BY <2>1 DEF Tasks, Places
  <2> QED
    BY <1>2, <2>1, <2>2, <2>3, FreeType DEF Cancelled, TypeOK
<1> QED
  BY <1>1, <1>2

(* _schedule_validation preserves registration and the queue. *)
LEMMA ScheduleStep ==
    ASSUME IInv, NEW d \in Docs, NEW s \in Texts, NEW buffers \in [Docs -> Texts \union {None}],
           Schedule(d, s, buffers), UNCHANGED <<worker, step, view>>
    PROVE  /\ Scheduled'
           /\ docs' \in [Docs -> Texts \union {None}] /\ generation' \in [Docs -> Nat]
           /\ current' \in [Docs -> Ids \union {0}] /\ task' \in [Ids -> Tasks]
           /\ jobs' \in Seq(Ids)
<1> USE DEF IInv
<1> DEFINE left == Cancelled(current[d])
           new == CHOOSE i \in Ids : left[i].at = "free"
           fresh == [uri |-> d, source |-> s, gen |-> generation[d] + 1, at |-> "starting"]
<1>1. /\ left \in [Ids -> Tasks]
      /\ \A i \in Ids : i # current[d] => left[i] = task[i]
      /\ current[d] # 0 => left[current[d]] =
            IF worker = current[d] THEN [task[current[d]] EXCEPT !.at = "orphan"] ELSE Free
  BY CancelledFacts
<1>2. new \in Ids /\ left[new].at = "free"
  BY DEF Schedule
<1>3. /\ docs' = [buffers EXCEPT ![d] = s]
      /\ generation' = [generation EXCEPT ![d] = @ + 1]
      /\ task' = [left EXCEPT ![new] = fresh]
      /\ current' = [current EXCEPT ![d] = new]
      /\ jobs' = Withdrawn(current[d])
  BY DEF Schedule
<1> HIDE DEF left, new
<1>4. fresh \in Tasks
  BY DEF Tasks, Places, TypeOK
<1>5. /\ docs' \in [Docs -> Texts \union {None}] /\ generation' \in [Docs -> Nat]
      /\ current' \in [Docs -> Ids \union {0}] /\ task' \in [Ids -> Tasks]
  BY <1>1, <1>2, <1>3, <1>4 DEF TypeOK
<1>6. /\ jobs' \in Seq(Ids)
      /\ \A n, k \in DOMAIN jobs' : jobs'[n] = jobs'[k] => n = k
      /\ \A j : (\E n \in DOMAIN jobs' : jobs'[n] = j)
                <=> j # current[d] /\ \E n \in DOMAIN jobs : jobs[n] = j
  <2>1. jobs \in Seq(Ids) /\ \A n, k \in DOMAIN jobs : jobs[n] = jobs[k] => n = k
    BY DEF TypeOK, JobsMatchTasks
  <2>2. LET w == Withdrawn(current[d])
        IN  /\ w \in Seq(Ids)
            /\ \A n, k \in DOMAIN w : w[n] = w[k] => n = k
            /\ \A j : (\E n \in DOMAIN w : w[n] = j)
                      <=> j # current[d] /\ \E n \in DOMAIN jobs : jobs[n] = j
    BY <2>1, WithdrawnFacts
  <2> QED
    BY <1>3, <2>2, Zenon
\* every task after the step: the new one, the cancelled one, or one of before
<1>7. \A i \in Ids : /\ i = new => task'[i] = fresh
                     /\ i # new /\ i # current[d] => task'[i] = task[i]
                     /\ i # new /\ i = current[d] => task'[i] = left[i]
  BY <1>1, <1>2, <1>3
<1>8. new # current[d] => task[new].at = "free"
  BY <1>1, <1>2
<1>9. new = current[d] => worker # new
  <2> SUFFICES ASSUME new = current[d], worker = new
               PROVE  FALSE
    OBVIOUS
  <2>1. current[d] # 0 /\ left[new] = [task[new] EXCEPT !.at = "orphan"] /\ task[new] \in Tasks
    BY <1>1, <1>2 DEF Ids, TypeOK
  <2> QED
    BY <1>2, <2>1 DEF Tasks
<1>10. Shape'
  <2>1. ASSUME NEW i \in Ids, task'[i].at # "free"
        PROVE  task'[i].uri \in Docs /\ task'[i].source \in Texts
    <3>1. CASE i = new
      BY <1>7, <3>1
    <3>2. CASE i # new /\ i # current[d]
      BY <1>7, <2>1, <3>2 DEF Shape
    <3>3. CASE i # new /\ i = current[d]
      <4>1. current[d] # 0 /\ task'[i] = left[i] /\ task[i] \in Tasks /\ Live(i)
        BY <1>7, <3>3 DEF Ids, TypeOK, LiveIsRegistered
      <4>2. left[i] = [task[i] EXCEPT !.at = "orphan"]
        BY <1>1, <2>1, <3>3, <4>1 DEF Free
      <4>3. task[i].uri \in Docs /\ task[i].source \in Texts
        BY <4>1 DEF Live, Shape
      <4> QED
        BY <4>1, <4>2, <4>3 DEF Tasks
    <3> QED
      BY <3>1, <3>2, <3>3
  <2> QED
    BY <2>1 DEF Shape
<1>11. LiveIsRegistered'
  <2>1. ASSUME NEW i \in Ids, Live(i)'
        PROVE  /\ task'[i].uri \in Docs
               /\ current'[task'[i].uri] = i
               /\ generation'[task'[i].uri] = task'[i].gen
    <3>1. CASE i = new
      BY <1>3, <1>7, <3>1 DEF TypeOK
    <3>2. CASE i # new /\ i # current[d]
      <4>1. Live(i) /\ task'[i] = task[i]
        BY <1>7, <2>1, <3>2 DEF Live
      <4>2. task[i].uri # d
        BY <3>2, <4>1 DEF LiveIsRegistered
      <4> QED
        BY <1>3, <4>1, <4>2 DEF LiveIsRegistered, TypeOK
    <3>3. CASE i # new /\ i = current[d]
      <4>1. current[d] # 0 /\ task'[i] = left[i] /\ task[i] \in Tasks
        BY <1>7, <3>3 DEF Ids, TypeOK
      <4>2. left[i].at \in {"orphan", "free"}
        BY <1>1, <3>3, <4>1 DEF Free, Tasks
      <4> QED
        BY <2>1, <4>1, <4>2 DEF Live
    <3> QED
      BY <3>1, <3>2, <3>3
  <2>2. ASSUME NEW x \in Docs, current'[x] # 0
        PROVE  task'[current'[x]].at \in LiveAt /\ task'[current'[x]].uri = x
    <3>1. CASE x = d
      <4>1. current'[x] = new /\ task'[new] = fresh
        BY <1>2, <1>3, <1>7, <3>1 DEF TypeOK
      <4> QED
        BY <3>1, <4>1 DEF LiveAt
    <3>2. CASE x # d
      <4>1. current'[x] = current[x] /\ current[x] \in Ids
        BY <1>3, <2>2, <3>2 DEF TypeOK
      <4>2. Live(current[x]) /\ task[current[x]].uri = x
        BY <2>2, <4>1 DEF LiveIsRegistered
      <4>3. current[x] # current[d]
        BY <3>2, <4>1, <4>2 DEF LiveIsRegistered, Ids
      <4>4. current[x] # new
        BY <1>8, <4>2, <4>3 DEF Live
      <4>5. task'[current[x]] = task[current[x]]
        BY <1>7, <4>1, <4>3, <4>4
      <4> QED
        BY <4>1, <4>2, <4>5 DEF Live, LiveAt
    <3> QED
      BY <3>1, <3>2
  <2> QED
    BY <2>1, <2>2 DEF LiveIsRegistered, Live, LiveAt
<1>12. JobsMatchTasks'
  <2>1. ASSUME NEW i \in Ids
        PROVE  /\ task'[i].at = "submitted" <=> \E n \in DOMAIN jobs' : jobs'[n] = i
               /\ task'[i].at \in {"running", "orphan"} <=> worker' = i
    <3>1. CASE i # new /\ i # current[d]
      BY <1>6, <1>7, <3>1 DEF JobsMatchTasks
    <3>2. CASE i = new /\ new # current[d]
      <4>1. task'[i].at = "starting" /\ worker' = worker
        BY <1>7, <3>2
      <4>2. (~ \E n \in DOMAIN jobs : jobs[n] = i) /\ worker # i
        BY <1>8, <3>2 DEF JobsMatchTasks
      <4>3. ~ \E n \in DOMAIN jobs' : jobs'[n] = i
        BY <1>6, <4>2, Zenon
      <4> QED
        BY <4>1, <4>2, <4>3
    <3>3. CASE i = new /\ new = current[d]
      <4>1. task'[i].at = "starting" /\ worker' = worker
        BY <1>7, <3>3
      <4>2. ~ \E n \in DOMAIN jobs' : jobs'[n] = i
        BY <1>6, <3>3, Zenon
      <4> QED
        BY <1>9, <3>3, <4>1, <4>2
    <3>4. CASE i # new /\ i = current[d]
      <4>1. current[d] # 0 /\ task'[i] = left[i] /\ task[i] \in Tasks
        BY <1>7, <3>4 DEF Ids, TypeOK
      <4>4. (~ \E n \in DOMAIN jobs' : jobs'[n] = i) /\ worker' = worker
        BY <1>6, <3>4, Zenon
      <4>2. CASE worker = i
        <5>1. task'[i].at = "orphan"
          BY <1>1, <3>4, <4>1, <4>2 DEF Tasks
        <5> QED
          BY <4>2, <4>4, <5>1
      <4>3. CASE worker # i
        <5>1. task'[i].at = "free"
          BY <1>1, <3>4, <4>1, <4>3 DEF Free
        <5> QED
          BY <4>3, <4>4, <5>1
      <4> QED
        BY <4>2, <4>3
    <3> QED
      BY <3>1, <3>2, <3>3, <3>4
  <2> QED
    BY <1>6, <2>1 DEF JobsMatchTasks
<1> QED
  BY <1>5, <1>6, <1>10, <1>11, <1>12 DEF Scheduled

(* A task ends on the loop: it started from the cache or its result came. *)
LEMMA FinishStep ==
    ASSUME IInv, NEW i \in Ids, task[i].at \in {"starting", "computed"}, Finish(i),
           UNCHANGED <<generation, jobs, worker, step, view>>
    PROVE  Scheduled' /\ current' \in [Docs -> Ids \union {0}] /\ task' \in [Ids -> Tasks]
<1> USE DEF IInv
<1>1. /\ task' = [task EXCEPT ![i] = Free]
      /\ task[i].uri \in Docs /\ current[task[i].uri] = i /\ worker # i
  BY DEF Finish, LiveIsRegistered, Live, JobsMatchTasks
<1>2. /\ current' = [current EXCEPT ![task[i].uri] = 0]
      /\ current' \in [Docs -> Ids \union {0}] /\ task' \in [Ids -> Tasks]
  BY <1>1, FreeType DEF Finish, TypeOK
<1>3. \A j \in Ids : task'[j] = IF j = i THEN Free ELSE task[j]
  BY <1>1 DEF TypeOK
<1>4. Shape'
  BY <1>3 DEF Shape, Free
<1>5. LiveIsRegistered'
  <2>1. ASSUME NEW j \in Ids, Live(j)'
        PROVE  /\ task'[j].uri \in Docs
               /\ current'[task'[j].uri] = j
               /\ generation'[task'[j].uri] = task'[j].gen
    <3>1. j # i /\ task'[j] = task[j] /\ Live(j)
      BY <1>3, <2>1 DEF Live, Free
    <3>2. task[j].uri # task[i].uri
      BY <1>1, <3>1 DEF LiveIsRegistered
    <3> QED
      BY <1>2, <3>1, <3>2 DEF LiveIsRegistered, TypeOK
  <2>2. ASSUME NEW d \in Docs, current'[d] # 0
        PROVE  task'[current'[d]].at \in LiveAt /\ task'[current'[d]].uri = d
    <3>1. d # task[i].uri /\ current'[d] = current[d] /\ current[d] \in Ids
      BY <1>1, <1>2, <2>2 DEF TypeOK
    <3>2. Live(current[d]) /\ task[current[d]].uri = d
      BY <2>2, <3>1 DEF LiveIsRegistered
    <3>3. task'[current[d]] = task[current[d]]
      BY <1>3, <3>1, <3>2
    <3> QED
      BY <3>1, <3>2, <3>3 DEF Live, LiveAt
  <2> QED
    BY <2>1, <2>2 DEF LiveIsRegistered, Live, LiveAt
<1>6. JobsMatchTasks'
  <2>1. ~ \E n \in DOMAIN jobs : jobs[n] = i
    BY DEF JobsMatchTasks
  <2>2. ASSUME NEW j \in Ids
        PROVE  /\ task'[j].at = "submitted" <=> \E n \in DOMAIN jobs : jobs[n] = j
               /\ task'[j].at \in {"running", "orphan"} <=> worker = j
    <3>1. CASE j = i
      BY <1>1, <1>3, <2>1, <3>1 DEF Free
    <3>2. CASE j # i
      BY <1>3, <3>2 DEF JobsMatchTasks
    <3> QED
      BY <3>1, <3>2
  <2> QED
    BY <2>2 DEF JobsMatchTasks
<1> QED
  BY <1>2, <1>4, <1>5, <1>6 DEF Scheduled

(* The place of a task changes and nothing else about it: the document     *)
(* keeps its registered task.                                              *)
LEMMA MoveStep ==
    ASSUME IInv, NEW i \in Ids, NEW p \in Places, task[i].at # "free",
           Live(i) <=> p \in LiveAt,
           task' = [task EXCEPT ![i].at = p],
           UNCHANGED <<generation, current>>
    PROVE  /\ LiveIsRegistered' /\ task' \in [Ids -> Tasks]
           /\ \A j \in Ids : task'[j].at # "free" => task'[j].uri \in Docs /\ task'[j].source \in Texts
           /\ \A j \in Ids : task'[j].at = IF j = i THEN p ELSE task[j].at
<1> USE DEF IInv
<1>1. task[i] \in Tasks
  BY DEF TypeOK
<1>2. \A j \in Ids : /\ task'[j].uri = task[j].uri /\ task'[j].source = task[j].source
                     /\ task'[j].gen = task[j].gen
                     /\ task'[j].at = IF j = i THEN p ELSE task[j].at
  BY <1>1 DEF TypeOK, Tasks
<1>3. task' \in [Ids -> Tasks]
  <2>1. [task[i] EXCEPT !.at = p] \in Tasks
    BY <1>1 DEF Tasks
  <2> QED
    BY <2>1 DEF TypeOK
<1>4. \A j \in Ids : Live(j)' <=> Live(j)
  BY <1>2 DEF Live, LiveAt
<1>5. LiveIsRegistered'
  <2>1. \A d \in Docs : current[d] # 0 => current[d] \in Ids
    BY DEF TypeOK
  <2>2. \A j \in Ids : task'[j].at \in LiveAt <=> task[j].at \in LiveAt
    BY <1>4 DEF Live, LiveAt
  <2> QED
    BY <1>2, <2>1, <2>2 DEF LiveIsRegistered, Live, LiveAt
<1> QED
  BY <1>2, <1>3, <1>5 DEF Shape

(* didClose: the run of the document is cancelled and its numbering ends. *)
LEMMA CloseStep ==
    ASSUME IInv, NEW d \in Docs,
           task' = Cancelled(current[d]), jobs' = Withdrawn(current[d]),
           current' = [current EXCEPT ![d] = 0],
           generation' = [generation EXCEPT ![d] = 0],
           UNCHANGED <<worker, step, view>>
    PROVE  Scheduled' /\ task' \in [Ids -> Tasks] /\ jobs' \in Seq(Ids)
<1> USE DEF IInv
<1>1. /\ task' \in [Ids -> Tasks]
      /\ \A i \in Ids : i # current[d] => task'[i] = task[i]
      /\ current[d] # 0 => task'[current[d]] =
            IF worker = current[d] THEN [task[current[d]] EXCEPT !.at = "orphan"] ELSE Free
  BY CancelledFacts
<1>2. /\ jobs' \in Seq(Ids)
      /\ \A n, k \in DOMAIN jobs' : jobs'[n] = jobs'[k] => n = k
      /\ \A j : (\E n \in DOMAIN jobs' : jobs'[n] = j)
                <=> j # current[d] /\ \E n \in DOMAIN jobs : jobs[n] = j
  <2>1. jobs \in Seq(Ids) /\ \A n, k \in DOMAIN jobs : jobs[n] = jobs[k] => n = k
    BY DEF TypeOK, JobsMatchTasks
  <2>2. LET w == Withdrawn(current[d])
        IN  /\ w \in Seq(Ids)
            /\ \A n, k \in DOMAIN w : w[n] = w[k] => n = k
            /\ \A j : (\E n \in DOMAIN w : w[n] = j)
                      <=> j # current[d] /\ \E n \in DOMAIN jobs : jobs[n] = j
    BY <2>1, WithdrawnFacts
  <2> QED
    BY <2>2, Zenon
\* the task of d, if it has one, is gone or an orphan
<1>3. ASSUME NEW i \in Ids, i = current[d]
      PROVE  /\ Live(i) /\ task[i].uri = d /\ task[i].source \in Texts
             /\ task'[i].at = IF worker = i THEN "orphan" ELSE "free"
             /\ task'[i].at # "free" => task'[i].uri = d /\ task'[i].source \in Texts
  <2>1. current[d] # 0 /\ task[i] \in Tasks
    BY <1>3 DEF Ids, TypeOK
  <2>2. Live(i) /\ task[i].uri = d
    BY <1>3, <2>1 DEF LiveIsRegistered
  <2>3. task[i].source \in Texts
    BY <2>2 DEF Live, Shape
  <2> QED
    BY <1>1, <1>3, <2>1, <2>2, <2>3 DEF Free, Tasks
<1>4. Shape'
  <2>1. ASSUME NEW i \in Ids, task'[i].at # "free"
        PROVE  task'[i].uri \in Docs /\ task'[i].source \in Texts
    BY <1>1, <1>3, <2>1 DEF Shape
  <2> QED
    BY <2>1 DEF Shape
<1>5. LiveIsRegistered'
  <2>1. ASSUME NEW i \in Ids, Live(i)'
        PROVE  /\ task'[i].uri \in Docs
               /\ current'[task'[i].uri] = i
               /\ generation'[task'[i].uri] = task'[i].gen
    <3>1. i # current[d]
      BY <1>3, <2>1 DEF Live
    <3>2. Live(i) /\ task'[i] = task[i]
      BY <1>1, <2>1, <3>1 DEF Live
    <3>3. task[i].uri # d
      BY <3>1, <3>2 DEF LiveIsRegistered
    <3> QED
      BY <3>2, <3>3 DEF LiveIsRegistered, TypeOK
  <2>2. ASSUME NEW x \in Docs, current'[x] # 0
        PROVE  task'[current'[x]].at \in LiveAt /\ task'[current'[x]].uri = x
    <3>1. x # d /\ current'[x] = current[x] /\ current[x] \in Ids
      BY <2>2 DEF TypeOK
    <3>2. Live(current[x]) /\ task[current[x]].uri = x
      BY <2>2, <3>1 DEF LiveIsRegistered
    <3>3. current[x] # current[d]
      BY <1>3, <3>1, <3>2
    <3> QED
      BY <1>1, <3>1, <3>2, <3>3 DEF Live, LiveAt
  <2> QED
    BY <2>1, <2>2 DEF LiveIsRegistered, Live, LiveAt
<1>6. JobsMatchTasks'
  <2>1. ASSUME NEW i \in Ids
        PROVE  /\ task'[i].at = "submitted" <=> \E n \in DOMAIN jobs' : jobs'[n] = i
               /\ task'[i].at \in {"running", "orphan"} <=> worker = i
    <3>1. CASE i # current[d]
      <4>1. task'[i] = task[i]
        BY <1>1, <3>1
      <4>2. (\E n \in DOMAIN jobs' : jobs'[n] = i) <=> \E n \in DOMAIN jobs : jobs[n] = i
        BY <1>2, <3>1, Zenon
      <4> QED
        BY <4>1, <4>2 DEF JobsMatchTasks
    <3>2. CASE i = current[d]
      <4>1. ~ \E n \in DOMAIN jobs' : jobs'[n] = i
        BY <1>2, <3>2, Zenon
      <4> QED
        BY <1>3, <3>2, <4>1
    <3> QED
      BY <3>1, <3>2
  <2> QED
    BY <1>2, <2>1 DEF JobsMatchTasks
<1> QED
  BY <1>1, <1>2, <1>4, <1>5, <1>6 DEF Scheduled

(* What gather() queues has its type, whatever the buffers are. *)
LEMMA GatheredType ==
    ASSUME NEW ds \in SUBSET Docs, NEW buffers, NEW q \in Gathered(ds, buffers)
    PROVE  q \in Seq([uri : Docs, source : Texts])
<1>1. IsFiniteSet(ds)
  BY LspAssumption, FS_Subset
<1>2. Cardinality(ds) \in Nat
  BY <1>1, FS_CardinalityType
<1>3. q \in [1 .. Cardinality(ds) -> [uri : ds, source : Texts]]
  BY DEF Gathered
<1>4. q \in [1 .. Cardinality(ds) -> [uri : Docs, source : Texts]]
  BY <1>3
<1>5. q \in UNION {[1 .. n -> [uri : Docs, source : Texts]] : n \in Nat}
  BY <1>2, <1>4
<1> QED
  BY <1>5, SeqDef

LEMMA OverlayType ==
    ASSUME TypeOK
    PROVE  Overlay(docs) \in [Docs -> Texts]
BY DEF TypeOK, Overlay

-----------------------------------------------------------------------------
LEMMA InitIInv == Init => IInv
<1> SUFFICES ASSUME Init PROVE IInv
  OBVIOUS
<1> USE DEF Init
<1>1. TypeOK
  <2>1. task \in [Ids -> Tasks]
    BY FreeType
  <2>2. result \in [Ids -> Results] /\ shown \in [Docs -> Results]
        /\ symbols \in [Docs -> Results] /\ cache \in [Docs -> Results]
    BY DEF Results
  <2>3. disk \in [Docs -> Texts]
    BY TextType
  <2>4. acts \in 0 .. MaxActs
    BY LspAssumption
  <2> QED
    BY <2>1, <2>2, <2>3, <2>4 DEF TypeOK, Ids
<1>2. Shape
  BY DEF Shape, Free
<1>3. LiveIsRegistered
  BY DEF LiveIsRegistered, Live, Free
<1>4. JobsMatchTasks
  BY DEF JobsMatchTasks, Free, Ids
<1> QED
  BY <1>1, <1>2, <1>3, <1>4 DEF IInv

LEMMA ClientStep ==
    ASSUME IInv, Client
    PROVE  IInv'
<1> USE DEF IInv
<1>1. ASSUME NEW d \in Docs, NEW s \in TextsOf[d], DidOpen(d, s)
      PROVE  IInv'
  <2>1. s \in Texts /\ acts' \in 0 .. MaxActs
    BY <1>1, TextType, LspAssumption DEF DidOpen, Act, TypeOK
  <2>2. CASE s = Empty
    <3>1. TypeOK'
      BY <1>1, <2>1, <2>2 DEF TypeOK, DidOpen, work
    <3>2. Scheduled'
      BY <1>1, <2>2 DEF DidOpen, work, Scheduled, Shape, LiveIsRegistered, Live, JobsMatchTasks
    <3> QED
      BY <3>1, <3>2 DEF Scheduled
  <2>3. CASE s # Empty
    <3>1. Schedule(d, s, docs) /\ UNCHANGED <<worker, step, view>>
      BY <1>1, <2>3 DEF DidOpen, work
    <3>2. /\ Scheduled'
          /\ docs' \in [Docs -> Texts \union {None}] /\ generation' \in [Docs -> Nat]
          /\ current' \in [Docs -> Ids \union {0}] /\ task' \in [Ids -> Tasks]
          /\ jobs' \in Seq(Ids)
      BY <2>1, <3>1, ScheduleStep DEF TypeOK
    <3>3. TypeOK'
      BY <1>1, <2>1, <3>2 DEF TypeOK, DidOpen, work
    <3> QED
      BY <3>2, <3>3 DEF Scheduled
  <2> QED
    BY <2>2, <2>3
<1>2. ASSUME NEW d \in Docs, NEW s \in TextsOf[d], DidChange(d, s)
      PROVE  IInv'
  <2>1. s \in Texts /\ acts' \in 0 .. MaxActs
    BY <1>2, TextType, LspAssumption DEF DidChange, Act, TypeOK
  <2>2. /\ ready' \in Seq([uri : Docs, source : Texts])
        /\ docs' \in [Docs -> Texts \union {None}] /\ cache' \in [Docs -> Results]
    <3>1. CASE s = Empty
      BY <1>2, <3>1 DEF DidChange, TypeOK
    <3>2. CASE s # Empty
      <4> DEFINE buffers == [docs EXCEPT ![d] = s]
      <4>1. DependentOpenUris(d) \subseteq Docs
        BY DEF DependentOpenUris
      <4>2. PICK q \in Gathered(DependentOpenUris(d), buffers) :
               ready' = ready \o <<[uri |-> d, source |-> s]>> \o q
        BY <1>2, <3>2 DEF DidChange
      <4>3. q \in Seq([uri : Docs, source : Texts])
        BY <4>1, <4>2, GatheredType
      <4>4. ready' \in Seq([uri : Docs, source : Texts])
        BY <2>1, <4>2, <4>3 DEF TypeOK
      <4>5. None \in Results
        BY DEF Results
      <4> QED
        BY <1>2, <2>1, <3>2, <4>4, <4>5 DEF DidChange, TypeOK
    <3> QED
      BY <3>1, <3>2
  <2>3. TypeOK'
    BY <1>2, <2>1, <2>2 DEF TypeOK, DidChange, work
  <2>4. Scheduled'
    BY <1>2 DEF DidChange, work, Scheduled, Shape, LiveIsRegistered, Live, JobsMatchTasks
  <2> QED
    BY <2>3, <2>4 DEF Scheduled
<1>3. ASSUME NEW d \in Docs, NEW s \in TextsOf[d], ExternalWrite(d, s)
      PROVE  IInv'
  <2>1. s \in Texts /\ acts' \in 0 .. MaxActs
    BY <1>3, TextType, LspAssumption DEF ExternalWrite, Act, TypeOK
  <2>2. TypeOK'
    BY <1>3, <2>1 DEF TypeOK, ExternalWrite, work
  <2>3. Scheduled'
    BY <1>3 DEF ExternalWrite, work, Scheduled, Shape, LiveIsRegistered, Live, JobsMatchTasks
  <2> QED
    BY <2>2, <2>3 DEF Scheduled
<1>4. ASSUME NEW d \in Docs, DidSave(d)
      PROVE  IInv'
  <2>1. /\ editor[d] \in Texts /\ acts' \in 0 .. MaxActs
        /\ disk' \in [Docs -> Texts] /\ fileEvents' \subseteq Docs
    BY <1>4, LspAssumption DEF DidSave, Act, TypeOK
  <2>2. CASE editor[d] = Empty
    <3>1. TypeOK'
      BY <1>4, <2>1, <2>2 DEF TypeOK, DidSave, work
    <3>2. Scheduled'
      BY <1>4, <2>2 DEF DidSave, work, Scheduled, Shape, LiveIsRegistered, Live, JobsMatchTasks
    <3> QED
      BY <3>1, <3>2 DEF Scheduled
  <2>3. CASE editor[d] # Empty
    <3>1. Schedule(d, editor[d], docs) /\ UNCHANGED <<worker, step, view>>
      BY <1>4, <2>3 DEF DidSave, work
    <3>2. /\ Scheduled'
          /\ docs' \in [Docs -> Texts \union {None}] /\ generation' \in [Docs -> Nat]
          /\ current' \in [Docs -> Ids \union {0}] /\ task' \in [Ids -> Tasks]
          /\ jobs' \in Seq(Ids)
      BY <2>1, <3>1, ScheduleStep DEF TypeOK
    <3>3. TypeOK'
      BY <1>4, <2>1, <3>2 DEF TypeOK, DidSave, work
    <3> QED
      BY <3>2, <3>3 DEF Scheduled
  <2> QED
    BY <2>2, <2>3
<1>5. ASSUME NEW d \in Docs, DidClose(d)
      PROVE  IInv'
  <2>1. Scheduled' /\ task' \in [Ids -> Tasks] /\ jobs' \in Seq(Ids)
    BY <1>5, CloseStep DEF DidClose, work
  <2>2. acts' \in 0 .. MaxActs /\ None \in Results
    BY <1>5, LspAssumption DEF DidClose, Act, TypeOK, Results
  <2>3. TypeOK'
    BY <1>5, <2>1, <2>2 DEF TypeOK, DidClose, work
  <2> QED
    BY <2>1, <2>3 DEF Scheduled
<1>6. ASSUME DidChangeConfiguration
      PROVE  IInv'
  <2>1. acts' \in 0 .. MaxActs /\ None \in Results
    BY <1>6, LspAssumption DEF DidChangeConfiguration, Act, TypeOK, Results
  <2>2. ready' \in Seq([uri : Docs, source : Texts])
    <3>1. PICK q \in Gathered({d \in Docs : docs[d] # None}, docs) : ready' = ready \o q
      BY <1>6 DEF DidChangeConfiguration
    <3>2. {d \in Docs : docs[d] # None} \subseteq Docs
      OBVIOUS
    <3>3. q \in Seq([uri : Docs, source : Texts])
      BY <3>1, <3>2, GatheredType
    <3> QED
      BY <3>1, <3>3 DEF TypeOK
  <2>3. TypeOK'
    BY <1>6, <2>1, <2>2 DEF TypeOK, DidChangeConfiguration, work
  <2>4. Scheduled'
    BY <1>6 DEF DidChangeConfiguration, work, Scheduled, Shape, LiveIsRegistered, Live,
                JobsMatchTasks
  <2> QED
    BY <2>3, <2>4 DEF Scheduled
<1> QED
  BY <1>1, <1>2, <1>3, <1>4, <1>5, <1>6 DEF Client

LEMMA WatcherStep ==
    ASSUME IInv, Watcher
    PROVE  IInv'
<1> USE DEF IInv
<1>1. PICK structural \in BOOLEAN : DidChangeWatchedFiles(structural)
  BY DEF Watcher
<1> DEFINE affected ==
          {d \in Docs : docs[d] # None /\
              \/ structural
              \/ d \in fileEvents /\ disk[d] # docs[d]
              \/ d \notin fileEvents /\ DependencyPaths(d) \intersect fileEvents # {}}
<1>2. ready' \in Seq([uri : Docs, source : Texts])
  <2>1. PICK q \in Gathered(affected, docs) : ready' = ready \o q
    BY <1>1 DEF DidChangeWatchedFiles
  <2>2. affected \subseteq Docs
    OBVIOUS
  <2> HIDE DEF affected
  <2>3. q \in Seq([uri : Docs, source : Texts])
    BY <2>1, <2>2, GatheredType
  <2> QED
    BY <2>1, <2>3 DEF TypeOK
<1>3. cache' \in [Docs -> Results]
  <2>1. None \in Results
    BY DEF Results
  <2> QED
    BY <1>1, <2>1 DEF DidChangeWatchedFiles, TypeOK
<1>4. TypeOK'
  BY <1>1, <1>2, <1>3 DEF TypeOK, DidChangeWatchedFiles, work
<1>5. Scheduled'
  BY <1>1 DEF DidChangeWatchedFiles, work, Scheduled, Shape, LiveIsRegistered, Live,
              JobsMatchTasks
<1> QED
  BY <1>4, <1>5 DEF Scheduled

LEMMA LoopStep ==
    ASSUME IInv, Loop
    PROVE  IInv'
<1> USE DEF IInv
<1>1. ASSUME RunSchedule
      PROVE  IInv'
  <2>1. Head(ready) \in [uri : Docs, source : Texts]
        /\ Tail(ready) \in Seq([uri : Docs, source : Texts])
    <3>1. ready # <<>> /\ ready \in Seq([uri : Docs, source : Texts])
      BY <1>1 DEF RunSchedule, TypeOK
    <3> QED
      BY <3>1, HeadTailProperties
  <2>2. Schedule(Head(ready).uri, Head(ready).source, docs) /\ UNCHANGED <<worker, step, view>>
    BY <1>1 DEF RunSchedule, work
  <2>3. Head(ready).uri \in Docs /\ Head(ready).source \in Texts
    BY <2>1
  <2>4. /\ Scheduled'
        /\ docs' \in [Docs -> Texts \union {None}] /\ generation' \in [Docs -> Nat]
        /\ current' \in [Docs -> Ids \union {0}] /\ task' \in [Ids -> Tasks]
        /\ jobs' \in Seq(Ids)
    BY <2>2, <2>3, ScheduleStep DEF TypeOK
  <2>5. TypeOK'
    BY <1>1, <2>1, <2>4 DEF TypeOK, RunSchedule, client, work
  <2> QED
    BY <2>4, <2>5 DEF Scheduled
<1>2. ASSUME NEW i \in Ids, Start(i)
      PROVE  IInv'
  <2>1. task[i].at = "starting" /\ task[i].uri \in Docs /\ task[i] \in Tasks
    BY <1>2 DEF Start, Shape, TypeOK
  <2>2. CASE Superseded(i) \/ CacheHit(i)
    <3>1. Finish(i) /\ UNCHANGED <<generation, jobs, worker, step, view>>
      BY <1>2, <2>2 DEF Start, work
    <3>2. Scheduled' /\ current' \in [Docs -> Ids \union {0}] /\ task' \in [Ids -> Tasks]
      BY <2>1, <3>1, FinishStep
    <3>3. shown' \in [Docs -> Results]
      BY <1>2, <2>1, <2>2 DEF Start, TypeOK
    <3>4. TypeOK'
      BY <1>2, <2>2, <3>2, <3>3 DEF TypeOK, Start, client, work
    <3> QED
      BY <3>2, <3>4 DEF Scheduled
  <2>3. CASE ~(Superseded(i) \/ CacheHit(i))
    <3>1. /\ task' = [task EXCEPT ![i].at = "submitted"]
          /\ jobs' = Append(jobs, i)
          /\ UNCHANGED <<shown, current, client, docs, symbols, cache, generation, ready, work>>
      BY <1>2, <2>3 DEF Start
    <3>2. /\ LiveIsRegistered' /\ task' \in [Ids -> Tasks]
          /\ \A j \in Ids : task'[j].at # "free"
                               => task'[j].uri \in Docs /\ task'[j].source \in Texts
          /\ \A j \in Ids : task'[j].at = IF j = i THEN "submitted" ELSE task[j].at
      BY <2>1, <3>1, MoveStep DEF Live, LiveAt, Places
    <3>3. jobs' \in Seq(Ids) /\ jobs \in Seq(Ids)
      BY <3>1 DEF TypeOK
    <3>4. ~ \E n \in DOMAIN jobs : jobs[n] = i
      BY <2>1 DEF JobsMatchTasks
    <3>5. worker # i
      BY <2>1 DEF JobsMatchTasks
    <3>6. JobsMatchTasks'
      <4>1. /\ DOMAIN jobs' = DOMAIN jobs \union {Len(jobs) + 1}
            /\ \A n \in DOMAIN jobs : jobs'[n] = jobs[n]
            /\ jobs'[Len(jobs) + 1] = i
            /\ Len(jobs) + 1 \notin DOMAIN jobs
        BY <3>1, <3>3
      <4>2. \A n, k \in DOMAIN jobs' : jobs'[n] = jobs'[k] => n = k
        BY <3>4, <4>1 DEF JobsMatchTasks
      <4>3. ASSUME NEW j \in Ids
            PROVE  /\ task'[j].at = "submitted" <=> \E n \in DOMAIN jobs' : jobs'[n] = j
                   /\ task'[j].at \in {"running", "orphan"} <=> worker' = j
        <5>1. worker' = worker
          BY <3>1 DEF work
        <5>2. (\E n \in DOMAIN jobs' : jobs'[n] = j) <=> j = i \/ \E n \in DOMAIN jobs : jobs[n] = j
          BY <4>1
        <5>3. CASE j = i
          BY <3>2, <3>5, <5>1, <5>2, <5>3
        <5>4. CASE j # i
          BY <3>2, <5>1, <5>2, <5>4 DEF JobsMatchTasks
        <5> QED
          BY <5>3, <5>4
      <4> QED
        BY <4>2, <4>3 DEF JobsMatchTasks
    <3>7. Shape'
      BY <3>1, <3>2 DEF Shape, work
    <3>8. TypeOK'
      BY <3>1, <3>2, <3>3 DEF TypeOK, client, work
    <3> QED
      BY <3>2, <3>6, <3>7, <3>8
  <2> QED
    BY <2>2, <2>3
<1>3. ASSUME NEW i \in Ids, Resume(i)
      PROVE  IInv'
  <2>1. task[i].at = "computed" /\ task[i].uri \in Docs /\ None \in Results
    BY <1>3 DEF Resume, Shape, Results
  <2>2. Finish(i) /\ UNCHANGED <<generation, jobs, worker, step, view>>
    BY <1>3 DEF Resume
  <2>3. Scheduled' /\ current' \in [Docs -> Ids \union {0}] /\ task' \in [Ids -> Tasks]
    BY <2>1, <2>2, FinishStep
  <2>4. /\ cache' \in [Docs -> Results] /\ shown' \in [Docs -> Results]
        /\ result' \in [Ids -> Results]
    BY <1>3, <2>1 DEF Resume, TypeOK
  <2>5. TypeOK'
    BY <1>3, <2>3, <2>4 DEF TypeOK, Resume, client
  <2> QED
    BY <2>3, <2>5 DEF Scheduled
<1> QED
  BY <1>1, <1>2, <1>3 DEF Loop

(* The job ends: a cancelled one frees its task, any other is computed. *)
LEMMA ReturnStep ==
    ASSUME IInv, NEW r \in Results, worker # 0, WorkerReturns(r),
           docs' = docs, symbols' \in [Docs -> Results]
    PROVE  IInv'
<1> USE DEF IInv
<1>1. worker \in Ids /\ task[worker] \in Tasks /\ task[worker].at \in {"running", "orphan"}
  BY DEF TypeOK, JobsMatchTasks
<1>2. /\ worker' = 0 /\ step' = "idle" /\ view' = None /\ jobs' = jobs
      /\ current' = current /\ generation' = generation
  BY DEF WorkerReturns
<1>3. result' \in [Ids -> Results]
  BY DEF WorkerReturns, TypeOK
<1>4. /\ task' \in [Ids -> Tasks] /\ LiveIsRegistered' /\ JobsMatchTasks'
      /\ \A j \in Ids : task'[j].at # "free"
                           => task'[j].uri \in Docs /\ task'[j].source \in Texts
  <2>1. CASE task[worker].at = "running"
    <3>1. task' = [task EXCEPT ![worker].at = "computed"]
      BY <1>1, <2>1 DEF WorkerReturns
    <3>2. /\ LiveIsRegistered' /\ task' \in [Ids -> Tasks]
          /\ \A j \in Ids : task'[j].at # "free"
                               => task'[j].uri \in Docs /\ task'[j].source \in Texts
          /\ \A j \in Ids : task'[j].at = IF j = worker THEN "computed" ELSE task[j].at
      BY <1>1, <1>2, <2>1, <3>1, MoveStep DEF Live, LiveAt, Places
    <3>3. JobsMatchTasks'
      BY <1>1, <1>2, <3>2 DEF JobsMatchTasks, Ids
    <3> QED
      BY <3>2, <3>3
  <2>2. CASE task[worker].at = "orphan"
    <3>1. task' = [task EXCEPT ![worker] = Free]
      BY <1>1, <2>2 DEF WorkerReturns, TypeOK
    <3>2. \A j \in Ids : task'[j] = IF j = worker THEN Free ELSE task[j]
      BY <1>1, <3>1 DEF TypeOK
    <3>3. task' \in [Ids -> Tasks]
      BY <1>1, <3>1, FreeType DEF TypeOK
    <3>4. \A j \in Ids : Live(j)' <=> Live(j)
      BY <2>2, <3>2 DEF Live, Free
    <3>5. \A j \in Ids : Live(j) => task'[j] = task[j]
      BY <2>2, <3>2 DEF Live
    <3>6. LiveIsRegistered'
      <4>1. \A d \in Docs : current[d] # 0 => current[d] \in Ids
        BY DEF TypeOK
      <4>2. \A j \in Ids : task'[j].at \in LiveAt <=> task[j].at \in LiveAt
        BY <3>4 DEF Live, LiveAt
      <4> QED
        BY <1>2, <3>5, <4>1, <4>2 DEF LiveIsRegistered, Live, LiveAt
    <3>7. JobsMatchTasks'
      BY <1>1, <1>2, <2>2, <3>2 DEF JobsMatchTasks, Free, Ids
    <3>8. \A j \in Ids : task'[j].at # "free"
                            => task'[j].uri \in Docs /\ task'[j].source \in Texts
      BY <3>2 DEF Shape, Free
    <3> QED
      BY <3>3, <3>6, <3>7, <3>8
  <2> QED
    BY <1>1, <2>1, <2>2
<1>5. Shape'
  BY <1>2, <1>4 DEF Shape
<1>6. TypeOK'
  BY <1>2, <1>3, <1>4 DEF TypeOK, WorkerReturns, client
<1> QED
  BY <1>4, <1>5, <1>6

LEMMA WorkerStep ==
    ASSUME IInv, Worker
    PROVE  IInv'
<1> USE DEF IInv
<1>1. ASSUME WorkerTake
      PROVE  IInv'
  <2> DEFINE i == Head(jobs)
  <2>1. jobs # <<>> /\ jobs \in Seq(Ids) /\ worker = 0
    BY <1>1 DEF WorkerTake, TypeOK
  <2>2. i \in Ids /\ Tail(jobs) \in Seq(Ids)
    BY <2>1, HeadTailProperties
  <2>3. /\ 1 \in DOMAIN jobs /\ jobs[1] = i
        /\ Len(Tail(jobs)) = Len(jobs) - 1
        /\ \A n \in DOMAIN Tail(jobs) : Tail(jobs)[n] = jobs[n + 1] /\ n + 1 \in DOMAIN jobs
        /\ \A n \in DOMAIN jobs : n # 1 => n - 1 \in DOMAIN Tail(jobs)
    BY <2>1
  <2>4. /\ worker' = i /\ jobs' = Tail(jobs) /\ step' = "taken"
        /\ task' = [task EXCEPT ![i].at = "running"]
        /\ UNCHANGED <<client, shown, docs, symbols, cache, generation, current, ready, view,
                       result>>
    BY <1>1 DEF WorkerTake
  <2>5. task[i].at = "submitted"
    BY <2>2, <2>3 DEF JobsMatchTasks
  <2> HIDE DEF i
  <2>6. /\ LiveIsRegistered' /\ task' \in [Ids -> Tasks]
        /\ \A j \in Ids : task'[j].at # "free"
                             => task'[j].uri \in Docs /\ task'[j].source \in Texts
        /\ \A j \in Ids : task'[j].at = IF j = i THEN "running" ELSE task[j].at
    BY <2>2, <2>4, <2>5, MoveStep DEF Live, LiveAt, Places
  <2>7. \A n, k \in DOMAIN jobs' : jobs'[n] = jobs'[k] => n = k
    <3> SUFFICES ASSUME NEW n \in DOMAIN jobs', NEW k \in DOMAIN jobs', jobs'[n] = jobs'[k]
                 PROVE  n = k
      OBVIOUS
    <3>1. /\ n + 1 \in DOMAIN jobs /\ k + 1 \in DOMAIN jobs
          /\ jobs[n + 1] = jobs[k + 1]
      BY <2>3, <2>4
    <3>2. n + 1 = k + 1
      BY <3>1 DEF JobsMatchTasks
    <3>3. n \in Nat /\ k \in Nat
      BY <2>2, <2>4
    <3> QED
      BY <3>2, <3>3
  <2>8. \A j : (\E n \in DOMAIN jobs' : jobs'[n] = j) <=> j # i /\ \E n \in DOMAIN jobs : jobs[n] = j
    <3>1. ASSUME NEW n \in DOMAIN jobs'
          PROVE  jobs'[n] # i /\ \E k \in DOMAIN jobs : jobs[k] = jobs'[n]
      <4>1. n \in Nat /\ n # 0 /\ n + 1 \in DOMAIN jobs /\ jobs'[n] = jobs[n + 1]
        BY <2>2, <2>3, <2>4
      <4>2. n + 1 # 1
        BY <4>1
      <4> QED
        BY <2>3, <4>1, <4>2 DEF JobsMatchTasks
    <3>2. ASSUME NEW n \in DOMAIN jobs, jobs[n] # i
          PROVE  \E k \in DOMAIN jobs' : jobs'[k] = jobs[n]
      <4>1. n # 1 /\ n \in Nat
        BY <2>1, <2>3, <3>2
      <4>2. n - 1 \in DOMAIN jobs' /\ jobs'[n - 1] = jobs[n]
        BY <2>3, <2>4, <4>1
      <4> QED
        BY <4>2
    <3> QED
      BY <3>1, <3>2, Zenon
  <2>9. JobsMatchTasks'
    <3>1. ASSUME NEW j \in Ids
          PROVE  /\ task'[j].at = "submitted" <=> \E n \in DOMAIN jobs' : jobs'[n] = j
                 /\ task'[j].at \in {"running", "orphan"} <=> worker' = j
      <4>1. CASE j = i
        <5>1. ~ \E n \in DOMAIN jobs' : jobs'[n] = j
          BY <2>8, <4>1, Zenon
        <5> QED
          BY <2>4, <2>6, <4>1, <5>1
      <4>2. CASE j # i
        <5>1. (\E n \in DOMAIN jobs' : jobs'[n] = j) <=> \E n \in DOMAIN jobs : jobs[n] = j
          BY <2>8, <4>2, Zenon
        <5>2. worker # j
          BY <2>1 DEF Ids
        <5> QED
          BY <2>4, <2>6, <4>2, <5>1, <5>2 DEF JobsMatchTasks
      <4> QED
        BY <4>1, <4>2
    <3> QED
      BY <2>7, <3>1 DEF JobsMatchTasks
  <2>10. Shape'
    BY <2>2, <2>4, <2>6 DEF Shape, Ids
  <2>11. TypeOK'
    BY <2>2, <2>4, <2>6 DEF TypeOK, client
  <2> QED
    BY <2>6, <2>9, <2>10, <2>11
\* the steps that leave the tasks and the queue alone
<1>2. ASSUME WorkerBuffer \/ WorkerGoesOn \/ WorkerSnapshot \/ WorkerChecked
      PROVE  IInv'
  <2>1. worker # 0 /\ UNCHANGED <<generation, current, task, jobs, worker>>
    BY <1>2 DEF WorkerBuffer, WorkerGoesOn, WorkerSnapshot, WorkerChecked, Shape
  <2>2. worker \in Ids /\ task[worker].at \in {"running", "orphan"}
    BY <2>1 DEF TypeOK, JobsMatchTasks
  <2>3. task[worker].uri \in Docs /\ task[worker].source \in Texts
    BY <2>2 DEF Shape
  <2>4. LiveIsRegistered' /\ JobsMatchTasks'
    BY <2>1 DEF LiveIsRegistered, Live, JobsMatchTasks
  <2>5. CASE WorkerBuffer
    <3>1. TypeOK'
      BY <2>3, <2>5 DEF TypeOK, WorkerBuffer, client
    <3>2. Shape'
      BY <2>1, <2>5 DEF Shape, WorkerBuffer
    <3> QED
      BY <2>4, <3>1, <3>2
  <2>6. CASE WorkerGoesOn
    <3>1. TypeOK'
      BY <2>6 DEF TypeOK, WorkerGoesOn, client
    <3>2. Shape'
      BY <2>1, <2>6 DEF Shape, WorkerGoesOn
    <3> QED
      BY <2>4, <3>1, <3>2
  <2>7. CASE WorkerSnapshot
    <3>1. view' \in [Docs -> Texts]
      BY <2>7, OverlayType DEF WorkerSnapshot
    <3>2. TypeOK'
      BY <2>7, <3>1 DEF TypeOK, WorkerSnapshot, client
    <3>4. Shape'
      BY <2>1, <2>7, <3>1 DEF Shape, WorkerSnapshot
    <3> QED
      BY <2>4, <3>2, <3>4
  <2>8. CASE WorkerChecked
    <3>1. TypeOK'
      BY <2>8 DEF TypeOK, WorkerChecked, client
    <3>2. Shape'
      BY <2>1, <2>8 DEF Shape, WorkerChecked
    <3> QED
      BY <2>4, <3>1, <3>2
  <2> QED
    BY <1>2, <2>5, <2>6, <2>7, <2>8
<1>3. ASSUME WorkerAbort \/ WorkerStore \/ WorkerCrash
      PROVE  IInv'
  <2>1. worker # 0
    BY <1>3 DEF WorkerAbort, WorkerStore, WorkerCrash, Shape
  <2>2. worker \in Ids /\ task[worker].at \in {"running", "orphan"}
    BY <2>1 DEF TypeOK, JobsMatchTasks
  <2>3. task[worker].uri \in Docs /\ task[worker].source \in Texts
    BY <2>2 DEF Shape
  <2>4. step # "idle" /\ (step \in {"checking", "store"} => Outcome \in Results)
    <3>1. step \in {"checking", "store"} => view \in [Docs -> Texts]
      BY DEF Shape, TypeOK
    <3> QED
      BY <1>3, <2>3, <3>1, CheckType DEF Outcome, WorkerAbort, WorkerStore, WorkerCrash
  <2>5. CASE WorkerAbort
    <3>1. None \in Results /\ symbols \in [Docs -> Results]
      BY DEF Results, TypeOK
    <3> QED
      BY <2>1, <2>5, <3>1, ReturnStep DEF WorkerAbort
  <2>6. CASE WorkerStore
    <3>1. symbols' \in [Docs -> Results] /\ Outcome \in Results
      BY <2>3, <2>4, <2>6 DEF WorkerStore, TypeOK
    <3> QED
      BY <2>1, <2>6, <3>1, ReturnStep DEF WorkerStore
  <2>7. CASE WorkerCrash
    <3>1. symbols' \in [Docs -> Results] /\ Outcome \in Results
      BY <2>4, <2>7 DEF WorkerCrash, TypeOK
    <3> QED
      BY <2>1, <2>7, <3>1, ReturnStep DEF WorkerCrash
  <2> QED
    BY <1>3, <2>5, <2>6, <2>7
<1> QED
  BY <1>1, <1>2, <1>3 DEF Worker

LEMMA InvariantStep == IInv /\ [Next]_vars => IInv'
<1> SUFFICES ASSUME IInv, [Next]_vars
             PROVE  IInv'
  OBVIOUS
<1>1. CASE Client
  BY <1>1, ClientStep
<1>2. CASE Watcher
  BY <1>2, WatcherStep
<1>3. CASE Loop
  BY <1>3, LoopStep
<1>4. CASE Worker
  BY <1>4, WorkerStep
<1>5. CASE UNCHANGED vars
  <2>1. TypeOK'
    BY <1>5 DEF IInv, TypeOK, vars
  <2>2. Scheduled'
    BY <1>5 DEF IInv, vars, Scheduled, Shape, LiveIsRegistered, Live, JobsMatchTasks
  <2> QED
    BY <2>1, <2>2 DEF IInv, Scheduled
<1> QED
  BY <1>1, <1>2, <1>3, <1>4, <1>5 DEF Next

THEOREM InductiveInvariant == Spec => []IInv
  BY InitIInv, InvariantStep, PTL DEF Spec

(* Every variable of the server keeps its type. *)
THEOREM LspTypeCorrect == Spec => []TypeOK
<1>1. IInv => TypeOK
  BY DEF IInv
<1> QED
  BY <1>1, InductiveInvariant, PTL

(* Two runs that may both publish for one document never exist: a task     *)
(* that was not cancelled is the registered one and has the generation of  *)
(* its document.  So on the loop the superseded() tests of                 *)
(* _run_validation never find anything (pengu_lsp/server.py).              *)
THEOREM LspRegistration == Spec => []LiveIsRegistered
<1>1. IInv => LiveIsRegistered
  BY DEF IInv
<1> QED
  BY <1>1, InductiveInvariant, PTL

(* Cancelling and running never lose or repeat a job of the executor. *)
THEOREM LspJobs == Spec => []JobsMatchTasks
<1>1. IInv => JobsMatchTasks
  BY DEF IInv
<1> QED
  BY <1>1, InductiveInvariant, PTL

(* Runs do not pile up: at most one per document, and one cancelled job    *)
(* that the worker is still finishing.                                     *)
THEOREM LspTasksBounded == Spec => []TasksBounded
<1>1. ASSUME IInv
      PROVE  TasksBounded
  <2> DEFINE L == {i \in Ids : Live(i)}
             f == [i \in L |-> task[i].uri]
             busy == {i \in Ids : task[i].at # "free"}
  <2>1. f \in Injection(L, Docs)
    <3>1. f \in [L -> Docs]
      BY <1>1 DEF IInv, LiveIsRegistered
    <3>2. \A i, j \in L : f[i] = f[j] => i = j
      BY <1>1 DEF IInv, LiveIsRegistered
    <3> QED
      BY <3>1, <3>2 DEF Injection, IsInjective
  <2>2. busy \subseteq L \union {worker}
    BY <1>1 DEF IInv, JobsMatchTasks, Live, TypeOK, Tasks, Places
  <2> HIDE DEF L, f, busy
  <2>3. IsFiniteSet(Docs) /\ Cardinality(Docs) \in Nat
    BY LspAssumption, FS_CardinalityType
  <2>4. IsFiniteSet(L) /\ Cardinality(L) <= Cardinality(Docs) /\ Cardinality(L) \in Nat
    BY <2>1, <2>3, FS_Injection, FS_CardinalityType
  <2>5. /\ IsFiniteSet(L \union {worker})
        /\ Cardinality(L \union {worker}) <= Cardinality(Docs) + 1
        /\ Cardinality(L \union {worker}) \in Nat
    <3>1. /\ IsFiniteSet(L \union {worker})
          /\ Cardinality(L \union {worker}) =
                IF worker \in L THEN Cardinality(L) ELSE Cardinality(L) + 1
      BY <2>4, FS_AddElement
    <3> QED
      BY <2>3, <2>4, <3>1
  <2>6. Cardinality(busy) <= Cardinality(L \union {worker}) /\ Cardinality(busy) \in Nat
    BY <2>2, <2>5, FS_Subset, FS_CardinalityType
  <2>7. Cardinality(busy) <= Cardinality(Docs) + 1
    BY <2>3, <2>5, <2>6
  <2> QED
    BY <2>7 DEF TasksBounded, busy
<1> QED
  BY <1>1, InductiveInvariant, PTL

-----------------------------------------------------------------------------
(* What a cancellation may do to a task. *)
Spared(i) ==
    \/ task'[i] = task[i]
    \/ task'[i] = Free
    \/ /\ task[i].at = "running" /\ task'[i].at = "orphan"
       /\ task'[i].uri = task[i].uri /\ task'[i].source = task[i].source

(* The tasks after _schedule_validation: the new one, and those of before, *)
(* of which only the run of the document was cancelled.                    *)
LEMMA ScheduleTasks ==
    ASSUME IInv, NEW d \in Docs, NEW s \in Texts, NEW buffers, Schedule(d, s, buffers)
    PROVE  /\ current'[d] \in Ids
           /\ task'[current'[d]] = [uri |-> d, source |-> s, gen |-> generation[d] + 1,
                                    at |-> "starting"]
           /\ \A i \in Ids \ {current'[d]} : Spared(i)
           /\ \A x \in Docs \ {d} :
                 /\ current'[x] = current[x]
                 /\ current[x] # 0 => task'[current[x]] = task[current[x]]
<1> USE DEF IInv
<1> DEFINE left == Cancelled(current[d])
           new == CHOOSE i \in Ids : left[i].at = "free"
           fresh == [uri |-> d, source |-> s, gen |-> generation[d] + 1, at |-> "starting"]
<1>1. /\ left \in [Ids -> Tasks]
      /\ \A i \in Ids : i # current[d] => left[i] = task[i]
      /\ current[d] # 0 => left[current[d]] =
            IF worker = current[d] THEN [task[current[d]] EXCEPT !.at = "orphan"] ELSE Free
  BY CancelledFacts
<1>2. new \in Ids /\ left[new].at = "free"
  BY DEF Schedule
<1>3. /\ task' = [left EXCEPT ![new] = fresh]
      /\ current' = [current EXCEPT ![d] = new]
  BY DEF Schedule
<1> HIDE DEF left, new
<1>4. current'[d] = new /\ \A x \in Docs \ {d} : current'[x] = current[x]
  BY <1>3 DEF TypeOK
<1>5. task'[new] = fresh /\ \A i \in Ids \ {new} : task'[i] = left[i]
  BY <1>1, <1>2, <1>3
<1>6. ASSUME NEW i \in Ids \ {new}
      PROVE  Spared(i)
  <2>1. CASE i # current[d]
    BY <1>1, <1>5, <2>1 DEF Spared
  <2>2. CASE i = current[d] /\ worker # i
    BY <1>1, <1>5, <2>2 DEF Ids, Spared
  <2>3. CASE i = current[d] /\ worker = i
    <3>1. Live(i) /\ task[i].at \in {"running", "orphan"} /\ i # 0
      BY <2>3 DEF Ids, LiveIsRegistered, JobsMatchTasks
    <3>2. task[i].at = "running"
      BY <3>1 DEF Live
    <3>3. task[i] \in Tasks /\ task'[i] = [task[i] EXCEPT !.at = "orphan"]
      BY <1>1, <1>5, <2>3, <3>1 DEF TypeOK
    <3> QED
      BY <3>2, <3>3 DEF Spared, Tasks
  <2> QED
    BY <2>1, <2>2, <2>3
<1>7. ASSUME NEW x \in Docs \ {d}, current[x] # 0
      PROVE  task'[current[x]] = task[current[x]]
  <2>1. current[x] \in Ids /\ Live(current[x]) /\ task[current[x]].uri = x
    BY <1>7 DEF TypeOK, LiveIsRegistered
  <2>2. current[x] # current[d]
    BY <1>7, <2>1 DEF LiveIsRegistered, Ids
  <2>3. current[x] # new
    BY <1>1, <1>2, <2>1, <2>2 DEF Live
  <2> QED
    BY <1>1, <1>5, <2>1, <2>2, <2>3
<1> QED
  BY <1>2, <1>4, <1>5, <1>6, <1>7

(* The tasks after didClose. *)
LEMMA CloseTasks ==
    ASSUME IInv, NEW d \in Docs, task' = Cancelled(current[d]),
           current' = [current EXCEPT ![d] = 0]
    PROVE  /\ current'[d] = 0
           /\ \A i \in Ids : Spared(i)
           /\ \A x \in Docs \ {d} :
                 /\ current'[x] = current[x]
                 /\ current[x] # 0 => task'[current[x]] = task[current[x]]
<1> USE DEF IInv
<1>1. /\ \A i \in Ids : i # current[d] => task'[i] = task[i]
      /\ current[d] # 0 => task'[current[d]] =
            IF worker = current[d] THEN [task[current[d]] EXCEPT !.at = "orphan"] ELSE Free
  BY CancelledFacts
<1>2. current'[d] = 0 /\ \A x \in Docs \ {d} : current'[x] = current[x]
  BY DEF TypeOK
<1>3. ASSUME NEW i \in Ids
      PROVE  Spared(i)
  <2>1. CASE i # current[d]
    BY <1>1, <2>1 DEF Spared
  <2>2. CASE i = current[d] /\ worker # i
    BY <1>1, <2>2 DEF Ids, Spared
  <2>3. CASE i = current[d] /\ worker = i
    <3>1. Live(i) /\ task[i].at \in {"running", "orphan"} /\ i # 0
      BY <2>3 DEF Ids, LiveIsRegistered, JobsMatchTasks
    <3>2. task[i].at = "running"
      BY <3>1 DEF Live
    <3>3. task[i] \in Tasks /\ task'[i] = [task[i] EXCEPT !.at = "orphan"]
      BY <1>1, <2>3, <3>1 DEF TypeOK
    <3> QED
      BY <3>2, <3>3 DEF Spared, Tasks
  <2> QED
    BY <2>1, <2>2, <2>3
<1>4. ASSUME NEW x \in Docs \ {d}, current[x] # 0
      PROVE  task'[current[x]] = task[current[x]]
  <2>1. current[x] \in Ids /\ Live(current[x]) /\ task[current[x]].uri = x
    BY <1>4 DEF TypeOK, LiveIsRegistered
  <2>2. current[x] # current[d]
    BY <1>4, <2>1 DEF LiveIsRegistered, Ids
  <2> QED
    BY <1>1, <2>1, <2>2
<1> QED
  BY <1>2, <1>3, <1>4

(* A task that was not cancelled is not superseded, and the worker runs a  *)
(* task or the job of a cancelled one.                                     *)
LEMMA LiveGoesOn ==
    ASSUME IInv
    PROVE  /\ \A i \in Ids : Live(i) => ~Superseded(i)
           /\ step # "idle" => worker \in Ids /\ task[worker].at \in {"running", "orphan"}
                               /\ task[worker].uri \in Docs /\ task[worker].source \in Texts
<1>1. \A i \in Ids : Live(i) => ~Superseded(i)
  BY DEF IInv, LiveIsRegistered, Superseded
<1>2. ASSUME step # "idle"
      PROVE  worker \in Ids /\ task[worker].at \in {"running", "orphan"}
  BY <1>2 DEF IInv, TypeOK, Shape, JobsMatchTasks
<1> QED
  BY <1>1, <1>2 DEF IInv, Shape

-----------------------------------------------------------------------------
(* Typing only.  A client whose notifications are handled one by one, that *)
(* opens, changes and closes documents which import nothing, may do so at  *)
(* any moment of a validation.                                             *)
Typing == {"open", "openDirty", "change", "close", "closeDirty"}

OnlyTypes ==
    /\ Ops \subseteq Typing
    /\ ~Batched
    /\ \A s \in Texts : ImportsOf[s] = {}

ShowsText(d) == shown[d] # None /\ shown[d].text = editor[d]

(* Whatever the worker is doing, the last text of a document is on its way *)
(* or shown: it waits in the one queued call, or the registered run has    *)
(* it, or there is no run and the diagnostics are there.                   *)
OnItsWay(d) ==
    \/ ready # <<>> /\ ready[1].uri = d
    \/ IF current[d] # 0 THEN task[current[d]].source = editor[d] ELSE ShowsText(d)

TextInv ==
    /\ fileEvents = {}
    /\ \A d \in Docs : symbols[d] # None => DOMAIN symbols[d].deps = {}
    /\ ready # <<>> => Len(ready) = 1 /\ ready[1].source = editor[ready[1].uri]
    /\ \A i \in Ids : task[i].at = "computed"
                         => result[i] # None /\ result[i].text = task[i].source
    /\ \A d \in Docs : Validated(d) => OnItsWay(d)

LEMMA NothingReached ==
    ASSUME OnlyTypes, NEW d \in Docs, NEW s \in Texts, NEW v \in [Docs -> Texts]
    PROVE  DOMAIN Check(d, s, v).deps = {}
<1>1. Reached(d, s, v) = {}
  BY DEF Reached, OnlyTypes
<1> QED
  BY <1>1 DEF Check

LEMMA GatheredLength ==
    ASSUME NEW ds \in SUBSET Docs, NEW buffers, NEW q \in Gathered(ds, buffers)
    PROVE  /\ Len(q) = Cardinality(ds) /\ Cardinality(ds) \in Nat
           /\ \A k \in 1 .. Len(q) : q[k].uri \in ds /\ q[k].source = buffers[q[k].uri]
           /\ \A d \in ds : \E k \in 1 .. Len(q) : q[k].uri = d
<1>1. IsFiniteSet(ds) /\ Cardinality(ds) \in Nat
  BY LspAssumption, FS_Subset, FS_CardinalityType
<1>2. /\ q \in [1 .. Cardinality(ds) -> [uri : ds, source : Texts]]
      /\ {q[k].uri : k \in DOMAIN q} = ds
      /\ \A k \in DOMAIN q : q[k].source = buffers[q[k].uri]
  BY DEF Gathered
<1>3. q \in Seq([uri : ds, source : Texts]) /\ Len(q) = Cardinality(ds)
  <2>1. q \in UNION {[1 .. n -> [uri : ds, source : Texts]] : n \in Nat}
    BY <1>1, <1>2
  <2>2. q \in Seq([uri : ds, source : Texts])
    BY <2>1, SeqDef
  <2>3. /\ DOMAIN q = 1 .. Cardinality(ds) /\ DOMAIN q = 1 .. Len(q)
        /\ Len(q) \in Nat /\ Cardinality(ds) \in Nat
    BY <1>1, <1>2, <2>2, LenProperties
  <2> QED
    BY <2>2, <2>3
<1> QED
  BY <1>1, <1>2, <1>3

(* The invariant survives what touches neither a document nor its run. *)
LEMMA TextKept ==
    ASSUME TextInv, UNCHANGED <<editor, fileEvents, shown, symbols, ready, current, result>>,
           \A i \in Ids : task'[i].source = task[i].source /\
                          (task'[i].at = "computed" => task[i].at = "computed"),
           TypeOK
    PROVE  TextInv'
<1>1. \A d \in Docs : Validated(d)' => OnItsWay(d)'
  BY DEF TextInv, Validated, OnItsWay, ShowsText, TypeOK
<1> QED
  BY <1>1 DEF TextInv

LEMMA TextInit == OnlyTypes /\ Init => TextInv
  BY DEF Init, TextInv, Free, Validated

(* A document is given to a new run, the editor showing its text. *)
LEMMA TextScheduled ==
    ASSUME IInv, TextInv, NEW d \in Docs, NEW s \in Texts, NEW buffers,
           Schedule(d, s, buffers), editor' = [editor EXCEPT ![d] = s],
           UNCHANGED <<fileEvents, shown, symbols, result>>,
           ready' = <<>>,
           \A x \in Docs \ {d} : ready # <<>> => ready[1].uri # x
    PROVE  TextInv'
<1> USE DEF IInv
<1>1. /\ current'[d] \in Ids
      /\ task'[current'[d]] = [uri |-> d, source |-> s, gen |-> generation[d] + 1,
                               at |-> "starting"]
      /\ \A i \in Ids \ {current'[d]} : Spared(i)
      /\ \A x \in Docs \ {d} :
            /\ current'[x] = current[x]
            /\ current[x] # 0 => task'[current[x]] = task[current[x]]
  BY ScheduleTasks
<1>2. ASSUME NEW i \in Ids, task'[i].at = "computed"
      PROVE  task'[i] = task[i]
  <2>1. i # current'[d]
    BY <1>1, <1>2
  <2> QED
    BY <1>1, <1>2, <2>1 DEF Free, Spared
<1>3. ASSUME NEW x \in Docs, Validated(x)'
      PROVE  OnItsWay(x)'
  <2>1. CASE x = d
    BY <1>1, <2>1 DEF OnItsWay, Ids, TypeOK
  <2>2. CASE x # d
    BY <1>1, <1>3, <2>2 DEF TextInv, OnItsWay, Validated, ShowsText, TypeOK
  <2> QED
    BY <2>1, <2>2
<1> QED
  BY <1>2, <1>3 DEF TextInv

LEMMA TextClientStep ==
    ASSUME OnlyTypes, IInv, TextInv, Client
    PROVE  TextInv'
<1> USE DEF IInv
<1>0. TypeOK
  OBVIOUS
<1>1. ASSUME NEW d \in Docs, NEW s \in TextsOf[d], DidOpen(d, s)
      PROVE  TextInv'
  <2>1. s \in Texts /\ ready = <<>> /\ editor' = [editor EXCEPT ![d] = s]
    BY <1>1, TextType DEF DidOpen, Act, Received, OnlyTypes
  <2>2. CASE s = Empty
    BY <1>0, <1>1, <2>1, <2>2
       DEF DidOpen, work, TextInv, OnItsWay, Validated, ShowsText, TypeOK
  <2>3. CASE s # Empty
    BY <1>1, <2>1, <2>3, TextScheduled DEF DidOpen, work
  <2> QED
    BY <2>2, <2>3
<1>2. ASSUME NEW d \in Docs, NEW s \in TextsOf[d], DidChange(d, s)
      PROVE  TextInv'
  <2>1. s \in Texts /\ ready = <<>> /\ editor' = [editor EXCEPT ![d] = s]
    BY <1>2, TextType DEF DidChange, Act, Received, OnlyTypes
  <2>2. CASE s = Empty
    BY <1>0, <1>2, <2>1, <2>2
       DEF DidChange, work, TextInv, OnItsWay, Validated, ShowsText, TypeOK
  <2>3. CASE s # Empty
    <3>1. DependentOpenUris(d) = {}
      BY DEF DependentOpenUris, DependencyPaths, TextInv
    <3>2. PICK q \in Gathered({}, [docs EXCEPT ![d] = s]) :
             ready' = ready \o <<[uri |-> d, source |-> s]>> \o q
      BY <1>2, <2>3, <3>1 DEF DidChange
    <3>3. Len(q) = 0 /\ q \in Seq([uri : Docs, source : Texts])
      BY <3>2, GatheredLength, GatheredType, FS_EmptySet
    <3>4. ready' = <<[uri |-> d, source |-> s]>>
      BY <2>1, <3>2, <3>3
    <3>5. Len(ready') = 1 /\ ready'[1] = [uri |-> d, source |-> s] /\ ready' # <<>>
      BY <3>4
    <3>6. /\ editor'[d] = s /\ \A x \in Docs \ {d} : editor'[x] = editor[x]
          /\ UNCHANGED <<fileEvents, shown, symbols, current, task, result>>
      BY <1>0, <1>2, <2>1 DEF DidChange, work, TypeOK
    <3>7. ASSUME NEW x \in Docs, Validated(x)'
          PROVE  OnItsWay(x)'
      <4>1. CASE x = d
        BY <3>5, <4>1 DEF OnItsWay
      <4>2. CASE x # d
        BY <2>1, <3>6, <3>7, <4>2 DEF TextInv, OnItsWay, Validated, ShowsText
      <4> QED
        BY <4>1, <4>2
    <3> QED
      BY <3>5, <3>6, <3>7 DEF TextInv
  <2> QED
    BY <2>2, <2>3
<1>3. ASSUME NEW d \in Docs, DidClose(d)
      PROVE  TextInv'
  <2>1. /\ ready = <<>> /\ ready' = ready
        /\ editor'[d] = None /\ \A x \in Docs \ {d} : editor'[x] = editor[x]
        /\ symbols'[d] = None /\ \A x \in Docs \ {d} : symbols'[x] = symbols[x]
        /\ UNCHANGED <<fileEvents, shown, result>>
    BY <1>0, <1>3 DEF DidClose, Act, Received, OnlyTypes, TypeOK, work
  <2>2. /\ \A i \in Ids : Spared(i)
        /\ \A x \in Docs \ {d} :
            /\ current'[x] = current[x]
            /\ current[x] # 0 => task'[current[x]] = task[current[x]]
    BY <1>3, CloseTasks DEF DidClose
  <2>3. ASSUME NEW i \in Ids, task'[i].at = "computed"
        PROVE  task'[i] = task[i]
    BY <2>2, <2>3 DEF Free, Spared
  <2>4. ASSUME NEW x \in Docs, Validated(x)'
        PROVE  OnItsWay(x)'
    <3>1. x # d
      BY <2>1, <2>4 DEF Validated
    <3> QED
      BY <2>1, <2>2, <2>4, <3>1 DEF TextInv, OnItsWay, Validated, ShowsText
  <2>5. \A x \in Docs : symbols'[x] # None => DOMAIN symbols'[x].deps = {}
    BY <2>1 DEF TextInv
  <2> QED
    BY <2>1, <2>3, <2>4, <2>5 DEF TextInv
<1>4. ASSUME NEW d \in Docs, NEW s \in TextsOf[d], ExternalWrite(d, s)
      PROVE  FALSE
  BY <1>4 DEF ExternalWrite, Act, OnlyTypes, Typing
<1>5. ASSUME NEW d \in Docs, DidSave(d)
      PROVE  FALSE
  BY <1>5 DEF DidSave, Act, OnlyTypes, Typing
<1>6. ASSUME DidChangeConfiguration
      PROVE  FALSE
  BY <1>6 DEF DidChangeConfiguration, Act, OnlyTypes, Typing
<1> QED
  BY <1>1, <1>2, <1>3, <1>4, <1>5, <1>6 DEF Client

(* A run publishes what it found for its text, and is over. *)
LEMMA TextFinished ==
    ASSUME IInv, TextInv, NEW i \in Ids, task[i].at \in {"starting", "computed"}, Finish(i),
           NEW r, r # None, r.text = task[i].source,
           shown' = [shown EXCEPT ![task[i].uri] = r],
           \A j \in Ids \ {i} : result'[j] = result[j],
           UNCHANGED <<editor, fileEvents, symbols, ready>>
    PROVE  TextInv'
<1> USE DEF IInv
<1>1. /\ task[i].uri \in Docs /\ current[task[i].uri] = i
      /\ current'[task[i].uri] = 0
      /\ \A x \in Docs \ {task[i].uri} : current'[x] = current[x]
      /\ \A j \in Ids \ {i} : task'[j] = task[j]
      /\ task'[i] = Free
  BY DEF Finish, LiveIsRegistered, Live, TypeOK
<1>2. ASSUME NEW x \in Docs, Validated(x)'
      PROVE  OnItsWay(x)'
  <2>1. Validated(x) /\ OnItsWay(x)
    BY <1>2 DEF Validated, TextInv
  <2>2. CASE x = task[i].uri
    <3>1. shown'[x] = r
      BY <1>1, <2>2 DEF TypeOK
    <3> QED
      BY <1>1, <2>1, <2>2, <3>1 DEF OnItsWay, ShowsText, Ids
  <2>3. CASE x # task[i].uri
    <3>1. shown'[x] = shown[x] /\ current'[x] = current[x]
      BY <1>1, <2>3 DEF TypeOK
    <3>2. current[x] # 0 => current[x] \in Ids \ {i}
      BY <1>1, <2>3 DEF LiveIsRegistered, TypeOK
    <3> QED
      BY <1>1, <2>1, <3>1, <3>2 DEF OnItsWay, ShowsText
  <2> QED
    BY <2>2, <2>3
<1> QED
  BY <1>1, <1>2 DEF TextInv, Free

LEMMA TextLoopStep ==
    ASSUME OnlyTypes, IInv, TextInv, Loop
    PROVE  TextInv'
<1> USE DEF IInv
<1>1. ASSUME RunSchedule
      PROVE  TextInv'
  <2> DEFINE r == Head(ready)
  <2>0. ready # <<>> /\ ready \in Seq([uri : Docs, source : Texts])
    BY <1>1 DEF RunSchedule, TypeOK
  <2>1. /\ Len(ready) = 1 /\ ready[1] = r
        /\ r \in [uri : Docs, source : Texts] /\ r.source = editor[r.uri]
    <3>1. Len(ready) = 1 /\ ready[1].source = editor[ready[1].uri]
      BY <2>0 DEF TextInv
    <3>2. ready[1] = r
      BY <2>0
    <3>3. r \in [uri : Docs, source : Texts]
      BY <2>0, HeadTailProperties
    <3> QED
      BY <3>1, <3>2, <3>3
  <2>2. ready' = <<>>
    <3>1. ready' = Tail(ready)
      BY <1>1 DEF RunSchedule
    <3> QED
      BY <2>0, <2>1, <3>1
  <2>3. Schedule(r.uri, r.source, docs) /\ UNCHANGED <<fileEvents, shown, symbols, result>>
        /\ editor' = editor
    BY <1>1 DEF RunSchedule, client, work
  <2>4. editor' = [editor EXCEPT ![r.uri] = r.source]
    BY <2>1, <2>3 DEF TypeOK
  <2> HIDE DEF r
  <2> QED
    BY <2>1, <2>2, <2>3, <2>4, TextScheduled
<1>2. ASSUME NEW i \in Ids, Start(i)
      PROVE  TextInv'
  <2>1. task[i].at = "starting" /\ ~Superseded(i) /\ task[i] \in Tasks
    BY <1>2, LiveGoesOn DEF Start, Live, TypeOK
  <2>2. CASE CacheHit(i)
    <3>1. /\ Finish(i) /\ shown' = [shown EXCEPT ![task[i].uri] = cache[task[i].uri]]
          /\ UNCHANGED <<editor, fileEvents, symbols, ready, result>>
      BY <1>2, <2>1, <2>2 DEF Start, client, work
    <3>2. cache[task[i].uri] # None /\ cache[task[i].uri].text = task[i].source
      BY <2>2 DEF CacheHit
    <3> QED
      BY <2>1, <3>1, <3>2, TextFinished
  <2>3. CASE ~CacheHit(i)
    <3>1. /\ task' = [task EXCEPT ![i].at = "submitted"]
          /\ UNCHANGED <<editor, fileEvents, shown, symbols, ready, current, result>>
      BY <1>2, <2>1, <2>3 DEF Start, client, work
    <3>2. \A j \in Ids : task'[j].source = task[j].source
                         /\ (task'[j].at = "computed" => task[j].at = "computed")
      BY <2>1, <3>1 DEF TypeOK, Tasks
    <3> QED
      BY <3>1, <3>2, TextKept
  <2> QED
    BY <2>2, <2>3
<1>3. ASSUME NEW i \in Ids, Resume(i)
      PROVE  TextInv'
  <2>1. task[i].at = "computed" /\ ~Superseded(i)
    BY <1>3, LiveGoesOn DEF Resume, Live
  <2>2. result[i] # None /\ result[i].text = task[i].source
    BY <2>1 DEF TextInv
  <2>3. /\ Finish(i) /\ shown' = [shown EXCEPT ![task[i].uri] = result[i]]
        /\ UNCHANGED <<editor, fileEvents, symbols, ready>>
        /\ result' = [result EXCEPT ![i] = None]
    BY <1>3, <2>1, <2>2 DEF Resume, client
  <2>4. \A j \in Ids \ {i} : result'[j] = result[j]
    BY <2>3 DEF TypeOK
  <2> QED
    BY <2>1, <2>2, <2>3, <2>4, TextFinished
<1> QED
  BY <1>1, <1>2, <1>3 DEF Loop

(* The worker hands a result over: it is about the text of the task. *)
LEMMA TextReturned ==
    ASSUME IInv, TextInv, step # "idle", NEW r, WorkerReturns(r),
           task[worker].at = "running" => r # None /\ r.text = task[worker].source,
           \A d \in Docs : symbols'[d] # None => DOMAIN symbols'[d].deps = {}
    PROVE  TextInv'
<1> USE DEF IInv
<1>1. /\ worker \in Ids /\ task[worker] \in Tasks
      /\ task[worker].at \in {"running", "orphan"}
  BY LiveGoesOn DEF TypeOK
<1>2. UNCHANGED <<editor, fileEvents, shown, ready, current>>
  BY DEF WorkerReturns, client
<1>3. /\ task[worker].at = "running"
         => /\ task'[worker].at = "computed" /\ task'[worker].source = task[worker].source
            /\ result'[worker] = r
      /\ task[worker].at = "orphan" => task'[worker] = Free
      /\ \A j \in Ids \ {worker} : task'[j] = task[j] /\ result'[j] = result[j]
  BY <1>1 DEF WorkerReturns, TypeOK, Tasks
<1>4. ASSUME NEW i \in Ids, task'[i].at = "computed"
      PROVE  result'[i] # None /\ result'[i].text = task'[i].source
  <2>1. CASE i = worker
    BY <1>1, <1>3, <1>4, <2>1 DEF Free
  <2>2. CASE i # worker
    BY <1>3, <1>4, <2>2 DEF TextInv
  <2> QED
    BY <2>1, <2>2
<1>5. ASSUME NEW d \in Docs, Validated(d)'
      PROVE  OnItsWay(d)'
  <2>1. current[d] # 0 => current[d] \in Ids /\ Live(current[d])
    BY DEF TypeOK, LiveIsRegistered
  <2>2. current[d] # 0 => task'[current[d]].source = task[current[d]].source
    BY <1>1, <1>3, <2>1 DEF Live
  <2> QED
    BY <1>2, <1>5, <2>2 DEF TextInv, Validated, OnItsWay, ShowsText
<1> QED
  BY <1>2, <1>4, <1>5 DEF TextInv

LEMMA TextWorkerStep ==
    ASSUME OnlyTypes, IInv, TextInv, Worker
    PROVE  TextInv'
<1> USE DEF IInv
<1>0. TypeOK
  OBVIOUS
<1>1. CASE WorkerTake
  <2>1. Head(jobs) \in Ids
    BY <1>1 DEF WorkerTake, TypeOK
  <2>2. \A j \in Ids : task'[j].source = task[j].source
                       /\ (task'[j].at = "computed" => task[j].at = "computed")
    BY <1>1, <2>1 DEF WorkerTake, TypeOK, Tasks
  <2> QED
    BY <1>0, <1>1, <2>2, TextKept DEF WorkerTake, client
<1>2. CASE WorkerBuffer \/ WorkerGoesOn \/ WorkerSnapshot \/ WorkerChecked
  BY <1>0, <1>2, TextKept DEF WorkerBuffer, WorkerGoesOn, WorkerSnapshot, WorkerChecked, client
<1>3. CASE WorkerAbort
  <2>1. step # "idle" /\ Superseded(worker) /\ WorkerReturns(None) /\ symbols' = symbols
    BY <1>3 DEF WorkerAbort
  <2>2. task[worker].at # "running"
    BY <2>1, LiveGoesOn DEF Live
  <2> QED
    BY <2>1, <2>2, TextReturned DEF TextInv
<1>4. CASE WorkerStore \/ WorkerCrash
  <2>1. /\ step \in {"checking", "store"} /\ WorkerReturns(Outcome)
        /\ symbols' \in {symbols, [symbols EXCEPT ![task[worker].uri] = Outcome]}
    BY <1>4 DEF WorkerStore, WorkerCrash
  <2>2. task[worker].uri \in Docs /\ task[worker].source \in Texts /\ view \in [Docs -> Texts]
    BY <2>1, LiveGoesOn DEF Shape
  <2>3. Outcome # None /\ Outcome.text = task[worker].source
    BY <2>2, CheckType, LspAssumption DEF Outcome
  <2>4. DOMAIN Outcome.deps = {}
    BY <2>2, NothingReached DEF Outcome
  <2>5. \A d \in Docs : symbols'[d] # None => DOMAIN symbols'[d].deps = {}
    BY <1>0, <2>1, <2>2, <2>4 DEF TextInv, TypeOK
  <2> QED
    BY <2>1, <2>3, <2>5, TextReturned
<1> QED
  BY <1>1, <1>2, <1>3, <1>4 DEF Worker

(* "A single worker also guarantees that results are published in edit     *)
(* order" (pengu_lsp/server.py:843) is true of a client that only opens,   *)
(* changes and closes documents, if the server handles its notifications   *)
(* one after the other and if no text imports a module.  Then an open      *)
(* document at rest shows the diagnostics of its own text, for any number  *)
(* of documents, texts and runs, whatever the checker makes of a text.     *)
(* Neither condition can go.  A close and an open that come in one batch   *)
(* may overtake the calls that gather() put on the loop.  And if a imports *)
(* m, a cancelled job may put an older text of a back into the buffer      *)
(* (line 707), from where the next change of m takes it for a check of a.  *)
THEOREM TypedTextIsShown ==
    ASSUME Ops \subseteq Typing,
           ~Batched,
           \A s \in Texts : ImportsOf[s] = {}
    PROVE  Spec => []SettledShowsText
<1> OnlyTypes
  BY DEF OnlyTypes
<1>1. Init => IInv /\ TextInv
  BY InitIInv, TextInit
<1>2. IInv /\ TextInv /\ [Next]_vars => (IInv /\ TextInv)'
  <2> SUFFICES ASSUME IInv, TextInv, [Next]_vars
               PROVE  TextInv'
    BY InvariantStep
  <2>1. CASE Watcher
    BY <2>1 DEF Watcher, DidChangeWatchedFiles, TextInv
  <2>2. CASE UNCHANGED vars
    BY <2>2 DEF vars, TextInv, Validated, OnItsWay, ShowsText
  <2> QED
    BY <2>1, <2>2, TextClientStep, TextLoopStep, TextWorkerStep DEF Next
<1>3. IInv /\ TextInv => SettledShowsText
  <2> SUFFICES ASSUME IInv, TextInv, Settled, NEW d \in Docs, Validated(d)
               PROVE  ShowsText(d)
    BY DEF SettledShowsText, ShowsText
  <2>1. OnItsWay(d) /\ ready = <<>> /\ \A i \in Ids : task[i].at = "free"
    BY DEF TextInv, Settled, AtRest
  <2>2. current[d] # 0 => current[d] \in Ids /\ Live(current[d])
    BY DEF IInv, LiveIsRegistered, TypeOK
  <2> QED
    BY <2>1, <2>2 DEF OnItsWay, Live
<1> QED
  BY <1>1, <1>2, <1>3, PTL DEF Spec

-----------------------------------------------------------------------------
(* What a text reaches. *)
ClosedUnder(s, text, R) ==
    ImportsOf[s] \subseteq R /\ \A y \in R : ImportsOf[text[y]] \subseteq R

Closure(s, text) == {x \in Docs : \A R \in SUBSET Docs : ClosedUnder(s, text, R) => x \in R}

LEMMA ReachedIsClosure ==
    ASSUME NEW d \in Docs, NEW s, NEW v
    PROVE  Reached(d, s, v) = Closure(s, [v EXCEPT ![d] = s]) \ {d}
BY DEF Reached, Closure, ClosedUnder

LEMMA ClosureIsLeast ==
    ASSUME NEW s \in Texts, NEW text \in [Docs -> Texts]
    PROVE  /\ ClosedUnder(s, text, Closure(s, text))
           /\ \A R \in SUBSET Docs : ClosedUnder(s, text, R) => Closure(s, text) \subseteq R
<1>1. \A t \in Texts : ImportsOf[t] \subseteq Docs
  BY LspAssumption
<1>2. ImportsOf[s] \subseteq Closure(s, text)
  BY <1>1 DEF Closure, ClosedUnder
<1>3. ASSUME NEW y \in Closure(s, text), NEW x \in ImportsOf[text[y]]
      PROVE  x \in Closure(s, text)
  <2>1. y \in Docs /\ x \in Docs
    BY <1>1, <1>3 DEF Closure
  <2>2. ASSUME NEW R \in SUBSET Docs, ClosedUnder(s, text, R)
        PROVE  x \in R
    BY <1>3, <2>2 DEF Closure, ClosedUnder
  <2> QED
    BY <2>1, <2>2 DEF Closure
<1>4. ClosedUnder(s, text, Closure(s, text))
  BY <1>2, <1>3 DEF ClosedUnder
<1> QED
  BY <1>4 DEF Closure

(* Two sets of texts that agree on what one of them reaches reach the same.*)
LEMMA SameClosure ==
    ASSUME NEW s \in Texts, NEW t \in [Docs -> Texts], NEW u \in [Docs -> Texts],
           \A y \in Closure(s, t) : t[y] = u[y]
    PROVE  Closure(s, u) = Closure(s, t)
<1>1. Closure(s, t) \in SUBSET Docs /\ Closure(s, u) \in SUBSET Docs
  BY DEF Closure
<1>2. ClosedUnder(s, u, Closure(s, t))
  BY ClosureIsLeast DEF ClosedUnder
<1>3. Closure(s, u) \subseteq Closure(s, t)
  BY <1>1, <1>2, ClosureIsLeast
<1>4. ClosedUnder(s, t, Closure(s, u))
  <2>1. ClosedUnder(s, u, Closure(s, u))
    BY ClosureIsLeast
  <2> QED
    BY <1>3, <2>1 DEF ClosedUnder
<1> QED
  BY <1>1, <1>3, <1>4, ClosureIsLeast

(* The diagnostics of a text depend on the modules it reaches only. *)
LEMMA SameCheck ==
    ASSUME NEW d \in Docs, NEW s \in Texts, NEW v \in [Docs -> Texts], NEW w \in [Docs -> Texts],
           \A y \in DOMAIN Check(d, s, v).deps : v[y] = w[y]
    PROVE  Check(d, s, w) = Check(d, s, v)
<1>1. CASE s \in Crashing
  BY <1>1 DEF Check
<1>2. CASE s \notin Crashing
  <2> DEFINE t == [v EXCEPT ![d] = s]
             u == [w EXCEPT ![d] = s]
  <2>1. t \in [Docs -> Texts] /\ u \in [Docs -> Texts]
    OBVIOUS
  <2>2. \A y \in Reached(d, s, v) : v[y] = w[y]
    BY <1>2 DEF Check
  <2>3. Reached(d, s, v) = Closure(s, t) \ {d} /\ Reached(d, s, w) = Closure(s, u) \ {d}
    BY ReachedIsClosure
  <2>4. \A y \in Closure(s, t) : t[y] = u[y]
    BY <2>2, <2>3 DEF Closure
  <2> HIDE DEF t, u
  <2>5. Reached(d, s, w) = Reached(d, s, v)
    BY <2>1, <2>3, <2>4, SameClosure
  <2>6. [x \in Reached(d, s, w) |-> w[x]] = [x \in Reached(d, s, v) |-> v[x]]
    BY <2>2, <2>5
  <2> QED
    BY <1>2, <2>6 DEF Check
<1> QED
  BY <1>1, <1>2

Importable == UNION {ImportsOf[s] : s \in Texts}

LEMMA DepsFacts ==
    ASSUME NEW d \in Docs, NEW s \in Texts, NEW v \in [Docs -> Texts]
    PROVE  /\ DOMAIN Check(d, s, v).deps \subseteq (Importable \cap Docs) \ {d}
           /\ s \in Crashing => DOMAIN Check(d, s, v).deps = {}
<1>1. DOMAIN Check(d, s, v).deps = IF s \in Crashing THEN {} ELSE Reached(d, s, v)
  BY DEF Check
<1> DEFINE t == [v EXCEPT ![d] = s]
<1>2. t \in [Docs -> Texts] /\ Reached(d, s, v) = Closure(s, t) \ {d}
  BY ReachedIsClosure
<1> HIDE DEF t
<1>3. Importable \in SUBSET Docs /\ ClosedUnder(s, t, Importable)
  BY <1>2, LspAssumption DEF Importable, ClosedUnder
<1>4. Closure(s, t) \subseteq Importable
  BY <1>2, <1>3, ClosureIsLeast
<1> QED
  BY <1>1, <1>2, <1>3, <1>4

-----------------------------------------------------------------------------
(* A patient client acts when the server is at rest, and never leaves      *)
(* unsaved text behind when it opens or closes a document.  The handlers   *)
(* ignore a document that has been emptied, so what is imported never is.  *)
Waits ==
    /\ Paced
    /\ Ops \subseteq {"open", "change", "save", "close", "external", "config"}
    /\ \A d \in Importable : Empty \notin TextsOf[d]

Now(d) == Check(d, docs[d], Overlay(docs))

Known(d, r) == r = Now(d) /\ (docs[d] \notin Crashing => symbols[d] = Now(d))

Pending(d) == current[d] # 0 \/ \E k \in DOMAIN ready : ready[k].uri = d

(* What is shown of a document is right unless a run of it is pending, and *)
(* what is cached may answer for the text of the buffer.                   *)
UpToDate(d) ==
    docs[d] # None =>
        /\ cache[d] # None /\ cache[d].text = docs[d] => Known(d, cache[d])
        /\ ~Pending(d) => Known(d, shown[d]) /\ cache[d] \in {None, shown[d]}

(* The buffers follow the editor. *)
Buffered ==
    /\ \A d \in Docs : editor[d] \in TextsOf[d] \union {None}
    /\ \A d \in Docs : editor[d] = None => docs[d] = None
    /\ \A d \in Docs : Validated(d) => docs[d] = editor[d]
    /\ \A d \in Docs : docs[d] = None => cache[d] = None /\ ~Pending(d)

(* Every call, run and result, also of a cancelled job, is about what the  *)
(* buffers hold.                                                           *)
Current ==
    /\ \A k \in DOMAIN ready : ready[k].source = docs[ready[k].uri]
    /\ \A i \in Ids : task[i].at # "free" => task[i].source = docs[task[i].uri]
    /\ \A i \in Ids : task[i].at = "computed" => Known(task[i].uri, result[i])
    /\ step \in {"checking", "store"} => view = Overlay(docs)

AllUpToDate == \A d \in Docs : UpToDate(d)

(* A file has changed on disk: the documents that are wrong now will be    *)
(* found by the report of the watcher, from their symbol tables.           *)
WillBeFound ==
    /\ AtRest
    /\ \E x \in Docs :
          /\ fileEvents = {x}
          /\ \A d \in Docs : UpToDate(d) \/ (d # x /\ x \in DependencyPaths(d))

PacedInv == Buffered /\ Current /\ (AllUpToDate \/ WillBeFound)

LEMMA PacedInit == Init => PacedInv
<1> SUFFICES ASSUME Init PROVE PacedInv
  OBVIOUS
<1>1. Buffered
  BY DEF Init, Buffered, Validated, Pending
<1>2. Current
  BY DEF Init, Current, Free
<1>3. AllUpToDate
  BY DEF Init, AllUpToDate, UpToDate
<1> QED
  BY <1>1, <1>2, <1>3 DEF PacedInv

LEMMA RestFacts ==
    ASSUME IInv, AtRest
    PROVE  /\ ready = <<>> /\ jobs = <<>> /\ worker = 0 /\ step = "idle"
           /\ \A i \in Ids : task[i].at = "free"
           /\ \A d \in Docs : current[d] = 0 /\ ~Pending(d)
<1> USE DEF IInv
<1>1. ready = <<>> /\ \A i \in Ids : task[i].at = "free"
  BY DEF AtRest
<1>2. \A d \in Docs : current[d] # 0 => current[d] \in Ids /\ Live(current[d])
  BY DEF TypeOK, LiveIsRegistered
<1>3. \A d \in Docs : current[d] = 0
  BY <1>1, <1>2 DEF Live
<1>4. worker = 0 /\ step = "idle"
  BY <1>1 DEF TypeOK, JobsMatchTasks, Shape
<1>5. jobs = <<>>
  <2>1. jobs \in Seq(Ids) /\ \A n \in DOMAIN jobs : jobs[n] \in Ids
    BY DEF TypeOK
  <2>2. \A n \in DOMAIN jobs : FALSE
    BY <1>1, <2>1 DEF JobsMatchTasks
  <2> QED
    BY <2>1, <2>2, EmptySeq
<1> QED
  BY <1>1, <1>3, <1>4, <1>5 DEF Pending

(* While a file waits to be reported and something may be wrong, only the  *)
(* watcher acts.                                                           *)
LEMMA RestIsRest ==
    ASSUME IInv, AtRest
    PROVE  ~Loop /\ ~Worker
<1>1. /\ ready = <<>> /\ jobs = <<>> /\ worker = 0 /\ step = "idle"
      /\ \A i \in Ids : task[i].at = "free"
  BY RestFacts
<1>2. ~Loop
  BY <1>1 DEF Loop, RunSchedule, Start, Resume
<1>3. ~Worker
  BY <1>1 DEF Worker, WorkerTake, WorkerBuffer, WorkerAbort, WorkerGoesOn, WorkerSnapshot,
              WorkerChecked, WorkerStore, WorkerCrash
<1> QED
  BY <1>2, <1>3

(* Nothing new happens to a document. *)
LEMMA StaysUpToDate ==
    ASSUME NEW d \in Docs, UpToDate(d),
           docs'[d] = docs[d], docs[d] # None => Now(d)' = Now(d),
           cache'[d] = cache[d], shown'[d] = shown[d], symbols'[d] = symbols[d],
           Pending(d) => Pending(d)'
    PROVE  UpToDate(d)'
BY DEF UpToDate, Known

(* Its cache is dropped and it is queued. *)
LEMMA WillBeUpToDate ==
    ASSUME NEW d \in Docs, cache'[d] = None, Pending(d)'
    PROVE  UpToDate(d)'
BY DEF UpToDate

(* The symbol table of a document at rest knows what its diagnostics       *)
(* depend on.                                                              *)
LEMMA PathsKnown ==
    ASSUME IInv, NEW d \in Docs, UpToDate(d), docs[d] # None, ~Pending(d)
    PROVE  DOMAIN Now(d).deps \subseteq DependencyPaths(d)
<1>1. docs[d] \in Texts /\ Overlay(docs) \in [Docs -> Texts]
  BY OverlayType DEF IInv, TypeOK
<1>2. CASE docs[d] \in Crashing
  BY <1>1, <1>2, DepsFacts DEF Now
<1>3. CASE docs[d] \notin Crashing
  <2>1. symbols[d] = Now(d)
    BY <1>3 DEF UpToDate, Known
  <2>2. Now(d) # None
    BY <1>1, CheckType, LspAssumption DEF Now
  <2> QED
    BY <2>1, <2>2 DEF DependencyPaths
<1> QED
  BY <1>2, <1>3

(* What a document's diagnostics should be changes with what they depend on*)
LEMMA NowKept ==
    ASSUME IInv, IInv', NEW d \in Docs, docs[d] # None, docs'[d] = docs[d],
           \A y \in (DOMAIN Now(d).deps \cap Importable \cap Docs) \ {d} :
               Overlay(docs)'[y] = Overlay(docs)[y]
    PROVE  Now(d)' = Now(d)
<1>1. docs[d] \in Texts /\ Overlay(docs) \in [Docs -> Texts]
  BY OverlayType DEF IInv, TypeOK
<1>2. Overlay(docs)' \in [Docs -> Texts]
  BY DEF IInv, TypeOK, Overlay
<1>3. PICK v : v = Overlay(docs)
  OBVIOUS
<1>4. PICK w : w = Overlay(docs)'
  OBVIOUS
<1>5. DOMAIN Check(d, docs[d], v).deps \subseteq (Importable \cap Docs) \ {d}
  BY <1>1, <1>3, DepsFacts
<1>6. \A y \in DOMAIN Check(d, docs[d], v).deps : v[y] = w[y]
  BY <1>3, <1>4, <1>5 DEF Now
<1>7. Check(d, docs[d], w) = Check(d, docs[d], v)
  BY <1>1, <1>2, <1>3, <1>4, <1>6, SameCheck
<1> QED
  BY <1>3, <1>4, <1>7 DEF Now

LEMMA NowSame ==
    ASSUME UNCHANGED <<docs, disk>>
    PROVE  Overlay(docs)' = Overlay(docs) /\ \A d \in Docs : Now(d)' = Now(d)
BY DEF Overlay, Now

(* Queueing the documents of ds behind what is queued already. *)
Queued(p, q, ds, buffers) ==
    /\ \A k \in DOMAIN (p \o q) :
          \/ \E j \in DOMAIN p : (p \o q)[k] = p[j]
          \/ (p \o q)[k].uri \in ds /\ (p \o q)[k].source = buffers[(p \o q)[k].uri]
    /\ \A j \in DOMAIN p : j \in DOMAIN (p \o q) /\ (p \o q)[j] = p[j]
    /\ \A d \in ds : \E k \in DOMAIN (p \o q) : (p \o q)[k].uri = d

LEMMA QueueFacts ==
    ASSUME NEW p \in Seq([uri : Docs, source : Texts]), NEW ds \in SUBSET Docs, NEW buffers,
           NEW q \in Gathered(ds, buffers)
    PROVE  Queued(p, q, ds, buffers)
<1>1. /\ q \in Seq([uri : Docs, source : Texts])
      /\ \A k \in 1 .. Len(q) : q[k].uri \in ds /\ q[k].source = buffers[q[k].uri]
      /\ \A d \in ds : \E k \in 1 .. Len(q) : q[k].uri = d
  <2>1. q \in Seq([uri : Docs, source : Texts])
    BY GatheredType
  <2> QED
    BY <2>1, GatheredLength
<1>2. /\ Len(p \o q) = Len(p) + Len(q) /\ Len(p) \in Nat /\ Len(q) \in Nat
      /\ \A k \in 1 .. Len(p) : (p \o q)[k] = p[k]
      /\ \A k \in 1 .. Len(q) : (p \o q)[Len(p) + k] = q[k]
      /\ DOMAIN p = 1 .. Len(p) /\ DOMAIN (p \o q) = 1 .. (Len(p) + Len(q))
  BY <1>1
<1>3. ASSUME NEW k \in 1 .. (Len(p) + Len(q))
      PROVE  \/ \E j \in 1 .. Len(p) : (p \o q)[k] = p[j]
             \/ (p \o q)[k].uri \in ds /\ (p \o q)[k].source = buffers[(p \o q)[k].uri]
  <2>1. CASE k \in 1 .. Len(p)
    BY <1>2, <2>1
  <2>2. CASE k \notin 1 .. Len(p)
    <3>1. k - Len(p) \in 1 .. Len(q) /\ Len(p) + (k - Len(p)) = k
      BY <1>2, <2>2
    <3> QED
      BY <1>1, <1>2, <3>1
  <2> QED
    BY <2>1, <2>2
<1>4. ASSUME NEW d \in ds
      PROVE  \E k \in 1 .. (Len(p) + Len(q)) : (p \o q)[k].uri = d
  <2>1. PICK k \in 1 .. Len(q) : q[k].uri = d
    BY <1>1
  <2>2. Len(p) + k \in 1 .. (Len(p) + Len(q))
    BY <1>2
  <2> QED
    BY <1>2, <2>1, <2>2
<1>5. \A k \in DOMAIN (p \o q) :
         \/ \E j \in DOMAIN p : (p \o q)[k] = p[j]
         \/ (p \o q)[k].uri \in ds /\ (p \o q)[k].source = buffers[(p \o q)[k].uri]
  BY <1>2, <1>3, Zenon
<1>6. \A j \in 1 .. Len(p) : j \in 1 .. (Len(p) + Len(q)) /\ (p \o q)[j] = p[j]
  BY <1>2
<1>7. \A j \in DOMAIN p : j \in DOMAIN (p \o q) /\ (p \o q)[j] = p[j]
  BY <1>2, <1>6, Zenon
<1>8. \A d \in ds : \E k \in DOMAIN (p \o q) : (p \o q)[k].uri = d
  BY <1>2, <1>4, Zenon
<1> QED
  BY <1>5, <1>7, <1>8, Zenon DEF Queued

(* A patient client acts on a server at rest that is right about all. *)
LEMMA ActsAtRest ==
    ASSUME Waits, PacedInv, NEW op, Act(op)
    PROVE  AtRest /\ fileEvents = {} /\ AllUpToDate /\ op \notin {"openDirty", "closeDirty"}
BY DEF Waits, PacedInv, Act, WillBeFound

(* At rest, a run of a document is the only one. *)
LEMMA ScheduledAtRest ==
    ASSUME IInv, AtRest, NEW d \in Docs, NEW s \in Texts, NEW buffers, Schedule(d, s, buffers)
    PROVE  /\ current'[d] # 0 /\ \A x \in Docs \ {d} : current'[x] = 0
           /\ \A i \in Ids : task'[i].at # "free"
                                => task'[i].source = s /\ task'[i].uri = d /\ task'[i].at = "starting"
<1>1. \A i \in Ids : task[i].at = "free"
  BY RestFacts
<1>2. \A x \in Docs : current[x] = 0
  BY RestFacts
<1>3. /\ current'[d] \in Ids
      /\ task'[current'[d]] = [uri |-> d, source |-> s, gen |-> generation[d] + 1,
                               at |-> "starting"]
      /\ \A i \in Ids \ {current'[d]} : Spared(i)
      /\ \A x \in Docs \ {d} : current'[x] = current[x]
  BY ScheduleTasks
<1>4. ASSUME NEW i \in Ids, task'[i].at # "free"
      PROVE  i = current'[d]
  BY <1>1, <1>3, <1>4 DEF Spared, Free
<1>5. current'[d] # 0
  BY <1>3 DEF Ids
<1> QED
  BY <1>2, <1>3, <1>4, <1>5

(* textDocument/didOpen *)
LEMMA PacedOpen ==
    ASSUME Waits, IInv, IInv', PacedInv, NEW d \in Docs, NEW s \in TextsOf[d], DidOpen(d, s)
    PROVE  PacedInv'
<1>1. s \in Texts /\ s # None /\ TypeOK
  BY TextType DEF IInv
<1>2. /\ AtRest /\ AllUpToDate /\ s = disk[d] /\ editor[d] = None
      /\ editor' = [editor EXCEPT ![d] = s]
      /\ UNCHANGED <<disk, fileEvents, shown, symbols, cache, ready, worker, step, view, result>>
  BY ActsAtRest DEF DidOpen, work
<1>3. /\ ready = <<>> /\ step = "idle" /\ \A i \in Ids : task[i].at = "free"
      /\ \A x \in Docs : current[x] = 0 /\ ~Pending(x)
  BY <1>2, RestFacts
<1>4. docs[d] = None /\ cache[d] = None
  BY <1>2 DEF PacedInv, Buffered
<1>5. editor'[d] = s /\ \A x \in Docs \ {d} : editor'[x] = editor[x]
  BY <1>1, <1>2 DEF TypeOK
<1>6. CASE s = Empty
  <2>1. UNCHANGED <<docs, generation, task, current, jobs>>
    BY <1>6 DEF DidOpen
  <2>2. Buffered'
    BY <1>2, <1>5, <1>6, <2>1 DEF PacedInv, Buffered, Validated, Pending
  <2>3. Current'
    BY <1>2, <1>3, <2>1 DEF Current
  <2>4. AllUpToDate'
    <3>1. \A x \in Docs : Now(x)' = Now(x)
      BY <1>2, <2>1, NowSame
    <3> QED
      BY <1>2, <2>1, <3>1, StaysUpToDate DEF AllUpToDate, Pending
  <2> QED
    BY <2>2, <2>3, <2>4 DEF PacedInv
<1>7. CASE s # Empty
  <2>1. Schedule(d, s, docs) /\ docs' = [docs EXCEPT ![d] = s]
    BY <1>7 DEF DidOpen, Schedule
  <2>2. docs'[d] = s /\ \A x \in Docs \ {d} : docs'[x] = docs[x]
    BY <1>1, <2>1 DEF TypeOK
  <2>3. /\ current'[d] # 0 /\ \A x \in Docs \ {d} : current'[x] = 0
        /\ \A i \in Ids : task'[i].at # "free"
              => task'[i].source = s /\ task'[i].uri = d /\ task'[i].at = "starting"
    BY <1>1, <1>2, <2>1, ScheduledAtRest
  <2>4. Buffered'
    <3>1. \A x \in Docs \ {d} : ~Pending(x)'
      BY <1>2, <1>3, <2>3 DEF Pending
    <3> QED
      BY <1>1, <1>2, <1>5, <2>2, <3>1 DEF PacedInv, Buffered, Validated
  <2>5. Current'
    BY <1>2, <1>3, <2>2, <2>3 DEF Current
  <2>6. ASSUME NEW x \in Docs
        PROVE  UpToDate(x)'
    <3>1. CASE x = d
      BY <1>2, <1>4, <2>3, <3>1, WillBeUpToDate DEF Pending
    <3>2. CASE x # d
      <4>1. \A y \in Docs : Overlay(docs)'[y] = Overlay(docs)[y]
        BY <1>2, <1>1, <1>4, <2>2 DEF Overlay
      <4>2. docs[x] # None => Now(x)' = Now(x)
        BY <2>2, <3>2, <4>1, NowKept
      <4>3. ~Pending(x)
        BY <1>3
      <4> QED
        BY <1>2, <2>2, <3>2, <4>2, <4>3, StaysUpToDate DEF AllUpToDate
    <3> QED
      BY <3>1, <3>2
  <2> QED
    BY <2>4, <2>5, <2>6 DEF PacedInv, AllUpToDate
<1> QED
  BY <1>6, <1>7

(* A file changes under a server at rest: by the hand of the editor, which *)
(* has emptied its buffer, or of another program.                          *)
LEMMA PacedDisk ==
    ASSUME IInv, IInv', PacedInv, AtRest, AllUpToDate, NEW x \in Docs,
           \A y \in Docs \ {x} : disk'[y] = disk[y], fileEvents' = {x},
           UNCHANGED <<editor, shown, docs, symbols, cache, current, ready, task, result, step,
                       view>>
    PROVE  PacedInv'
<1>1. /\ ready = <<>> /\ step = "idle" /\ \A i \in Ids : task[i].at = "free"
      /\ \A y \in Docs : current[y] = 0 /\ ~Pending(y)
  BY RestFacts
<1>2. Buffered'
  BY DEF PacedInv, Buffered, Validated, Pending
<1>3. Current'
  BY <1>1 DEF Current
<1>4. ASSUME NEW d \in Docs, ~(d # x /\ x \in DependencyPaths(d))
      PROVE  UpToDate(d)'
  <2>1. ASSUME docs[d] # None
        PROVE  Now(d)' = Now(d)
    <3>1. DOMAIN Now(d).deps \subseteq DependencyPaths(d)
      BY <1>1, <2>1, PathsKnown DEF AllUpToDate
    <3>2. \A y \in (DOMAIN Now(d).deps \cap Importable \cap Docs) \ {d} : y # x
      BY <1>4, <3>1
    <3>3. \A y \in (DOMAIN Now(d).deps \cap Importable \cap Docs) \ {d} :
             Overlay(docs)'[y] = Overlay(docs)[y]
      BY <3>2 DEF Overlay
    <3> QED
      BY <2>1, <3>3, NowKept
  <2> QED
    BY <1>1, <2>1, StaysUpToDate DEF AllUpToDate
<1>5. \A d \in Docs : DependencyPaths(d)' = DependencyPaths(d)
  BY DEF DependencyPaths
<1>6. WillBeFound'
  BY <1>4, <1>5 DEF WillBeFound, AtRest
<1> QED
  BY <1>2, <1>3, <1>6 DEF PacedInv

(* textDocument/didSave *)
LEMMA PacedSave ==
    ASSUME Waits, IInv, IInv', PacedInv, NEW d \in Docs, DidSave(d)
    PROVE  PacedInv'
<1>1. /\ AtRest /\ fileEvents = {} /\ AllUpToDate /\ editor[d] # None /\ TypeOK
      /\ disk' = [disk EXCEPT ![d] = editor[d]]
      /\ fileEvents' = IF disk[d] # editor[d] THEN fileEvents \union {d} ELSE fileEvents
      /\ UNCHANGED <<editor, shown, symbols, cache, ready, worker, step, view, result>>
  BY ActsAtRest DEF DidSave, work, IInv
<1>2. /\ ready = <<>> /\ step = "idle" /\ \A i \in Ids : task[i].at = "free"
      /\ \A x \in Docs : current[x] = 0 /\ ~Pending(x)
  BY <1>1, RestFacts
<1>3. editor[d] \in Texts /\ \A y \in Docs \ {d} : disk'[y] = disk[y]
  BY <1>1 DEF TypeOK
<1>4. CASE editor[d] = Empty
  <2>1. UNCHANGED <<docs, generation, task, current, jobs>>
    BY <1>4 DEF DidSave
  <2>2. CASE disk[d] # editor[d]
    BY <1>1, <1>3, <2>1, <2>2, PacedDisk
  <2>3. CASE disk[d] = editor[d]
    <3>1. disk' = disk /\ fileEvents' = fileEvents
      BY <1>1, <2>3 DEF TypeOK
    <3>2. \A x \in Docs : Now(x)' = Now(x)
      BY <2>1, <3>1, NowSame
    <3>3. AllUpToDate'
      BY <1>1, <2>1, <3>2, StaysUpToDate DEF AllUpToDate, Pending
    <3>4. Buffered'
      BY <1>1, <2>1 DEF PacedInv, Buffered, Validated, Pending
    <3>5. Current'
      BY <1>1, <1>2, <2>1 DEF Current
    <3> QED
      BY <3>3, <3>4, <3>5 DEF PacedInv
  <2> QED
    BY <2>2, <2>3
<1>5. CASE editor[d] # Empty
  <2>1. Schedule(d, editor[d], docs) /\ docs' = [docs EXCEPT ![d] = editor[d]]
    BY <1>5 DEF DidSave, Schedule
  <2>2. docs[d] = editor[d]
    BY <1>1, <1>5 DEF PacedInv, Buffered, Validated
  <2>3. docs' = docs
    BY <1>1, <2>1, <2>2 DEF TypeOK
  <2>4. /\ current'[d] # 0 /\ \A x \in Docs \ {d} : current'[x] = 0
        /\ \A i \in Ids : task'[i].at # "free"
              => task'[i].source = editor[d] /\ task'[i].uri = d /\ task'[i].at = "starting"
    BY <1>1, <1>3, <2>1, ScheduledAtRest
  <2>5. \A x \in Docs \ {d} : ~Pending(x)'
    BY <1>1, <1>2, <2>4 DEF Pending
  <2>6. Buffered'
    BY <1>1, <2>2, <2>3, <2>5 DEF PacedInv, Buffered, Validated
  <2>7. Current'
    BY <1>1, <1>2, <2>2, <2>3, <2>4 DEF Current
  <2>8. ASSUME NEW x \in Docs
        PROVE  UpToDate(x)'
    <3>1. \A y \in Docs : Overlay(docs)'[y] = Overlay(docs)[y]
      BY <1>1, <1>3, <2>2, <2>3 DEF Overlay
    <3>2. docs[x] # None => Now(x)' = Now(x)
      BY <2>3, <3>1, NowKept
    <3> QED
      BY <1>1, <1>2, <2>3, <3>2, StaysUpToDate DEF AllUpToDate
  <2> QED
    BY <2>6, <2>7, <2>8 DEF PacedInv, AllUpToDate
<1> QED
  BY <1>4, <1>5

(* textDocument/didClose *)
LEMMA PacedClose ==
    ASSUME Waits, IInv, IInv', PacedInv, NEW d \in Docs, DidClose(d)
    PROVE  PacedInv'
<1>1. /\ AtRest /\ AllUpToDate /\ editor[d] # None /\ TypeOK
      /\ editor[d] = disk[d]
      /\ UNCHANGED <<disk, fileEvents, shown, ready, worker, step, view, result>>
  BY ActsAtRest DEF DidClose, work, IInv
<1>2. /\ ready = <<>> /\ step = "idle" /\ \A i \in Ids : task[i].at = "free"
      /\ \A x \in Docs : current[x] = 0 /\ ~Pending(x)
  BY <1>1, RestFacts
<1>3. /\ task' = task
      /\ \A x \in Docs : current'[x] = 0
      /\ editor'[d] = None /\ docs'[d] = None /\ cache'[d] = None
      /\ \A x \in Docs \ {d} : /\ editor'[x] = editor[x] /\ docs'[x] = docs[x]
                               /\ cache'[x] = cache[x] /\ symbols'[x] = symbols[x]
  BY <1>1, <1>2 DEF DidClose, Cancelled, TypeOK
<1>4. \A x \in Docs : ~Pending(x)'
  BY <1>1, <1>2, <1>3 DEF Pending
<1>5. Buffered'
  BY <1>1, <1>3, <1>4 DEF PacedInv, Buffered, Validated
<1>6. Current'
  BY <1>1, <1>2, <1>3 DEF Current
<1>7. d \in Importable => Overlay(docs)'[d] = Overlay(docs)[d]
  <2>1. d \in Importable => editor[d] # Empty
    BY <1>1 DEF Waits, PacedInv, Buffered
  <2>2. editor[d] # Empty => docs[d] = editor[d]
    BY <1>1 DEF PacedInv, Buffered, Validated
  <2> QED
    BY <1>1, <1>3, <2>1, <2>2 DEF Overlay
<1>8. ASSUME NEW x \in Docs
      PROVE  UpToDate(x)'
  <2>1. CASE x = d
    BY <1>3, <2>1 DEF UpToDate
  <2>2. CASE x # d
    <3>1. \A y \in Importable \cap Docs : Overlay(docs)'[y] = Overlay(docs)[y]
      BY <1>1, <1>3, <1>7 DEF Overlay
    <3>2. docs[x] # None => Now(x)' = Now(x)
      BY <1>3, <2>2, <3>1, NowKept
    <3> QED
      BY <1>1, <1>2, <1>3, <2>2, <3>2, StaysUpToDate DEF AllUpToDate
  <2> QED
    BY <2>1, <2>2
<1> QED
  BY <1>5, <1>6, <1>8 DEF PacedInv, AllUpToDate

(* textDocument/didChange *)
LEMMA PacedChange ==
    ASSUME Waits, IInv, IInv', PacedInv, NEW d \in Docs, NEW s \in TextsOf[d], DidChange(d, s)
    PROVE  PacedInv'
<1>1. s \in Texts /\ s # None /\ TypeOK
  BY TextType DEF IInv
<1>2. /\ AtRest /\ AllUpToDate /\ editor[d] # None
      /\ editor' = [editor EXCEPT ![d] = s]
      /\ UNCHANGED <<disk, fileEvents, shown, symbols, current, task, result, step, view>>
  BY ActsAtRest DEF DidChange, work
<1>3. /\ ready = <<>> /\ step = "idle" /\ \A i \in Ids : task[i].at = "free"
      /\ \A x \in Docs : current[x] = 0 /\ ~Pending(x)
  BY <1>2, RestFacts
<1>4. editor'[d] = s /\ \A x \in Docs \ {d} : editor'[x] = editor[x]
  BY <1>1, <1>2 DEF TypeOK
<1>5. CASE s = Empty
  <2>1. UNCHANGED <<docs, cache, ready>>
    BY <1>5 DEF DidChange
  <2>2. Buffered'
    BY <1>1, <1>2, <1>4, <1>5, <2>1 DEF PacedInv, Buffered, Validated, Pending
  <2>3. Current'
    BY <1>2, <1>3, <2>1 DEF Current
  <2>4. AllUpToDate'
    <3>1. \A x \in Docs : Now(x)' = Now(x)
      BY <1>2, <2>1, NowSame
    <3> QED
      BY <1>2, <2>1, <3>1, StaysUpToDate DEF AllUpToDate, Pending
  <2> QED
    BY <2>2, <2>3, <2>4 DEF PacedInv
<1>6. CASE s # Empty
  <2> DEFINE buffers == [docs EXCEPT ![d] = s]
             dependents == DependentOpenUris(d)
             r == [uri |-> d, source |-> s]
  <2>1. /\ docs' = buffers
        /\ cache' = [x \in Docs |-> IF x \in dependents THEN None ELSE cache[x]]
    BY <1>6 DEF DidChange
  <2>2. docs'[d] = s /\ \A x \in Docs \ {d} : docs'[x] = docs[x]
    BY <1>1, <2>1 DEF TypeOK
  <2>3. PICK q \in Gathered(dependents, buffers) : ready' = ready \o <<r>> \o q
    BY <1>6 DEF DidChange
  <2>4. /\ dependents \in SUBSET Docs /\ d \notin dependents
        /\ \A x \in dependents : docs[x] # None /\ docs'[x] = docs[x]
    BY <2>2 DEF DependentOpenUris
  <2>5. PICK p : p = ready \o <<r>>
    OBVIOUS
  <2>6. /\ p \in Seq([uri : Docs, source : Texts]) /\ DOMAIN p = {1} /\ p[1] = r
        /\ ready' = p \o q
    BY <1>1, <1>3, <2>3, <2>5
  <2> HIDE DEF dependents
  <2>7. Queued(p, q, dependents, buffers)
    <3> HIDE DEF buffers
    <3> QED
      BY <2>4, <2>6, QueueFacts
  <2>8. /\ \A k \in DOMAIN ready' : /\ ready'[k].uri \in dependents \union {d}
                                    /\ ready'[k].source = docs'[ready'[k].uri]
        /\ \A x \in dependents \union {d} : Pending(x)'
    <3>1. ASSUME NEW k \in DOMAIN ready'
          PROVE  /\ ready'[k].uri \in dependents \union {d}
                 /\ ready'[k].source = docs'[ready'[k].uri]
      BY <2>1, <2>2, <2>6, <2>7 DEF Queued
    <3>2. ASSUME NEW x \in dependents \union {d}
          PROVE  \E k \in DOMAIN ready' : ready'[k].uri = x
      BY <2>6, <2>7 DEF Queued
    <3> QED
      BY <3>1, <3>2 DEF Pending
  <2> HIDE DEF buffers, r
  <2>9. Buffered'
    <3>1. ASSUME NEW x \in Docs, docs'[x] = None
          PROVE  cache'[x] = None /\ ~Pending(x)'
      <4>1. x # d /\ docs[x] = None /\ x \notin dependents
        BY <1>1, <2>2, <2>4, <3>1
      <4>2. cache'[x] = cache[x] /\ cache[x] = None
        BY <2>1, <4>1 DEF PacedInv, Buffered
      <4>3. ~Pending(x)'
        BY <1>2, <1>3, <2>8, <4>1 DEF Pending
      <4> QED
        BY <4>2, <4>3
    <3>2. /\ \A x \in Docs : editor'[x] \in TextsOf[x] \union {None}
          /\ \A x \in Docs : editor'[x] = None => docs'[x] = None
          /\ \A x \in Docs : Validated(x)' => docs'[x] = editor'[x]
      BY <1>1, <1>4, <2>2 DEF PacedInv, Buffered, Validated
    <3> QED
      BY <3>1, <3>2 DEF Buffered
  <2>10. Current'
    BY <1>2, <1>3, <2>8 DEF Current
  <2>11. ASSUME NEW x \in Docs
         PROVE  UpToDate(x)'
    <3>1. CASE x \in dependents
      BY <2>1, <2>8, <3>1, WillBeUpToDate
    <3>2. CASE x \notin dependents /\ x # d
      <4>1. \A y \in Docs \ {d} : Overlay(docs)'[y] = Overlay(docs)[y]
        BY <1>2, <2>2 DEF Overlay
      <4>2. ASSUME docs[x] # None
            PROVE  Now(x)' = Now(x)
        <5>1. DOMAIN Now(x).deps \subseteq DependencyPaths(x)
          BY <1>2, <1>3, <4>2, PathsKnown DEF AllUpToDate
        <5>2. d \notin DependencyPaths(x)
          BY <3>2, <4>2 DEF dependents, DependentOpenUris
        <5> QED
          BY <2>2, <3>2, <4>1, <4>2, <5>1, <5>2, NowKept
      <4>3. cache'[x] = cache[x]
        BY <2>1, <3>2
      <4> QED
        BY <1>2, <1>3, <2>2, <3>2, <4>2, <4>3, StaysUpToDate DEF AllUpToDate
    \* the cache of the document itself answers for the text it was made from
    <3>3. CASE x = d
      <4>1. cache'[d] = cache[d] /\ symbols'[d] = symbols[d] /\ Pending(d)'
        BY <1>2, <2>1, <2>4, <2>8
      <4>2. ASSUME cache[d] # None, cache[d].text = s
            PROVE  Known(d, cache[d])'
        <5>1. docs[d] # None
          BY <4>2 DEF PacedInv, Buffered
        <5>2. Known(d, cache[d])
          BY <1>2, <1>3, <5>1, <4>2 DEF AllUpToDate, UpToDate
        <5>3. docs[d] \in Texts /\ Overlay(docs) \in [Docs -> Texts]
          BY <1>1, <5>1, OverlayType DEF TypeOK
        <5>4. docs[d] = s
          BY <4>2, <5>2, <5>3, CheckType DEF Known, Now
        <5>5. docs' = docs /\ disk' = disk
          BY <1>1, <1>2, <2>1, <5>4 DEF buffers, TypeOK
        <5>6. Now(d)' = Now(d)
          BY <5>5, NowSame
        <5> QED
          BY <4>1, <5>2, <5>5, <5>6 DEF Known
      <4> QED
        BY <2>2, <3>3, <4>1, <4>2 DEF UpToDate
    <3> QED
      BY <3>1, <3>2, <3>3
  <2> QED
    BY <2>9, <2>10, <2>11 DEF PacedInv, AllUpToDate
<1> QED
  BY <1>5, <1>6

(* The documents of ds are queued again and their caches dropped: by       *)
(* didChangeConfiguration and by the report of the watcher.                *)
LEMMA PacedRequeue ==
    ASSUME IInv, IInv', PacedInv,
           NEW ds \in SUBSET {d \in Docs : docs[d] # None}, NEW q \in Gathered(ds, docs),
           ready' = ready \o q,
           \A d \in Docs : cache'[d] = None \/ (d \notin ds /\ cache'[d] = cache[d]),
           \A d \in ds : cache'[d] = None,
           \A d \in Docs \ ds : UpToDate(d),
           UNCHANGED <<editor, disk, shown, docs, symbols, current, task, result, step, view>>
    PROVE  PacedInv'
<1>1. ready \in Seq([uri : Docs, source : Texts])
  BY DEF IInv, TypeOK
<1>2. Queued(ready, q, ds, docs)
  BY <1>1, QueueFacts
<1>3. /\ \A d \in Docs : Pending(d) => Pending(d)'
      /\ \A d \in Docs \ ds : Pending(d)' => Pending(d)
      /\ \A d \in ds : Pending(d)'
  BY <1>2 DEF Pending, Queued
<1>4. Overlay(docs)' = Overlay(docs) /\ \A d \in Docs : Now(d)' = Now(d)
  BY NowSame
<1>5. Buffered'
  BY <1>3 DEF PacedInv, Buffered, Validated
<1>6. Current'
  <2>1. \A k \in DOMAIN ready' : ready'[k].source = docs'[ready'[k].uri]
    BY <1>2 DEF PacedInv, Current, Queued
  <2>2. \A i \in Ids : task[i].at = "computed" => task[i].uri \in Docs
    BY DEF IInv, Shape
  <2> QED
    BY <1>4, <2>1, <2>2 DEF PacedInv, Current, Known
<1>7. ASSUME NEW d \in Docs
      PROVE  UpToDate(d)'
  <2>1. CASE d \in ds
    BY <1>3, <2>1, WillBeUpToDate
  <2>2. CASE d \notin ds
    <3>1. UpToDate(d) /\ cache'[d] \in {None, cache[d]} /\ (~Pending(d)' => ~Pending(d))
      BY <1>3, <2>2
    <3>2. CASE cache'[d] = None
      BY <1>4, <3>1, <3>2 DEF UpToDate, Known
    <3>3. CASE cache'[d] = cache[d]
      BY <1>4, <3>1, <3>3 DEF UpToDate, Known
    <3> QED
      BY <3>1, <3>2, <3>3
  <2> QED
    BY <2>1, <2>2
<1> QED
  BY <1>5, <1>6, <1>7 DEF PacedInv, AllUpToDate

LEMMA PacedClientStep ==
    ASSUME Waits, IInv, IInv', PacedInv, Client
    PROVE  PacedInv'
<1>1. ASSUME NEW d \in Docs, NEW s \in TextsOf[d], ExternalWrite(d, s)
      PROVE  PacedInv'
  <2>1. AtRest /\ fileEvents = {} /\ AllUpToDate /\ disk' = [disk EXCEPT ![d] = s]
    BY <1>1, ActsAtRest DEF ExternalWrite
  <2>2. (\A y \in Docs \ {d} : disk'[y] = disk[y]) /\ fileEvents' = {d}
    BY <1>1, <2>1 DEF ExternalWrite, IInv, TypeOK
  <2>3. UNCHANGED <<editor, shown, docs, symbols, cache, current, ready, task, result, step,
                    view>>
    BY <1>1 DEF ExternalWrite, work
  <2> QED
    BY <2>1, <2>2, <2>3, PacedDisk
<1>2. ASSUME DidChangeConfiguration
      PROVE  PacedInv'
  <2> DEFINE ds == {d \in Docs : docs[d] # None}
  <2>1. AtRest /\ AllUpToDate
    BY <1>2, ActsAtRest DEF DidChangeConfiguration
  <2>2. /\ cache' = [d \in Docs |-> None]
        /\ UNCHANGED <<editor, disk, shown, docs, symbols, current, task, result, step, view>>
    BY <1>2 DEF DidChangeConfiguration, work
  <2>3. PICK q \in Gathered(ds, docs) : ready' = ready \o q
    BY <1>2 DEF DidChangeConfiguration
  <2>4. /\ \A d \in Docs : cache'[d] = None
        /\ \A d \in Docs \ ds : UpToDate(d)
    BY <2>1, <2>2 DEF AllUpToDate
  <2> HIDE DEF ds
  <2>5. ds \in SUBSET {d \in Docs : docs[d] # None}
    BY DEF ds
  <2>6. /\ \A d \in Docs : cache'[d] = None \/ (d \notin ds /\ cache'[d] = cache[d])
        /\ \A d \in ds : cache'[d] = None
    BY <2>4, <2>5
  <2> QED
    BY <2>2, <2>3, <2>4, <2>5, <2>6, PacedRequeue
<1> QED
  BY <1>1, <1>2, PacedOpen, PacedChange, PacedSave, PacedClose DEF Client

(* workspace/didChangeWatchedFiles *)
LEMMA PacedWatcherStep ==
    ASSUME IInv, IInv', PacedInv, Watcher
    PROVE  PacedInv'
<1>1. PICK structural \in BOOLEAN : DidChangeWatchedFiles(structural)
  BY DEF Watcher
<1> DEFINE affected ==
          {d \in Docs : docs[d] # None /\
              \/ structural
              \/ d \in fileEvents /\ disk[d] # docs[d]
              \/ d \notin fileEvents /\ DependencyPaths(d) \intersect fileEvents # {}}
<1>2. /\ cache' = [d \in Docs |-> IF structural \/ d \in affected THEN None ELSE cache[d]]
      /\ UNCHANGED <<editor, disk, shown, docs, symbols, current, task, result, step, view>>
  BY <1>1 DEF DidChangeWatchedFiles, work
<1>3. PICK q \in Gathered(affected, docs) : ready' = ready \o q
  BY <1>1 DEF DidChangeWatchedFiles
<1>4. affected \in SUBSET {d \in Docs : docs[d] # None}
  OBVIOUS
<1>5. /\ \A d \in Docs : cache'[d] = None \/ (d \notin affected /\ cache'[d] = cache[d])
      /\ \A d \in affected : cache'[d] = None
  <2> HIDE DEF affected
  <2> QED
    BY <1>2, <1>4
<1>6. ASSUME NEW d \in Docs \ affected
      PROVE  UpToDate(d)
  <2>1. CASE AllUpToDate
    BY <2>1 DEF AllUpToDate
  <2>2. CASE WillBeFound
    <3>1. PICK x \in Docs :
             /\ fileEvents = {x}
             /\ UpToDate(d) \/ (d # x /\ x \in DependencyPaths(d))
      BY <2>2 DEF WillBeFound
    <3>2. CASE docs[d] = None
      BY <3>2 DEF UpToDate
    <3>3. CASE docs[d] # None
      BY <3>1, <3>3
    <3> QED
      BY <3>2, <3>3
  <2> QED
    BY <2>1, <2>2 DEF PacedInv
<1> HIDE DEF affected
<1> QED
  BY <1>2, <1>3, <1>4, <1>5, <1>6, PacedRequeue

(* A run goes a step further and nothing else changes. *)
LEMMA PacedMoved ==
    ASSUME IInv, PacedInv, AllUpToDate,
           UNCHANGED <<editor, disk, shown, docs, symbols, cache, ready, current, result>>,
           \A i \in Ids : /\ task'[i].uri = task[i].uri /\ task'[i].source = task[i].source
                          /\ task'[i].at # "free" => task[i].at # "free"
                          /\ task'[i].at = "computed" => task[i].at = "computed",
           step' \in {"checking", "store"} => view' = Overlay(docs)
    PROVE  PacedInv'
<1>1. Overlay(docs)' = Overlay(docs) /\ \A d \in Docs : Now(d)' = Now(d)
  BY NowSame
<1>2. Buffered'
  BY DEF PacedInv, Buffered, Validated, Pending
<1>3. Current'
  <2>1. \A i \in Ids : task'[i].at = "computed" => task[i].uri \in Docs
    BY DEF IInv, Shape
  <2> QED
    BY <1>1, <2>1 DEF PacedInv, Current, Known
<1>4. AllUpToDate'
  BY <1>1, StaysUpToDate DEF AllUpToDate, Pending
<1> QED
  BY <1>2, <1>3, <1>4 DEF PacedInv

(* A run publishes what is known of its document, and is over. *)
LEMMA PacedFinished ==
    ASSUME IInv, PacedInv, AllUpToDate, NEW i \in Ids, task[i].at \in {"starting", "computed"},
           Finish(i), NEW r, Known(task[i].uri, r),
           shown' = [shown EXCEPT ![task[i].uri] = r],
           cache' = [cache EXCEPT ![task[i].uri] = r],
           \A j \in Ids \ {i} : result'[j] = result[j],
           UNCHANGED <<editor, disk, docs, symbols, ready, step, view>>
    PROVE  PacedInv'
<1> USE DEF IInv
<1>0. PICK u : u = task[i].uri
  OBVIOUS
<1>1. /\ u \in Docs /\ current[u] = i /\ current'[u] = 0
      /\ \A x \in Docs \ {u} : current'[x] = current[x]
      /\ \A j \in Ids \ {i} : task'[j] = task[j]
      /\ task'[i] = Free
  BY <1>0 DEF Finish, LiveIsRegistered, Live, TypeOK
<1>2. docs[u] # None
  <2>1. task[i].source \in Texts /\ docs[u] = task[i].source
    BY <1>0 DEF Shape, PacedInv, Current
  <2> QED
    BY <2>1, LspAssumption
<1>3. Overlay(docs)' = Overlay(docs) /\ \A d \in Docs : Now(d)' = Now(d)
  BY NowSame
<1>4. /\ shown'[u] = r /\ cache'[u] = r
      /\ \A x \in Docs \ {u} : shown'[x] = shown[x] /\ cache'[x] = cache[x]
  BY <1>0, <1>1 DEF TypeOK
<1>5. \A x \in Docs \ {u} : Pending(x)' <=> Pending(x)
  BY <1>1 DEF Pending
<1>6. Buffered'
  BY <1>2, <1>4, <1>5 DEF PacedInv, Buffered, Validated
<1>7. Current'
  <2>1. ASSUME NEW j \in Ids, task'[j].at # "free"
        PROVE  j # i /\ task'[j] = task[j] /\ result'[j] = result[j] /\ task[j].uri \in Docs
    BY <1>1, <2>1 DEF Free, Shape
  <2>2. ASSUME NEW j \in Ids, task'[j].at = "computed"
        PROVE  Known(task[j].uri, result[j])'
    BY <1>3, <2>1, <2>2 DEF PacedInv, Current, Known
  <2> QED
    BY <1>3, <2>1, <2>2 DEF PacedInv, Current
<1>8. ASSUME NEW x \in Docs
      PROVE  UpToDate(x)'
  <2>1. CASE x = u
    <3>1. Known(u, r)'
      BY <1>0, <1>1, <1>3 DEF Known
    <3> QED
      BY <1>4, <2>1, <3>1 DEF UpToDate, Known
  <2>2. CASE x # u
    BY <1>3, <1>4, <1>5, <2>2, StaysUpToDate DEF AllUpToDate
  <2> QED
    BY <2>1, <2>2
<1> QED
  BY <1>6, <1>7, <1>8 DEF PacedInv, AllUpToDate

LEMMA PacedLoopStep ==
    ASSUME IInv, IInv', PacedInv, AllUpToDate, Loop
    PROVE  PacedInv'
<1> USE DEF IInv
<1>0. TypeOK
  OBVIOUS
<1>1. ASSUME RunSchedule
      PROVE  PacedInv'
  <2>0. PICK r : r = Head(ready)
    OBVIOUS
  <2>1. ready # <<>> /\ ready \in Seq([uri : Docs, source : Texts])
    BY <1>1 DEF RunSchedule, TypeOK
  <2>2. /\ r \in [uri : Docs, source : Texts]
        /\ r = ready[1] /\ 1 \in DOMAIN ready
    <3>1. Head(ready) \in [uri : Docs, source : Texts]
      BY <2>1, HeadTailProperties
    <3>2. Head(ready) = ready[1] /\ 1 \in DOMAIN ready
      BY <2>1
    <3> QED
      BY <2>0, <3>1, <3>2
  <2> DEFINE d == r.uri
             s == r.source
  <2>3. d \in Docs /\ s \in Texts /\ s # None /\ s = docs[d]
    BY <2>2, LspAssumption DEF PacedInv, Current
  <2>4. /\ Schedule(d, s, docs) /\ docs' = [docs EXCEPT ![d] = s] /\ ready' = Tail(ready)
        /\ UNCHANGED <<editor, disk, shown, symbols, cache, result, step, view>>
    BY <1>1, <2>0 DEF RunSchedule, Schedule, client, work
  <2> HIDE DEF d, s
  <2>5. docs' = docs
    BY <1>0, <2>3, <2>4 DEF TypeOK
  <2>6. Overlay(docs)' = Overlay(docs) /\ \A x \in Docs : Now(x)' = Now(x)
    BY <2>4, <2>5, NowSame
  <2>7. /\ current'[d] \in Ids
        /\ task'[current'[d]] = [uri |-> d, source |-> s, gen |-> generation[d] + 1,
                                 at |-> "starting"]
        /\ \A i \in Ids \ {current'[d]} : Spared(i)
        /\ \A x \in Docs \ {d} : current'[x] = current[x]
    BY <2>3, <2>4, ScheduleTasks
  <2>8. /\ \A k \in DOMAIN ready' : k + 1 \in DOMAIN ready /\ ready'[k] = ready[k + 1]
        /\ \A k \in DOMAIN ready : k = 1 \/ (k - 1 \in DOMAIN ready' /\ ready[k] = ready'[k - 1])
    BY <2>1, <2>4
  <2>9. /\ \A x \in Docs \ {d} : Pending(x)' <=> Pending(x)
        /\ Pending(d)'
    <3>1. ready[1].uri = d
      BY <2>2 DEF d
    <3>2. Pending(d)'
      BY <2>7 DEF Pending, Ids
    <3>3. ASSUME NEW x \in Docs \ {d}
          PROVE  Pending(x)' <=> Pending(x)
      <4>1. (\E k \in DOMAIN ready : ready[k].uri = x) <=> \E k \in DOMAIN ready' : ready'[k].uri = x
        BY <2>8, <3>1
      <4> QED
        BY <2>7, <4>1 DEF Pending
    <3> QED
      BY <3>2, <3>3
  <2>10. Buffered'
    BY <2>3, <2>4, <2>5, <2>9 DEF PacedInv, Buffered, Validated
  <2>11. Current'
    <3>1. ASSUME NEW i \in Ids, task'[i].at # "free"
          PROVE  task'[i].source = docs[task'[i].uri]
      <4>1. CASE i = current'[d]
        BY <2>3, <2>7, <4>1
      <4>2. CASE i # current'[d]
        BY <2>7, <3>1, <4>2 DEF Spared, Free, PacedInv, Current
      <4> QED
        BY <4>1, <4>2
    <3>2. ASSUME NEW i \in Ids, task'[i].at = "computed"
          PROVE  Known(task[i].uri, result[i])'
      <4>1. task'[i] = task[i] /\ task[i].uri \in Docs
        BY <2>7, <3>2 DEF Spared, Free, Shape
      <4> QED
        BY <2>4, <2>5, <2>6, <3>2, <4>1 DEF PacedInv, Current, Known
    <3>3. \A k \in DOMAIN ready' : ready'[k].source = docs'[ready'[k].uri]
      BY <2>5, <2>8 DEF PacedInv, Current
    <3> QED
      BY <2>4, <2>5, <2>6, <3>1, <3>2, <3>3 DEF PacedInv, Current
  <2>12. ASSUME NEW x \in Docs
         PROVE  UpToDate(x)'
    <3>1. UpToDate(x) /\ (Pending(x) => Pending(x)')
      BY <2>9 DEF AllUpToDate
    <3> QED
      BY <2>4, <2>5, <2>6, <3>1, StaysUpToDate
  <2> QED
    BY <2>10, <2>11, <2>12 DEF PacedInv, AllUpToDate
<1>2. ASSUME NEW i \in Ids, Start(i)
      PROVE  PacedInv'
  <2>1. /\ task[i].at = "starting" /\ ~Superseded(i) /\ task[i] \in Tasks
        /\ task[i].uri \in Docs /\ task[i].source \in Texts
    BY <1>2, LiveGoesOn DEF Start, Live, TypeOK, Shape
  <2>2. task[i].source = docs[task[i].uri]
    BY <2>1 DEF PacedInv, Current
  <2>3. CASE CacheHit(i)
    <3>1. /\ Finish(i) /\ shown' = [shown EXCEPT ![task[i].uri] = cache[task[i].uri]]
          /\ UNCHANGED <<editor, disk, docs, symbols, cache, ready, result, step, view>>
      BY <1>2, <2>1, <2>3 DEF Start, client, work
    <3>2. Known(task[i].uri, cache[task[i].uri])
      BY <2>1, <2>2, <2>3, LspAssumption DEF CacheHit, AllUpToDate, UpToDate
    <3>3. cache' = [cache EXCEPT ![task[i].uri] = cache[task[i].uri]]
      BY <1>0, <2>1, <3>1 DEF TypeOK
    <3> QED
      BY <2>1, <3>1, <3>2, <3>3, PacedFinished
  <2>4. CASE ~CacheHit(i)
    <3>1. /\ task' = [task EXCEPT ![i].at = "submitted"]
          /\ UNCHANGED <<editor, disk, shown, docs, symbols, cache, ready, current, result, step,
                         view>>
      BY <1>2, <2>1, <2>4 DEF Start, client, work
    <3>2. \A j \in Ids : /\ task'[j].uri = task[j].uri /\ task'[j].source = task[j].source
                         /\ task'[j].at # "free" => task[j].at # "free"
                         /\ task'[j].at = "computed" => task[j].at = "computed"
      BY <1>0, <2>1, <3>1 DEF TypeOK, Tasks
    <3>3. step' \in {"checking", "store"} => view' = Overlay(docs)
      BY <3>1 DEF PacedInv, Current
    <3> QED
      BY <3>1, <3>2, <3>3, PacedMoved
  <2> QED
    BY <2>3, <2>4
<1>3. ASSUME NEW i \in Ids, Resume(i)
      PROVE  PacedInv'
  <2>1. task[i].at = "computed" /\ ~Superseded(i) /\ task[i].uri \in Docs
    BY <1>3, LiveGoesOn DEF Resume, Live, Shape
  <2>2. Known(task[i].uri, result[i])
    BY <2>1 DEF PacedInv, Current
  <2>3. result[i] # None
    <3>1. docs[task[i].uri] \in Texts /\ Overlay(docs) \in [Docs -> Texts]
      BY <1>0, <2>1, OverlayType DEF PacedInv, Current, Shape
    <3> QED
      BY <2>1, <2>2, <3>1, CheckType, LspAssumption DEF Known, Now
  <2>4. /\ Finish(i) /\ shown' = [shown EXCEPT ![task[i].uri] = result[i]]
        /\ cache' = [cache EXCEPT ![task[i].uri] = result[i]]
        /\ UNCHANGED <<editor, disk, docs, symbols, ready, step, view>>
        /\ result' = [result EXCEPT ![i] = None]
    BY <1>3, <2>1, <2>3 DEF Resume, client
  <2>5. \A j \in Ids \ {i} : result'[j] = result[j]
    BY <2>4 DEF TypeOK
  <2> QED
    BY <2>1, <2>2, <2>4, <2>5, PacedFinished
<1> QED
  BY <1>1, <1>2, <1>3 DEF Loop

(* The worker hands over what it found, having stored the table or not. *)
LEMMA PacedReturned ==
    ASSUME IInv, PacedInv, AllUpToDate, step # "idle", NEW r, WorkerReturns(r), docs' = docs,
           \A d \in Docs : symbols'[d] \in {symbols[d], Now(d)},
           NEW u, u = task[worker].uri, task[worker].at = "running" => Known(u, r)'
    PROVE  PacedInv'
<1> USE DEF IInv
<1>1. /\ worker \in Ids /\ task[worker] \in Tasks /\ task[worker].uri \in Docs
      /\ task[worker].at \in {"running", "orphan"}
  BY LiveGoesOn DEF TypeOK
<1>2. UNCHANGED <<editor, disk, shown, cache, ready, current>> /\ step' = "idle"
  BY DEF WorkerReturns, client
<1>3. /\ task[worker].at = "running"
         => /\ task'[worker].at = "computed" /\ task'[worker].source = task[worker].source
            /\ task'[worker].uri = task[worker].uri
            /\ result'[worker] = r
      /\ task[worker].at = "orphan" => task'[worker] = Free
      /\ \A j \in Ids \ {worker} : task'[j] = task[j] /\ result'[j] = result[j]
  BY <1>1 DEF WorkerReturns, TypeOK, Tasks
<1>4. Overlay(docs)' = Overlay(docs) /\ \A d \in Docs : Now(d)' = Now(d)
  BY <1>2, NowSame
<1>5. Buffered'
  BY <1>2 DEF PacedInv, Buffered, Validated, Pending
<1>6. Current'
  <2>1. ASSUME NEW i \in Ids, task'[i].at # "free"
        PROVE  task'[i].source = docs[task'[i].uri]
    BY <1>1, <1>3, <2>1 DEF Free, PacedInv, Current
  <2>2. ASSUME NEW i \in Ids, task'[i].at = "computed"
        PROVE  task'[i].uri = task[i].uri /\ task[i].uri \in Docs
               /\ (result'[i] = Now(task[i].uri))
               /\ (docs[task[i].uri] \notin Crashing => symbols'[task[i].uri] = Now(task[i].uri))
    <3>1. CASE i = worker
      <4>1. task[worker].at = "running"
        BY <1>1, <1>3, <2>2, <3>1 DEF Free
      <4> QED
        BY <1>1, <1>2, <1>3, <1>4, <3>1, <4>1 DEF Known
    <3>2. CASE i # worker
      <4>1. task'[i] = task[i] /\ result'[i] = result[i] /\ task[i].uri \in Docs
            /\ Known(task[i].uri, result[i])
        BY <1>3, <2>2, <3>2 DEF PacedInv, Current, Shape
      <4>2. symbols'[task[i].uri] \in {symbols[task[i].uri], Now(task[i].uri)}
        BY <4>1
      <4> QED
        BY <4>1, <4>2 DEF Known
    <3> QED
      BY <3>1, <3>2
  <2>3. \A k \in DOMAIN ready' : ready'[k].source = docs'[ready'[k].uri]
    BY <1>2 DEF PacedInv, Current
  <2>4. \A i \in Ids : task'[i].at = "computed" => Known(task[i].uri, result[i])'
    BY <1>4, <2>2 DEF Known
  <2> QED
    BY <1>2, <2>1, <2>2, <2>3, <2>4 DEF Current
<1>7. ASSUME NEW d \in Docs
      PROVE  UpToDate(d)'
  <2>1. UpToDate(d) /\ symbols'[d] \in {symbols[d], Now(d)} /\ (Pending(d)' <=> Pending(d))
    BY <1>2 DEF AllUpToDate, Pending
  <2> QED
    BY <1>2, <1>4, <2>1 DEF UpToDate, Known
<1> QED
  BY <1>5, <1>6, <1>7 DEF PacedInv, AllUpToDate

LEMMA PacedWorkerStep ==
    ASSUME IInv, IInv', PacedInv, AllUpToDate, Worker
    PROVE  PacedInv'
<1> USE DEF IInv
<1>0. TypeOK
  OBVIOUS
<1>1. CASE WorkerTake
  <2>1. jobs # <<>> /\ jobs \in Seq(Ids)
    BY <1>1 DEF WorkerTake, TypeOK
  <2>2. Head(jobs) \in Ids /\ 1 \in DOMAIN jobs /\ Head(jobs) = jobs[1]
    BY <2>1
  <2>3. task[Head(jobs)].at = "submitted"
    BY <2>2 DEF JobsMatchTasks
  <2>4. \A j \in Ids : /\ task'[j].uri = task[j].uri /\ task'[j].source = task[j].source
                       /\ task'[j].at # "free" => task[j].at # "free"
                       /\ task'[j].at = "computed" => task[j].at = "computed"
    BY <1>1, <2>2, <2>3 DEF WorkerTake, TypeOK, Tasks
  <2> QED
    BY <1>1, <2>4, PacedMoved DEF WorkerTake, client
<1>2. CASE WorkerBuffer
  <2>1. /\ worker \in Ids /\ task[worker].at # "free" /\ task[worker].uri \in Docs
        /\ docs' = [docs EXCEPT ![task[worker].uri] = task[worker].source]
        /\ step' = "buffered"
        /\ UNCHANGED <<editor, disk, shown, symbols, cache, ready, current, task, result>>
    BY <1>2, LiveGoesOn DEF WorkerBuffer, client
  <2>2. docs' = docs
    BY <2>1 DEF PacedInv, Current, TypeOK
  <2> QED
    BY <2>1, <2>2, PacedMoved
<1>3. CASE WorkerGoesOn \/ WorkerChecked
  <2>1. /\ view' = view /\ step' \in {"snapshot", "store"} /\ (step' = "store" => step = "checking")
        /\ UNCHANGED <<editor, disk, shown, docs, symbols, cache, ready, current, task, result>>
    BY <1>3 DEF WorkerGoesOn, WorkerChecked, client
  <2>2. step' \in {"checking", "store"} => view' = Overlay(docs)
    BY <2>1 DEF PacedInv, Current
  <2> QED
    BY <2>1, <2>2, PacedMoved
<1>4. CASE WorkerSnapshot
  BY <1>4, PacedMoved DEF WorkerSnapshot, client
<1>5. CASE WorkerAbort
  <2>1. step # "idle" /\ Superseded(worker) /\ WorkerReturns(None) /\ UNCHANGED <<docs, symbols>>
    BY <1>5 DEF WorkerAbort
  <2>2. task[worker].at # "running"
    BY <2>1, LiveGoesOn DEF Live
  <2> QED
    BY <2>1, <2>2, PacedReturned
<1>6. CASE WorkerStore \/ WorkerCrash
  <2>0. PICK u : u = task[worker].uri
    OBVIOUS
  <2>1. /\ step \in {"checking", "store"} /\ WorkerReturns(Outcome) /\ docs' = docs
        /\ \/ symbols' = [symbols EXCEPT ![u] = Outcome]
           \/ symbols' = symbols /\ task[worker].source \in Crashing
    BY <1>6, <2>0 DEF WorkerStore, WorkerCrash
  <2>2. /\ worker \in Ids /\ u \in Docs
        /\ task[worker].source = docs[u] /\ view = Overlay(docs)
    BY <2>0, <2>1, LiveGoesOn DEF PacedInv, Current
  <2>3. Outcome = Now(u)
    BY <2>0, <2>2 DEF Outcome, Now
  <2>4. \A d \in Docs : symbols'[d] \in {symbols[d], Now(d)}
    BY <1>0, <2>1, <2>2, <2>3 DEF TypeOK
  <2>5. docs[u] \notin Crashing => symbols'[u] = Now(u)
    BY <1>0, <2>1, <2>2, <2>3 DEF TypeOK
  <2>6. PICK r : r = Outcome
    OBVIOUS
  <2>7. Now(u)' = Now(u)
    BY <2>1, <2>2, NowSame DEF WorkerReturns, client
  <2>8. Known(u, r)'
    BY <2>1, <2>3, <2>5, <2>6, <2>7 DEF Known
  <2>9. step # "idle" /\ WorkerReturns(r)
    BY <2>1, <2>6
  <2> QED
    BY <2>0, <2>1, <2>4, <2>8, <2>9, PacedReturned
<1> QED
  BY <1>1, <1>2, <1>3, <1>4, <1>5, <1>6 DEF Worker

LEMMA PacedStep ==
    ASSUME Waits, IInv, PacedInv, [Next]_vars
    PROVE  PacedInv'
<1>1. IInv'
  BY InvariantStep
<1>2. CASE Client
  BY <1>1, <1>2, PacedClientStep
<1>3. CASE Watcher
  BY <1>1, <1>3, PacedWatcherStep
<1>4. CASE Loop \/ Worker
  <2>1. AllUpToDate
    BY <1>4, RestIsRest DEF PacedInv, WillBeFound
  <2> QED
    BY <1>1, <1>4, <2>1, PacedLoopStep, PacedWorkerStep
<1>5. CASE UNCHANGED vars
  <2>1. \A d \in Docs : UpToDate(d)' <=> UpToDate(d)
    BY <1>5 DEF vars, UpToDate, Known, Pending, Now, Overlay
  <2>2. Buffered' /\ Current'
    BY <1>5 DEF vars, PacedInv, Buffered, Current, Validated, Pending, Known, Now, Overlay
  <2>3. AllUpToDate => AllUpToDate'
    BY <2>1 DEF AllUpToDate
  <2>4. WillBeFound => WillBeFound'
    BY <1>5, <2>1 DEF vars, WillBeFound, AtRest, DependencyPaths
  <2> QED
    BY <2>2, <2>3, <2>4 DEF PacedInv
<1> QED
  BY <1>2, <1>3, <1>4, <1>5 DEF Next

(* A client that waits for the server between two actions always sees the  *)
(* diagnostics of the current texts, whichever of the modules that a       *)
(* document imports, however deep, is open, edited, saved, closed or       *)
(* changed on disk: for any graph of imports, cyclic ones included, and    *)
(* whatever the checker makes of a text (the dependents of                 *)
(* _dependent_open_uris and of the watcher are enough, and no entry of     *)
(* _validation_cache that is kept is stale; pengu_lsp/server.py).          *)
THEOREM PatientClientSeesFresh ==
    ASSUME Waits
    PROVE  Spec => []SettledShowsFresh
<1>1. Init => IInv /\ PacedInv
  BY InitIInv, PacedInit
<1>2. IInv /\ PacedInv /\ [Next]_vars => (IInv /\ PacedInv)'
  BY InvariantStep, PacedStep
<1>3. IInv /\ PacedInv => SettledShowsFresh
  <2> SUFFICES ASSUME IInv, PacedInv, Settled, NEW d \in Docs, Validated(d)
               PROVE  shown[d] = Fresh(d)
    BY DEF SettledShowsFresh
  <2>1. AllUpToDate /\ AtRest
    BY DEF PacedInv, WillBeFound, Settled
  <2>2. docs[d] = editor[d] /\ editor[d] \in Texts
    BY DEF PacedInv, Buffered, Validated, IInv, TypeOK
  <2>3. shown[d] = Now(d)
    BY <2>1, <2>2, RestFacts, LspAssumption DEF AllUpToDate, UpToDate, Known
  <2>4. Overlay(docs) \in [Docs -> Texts] /\ Overlay(editor) \in [Docs -> Texts]
    BY DEF IInv, TypeOK, Overlay
  <2>5. ASSUME NEW y \in DOMAIN Now(d).deps
        PROVE  Overlay(editor)[y] = Overlay(docs)[y]
    <3>1. y \in Importable \cap Docs
      BY <2>2, <2>4, DepsFacts DEF Now
    <3>2. editor[y] = None \/ editor[y] # Empty
      BY <3>1 DEF Waits, PacedInv, Buffered
    <3>3. docs[y] = editor[y]
      BY <3>1, <3>2 DEF PacedInv, Buffered, Validated
    <3> QED
      BY <3>1, <3>3 DEF Overlay
  <2>6. Fresh(d) = Now(d)
    BY <2>2, <2>4, <2>5, SameCheck DEF Fresh, Now
  <2> QED
    BY <2>3, <2>6
<1> QED
  BY <1>1, <1>2, <1>3, PTL DEF Spec

-----------------------------------------------------------------------------
(* Requests.  A validation leaves a symbol table, unless the text made the *)
(* checker crash, which only the cache remembers.  So no document is empty,*)
(* and either no text crashes the checker or nothing but an edit drops a   *)
(* cache.                                                                  *)
CrashesRemembered ==
    Empty \notin Texts /\ (Crashing \intersect Texts = {} \/ Ops \subseteq Typing)

HasTable(d, r) == symbols[d] # None \/ r.text \in Crashing

TableInv ==
    /\ Ops \subseteq Typing => fileEvents = {}
    /\ \A d \in Docs : cache[d] # None => HasTable(d, cache[d])
    /\ \A i \in Ids : task[i].at = "computed"
                         => result[i] # None /\ HasTable(task[i].uri, result[i])
    /\ \A d \in Docs : editor[d] # None =>
          \/ current[d] # 0
          \/ symbols[d] # None
          \/ cache[d] # None /\ cache[d].text \in Crashing

LEMMA TableInit == Init => TableInv
  BY DEF Init, TableInv, Free

LEMMA TableScheduled ==
    ASSUME IInv, TableInv, NEW d \in Docs, NEW s \in Texts, NEW buffers, Schedule(d, s, buffers),
           \A x \in Docs \ {d} : editor'[x] = editor[x],
           Ops \subseteq Typing => fileEvents' = {},
           UNCHANGED <<symbols, cache, result>>
    PROVE  TableInv'
<1>1. /\ current'[d] \in Ids
      /\ task'[current'[d]] = [uri |-> d, source |-> s, gen |-> generation[d] + 1,
                               at |-> "starting"]
      /\ \A i \in Ids \ {current'[d]} : Spared(i)
      /\ \A x \in Docs \ {d} : current'[x] = current[x]
  BY ScheduleTasks
<1>2. ASSUME NEW i \in Ids, task'[i].at = "computed"
      PROVE  task'[i] = task[i]
  <2>1. i # current'[d]
    BY <1>1, <1>2
  <2> QED
    BY <1>1, <1>2, <2>1 DEF Free, Spared
<1>3. \A i \in Ids : task'[i].at = "computed"
                        => result[i] # None /\ HasTable(task'[i].uri, result[i])
  BY <1>2 DEF TableInv
<1>4. \A x \in Docs : editor'[x] # None =>
          \/ current'[x] # 0
          \/ symbols[x] # None
          \/ cache[x] # None /\ cache[x].text \in Crashing
  BY <1>1 DEF TableInv, Ids
<1> QED
  BY <1>3, <1>4 DEF TableInv, HasTable

LEMMA TableDropped ==
    ASSUME IInv, TableInv,
           \A x \in Docs : \/ cache'[x] = cache[x]
                           \/ cache'[x] = None
                              /\ (symbols[x] # None \/ Crashing \intersect Texts = {}),
           \A x \in Docs : editor'[x] # None => editor[x] # None,
           Ops \subseteq Typing => fileEvents' = {},
           UNCHANGED <<symbols, current, task, result>>
    PROVE  TableInv'
<1>1. \A x \in Docs : cache[x] # None => cache[x].text \in Texts
  BY DEF IInv, TypeOK, Results, Checks
<1>2. \A x \in Docs : editor'[x] # None =>
          \/ current[x] # 0
          \/ symbols[x] # None
          \/ cache'[x] # None /\ cache'[x].text \in Crashing
  BY <1>1 DEF TableInv
<1> QED
  BY <1>2 DEF TableInv, HasTable

LEMMA TableClientStep ==
    ASSUME CrashesRemembered, IInv, IInv', TableInv, Client \/ Watcher
    PROVE  TableInv'
<1>0. TypeOK
  BY DEF IInv
<1>1. ASSUME NEW d \in Docs, NEW s \in TextsOf[d], DidOpen(d, s)
      PROVE  TableInv'
  <2>1. s \in Texts /\ s # Empty
    BY TextType DEF CrashesRemembered
  <2>2. /\ Schedule(d, s, docs) /\ editor' = [editor EXCEPT ![d] = s]
        /\ UNCHANGED <<fileEvents, symbols, cache, result>>
    BY <1>1, <2>1 DEF DidOpen, work
  <2> QED
    BY <1>0, <2>1, <2>2, TableScheduled DEF TypeOK, TableInv
<1>2. ASSUME NEW d \in Docs, DidSave(d)
      PROVE  TableInv'
  <2>1. editor[d] \in Texts /\ editor[d] # Empty
    BY <1>0, <1>2 DEF DidSave, TypeOK, CrashesRemembered
  <2>2. /\ Schedule(d, editor[d], docs) /\ ~(Ops \subseteq Typing)
        /\ UNCHANGED <<editor, symbols, cache, result>>
    BY <1>2, <2>1 DEF DidSave, Act, Typing, work
  <2> QED
    BY <2>1, <2>2, TableScheduled
<1>3. ASSUME NEW d \in Docs, NEW s \in TextsOf[d], DidChange(d, s)
      PROVE  TableInv'
  <2>1. s \in Texts /\ s # Empty
    BY TextType DEF CrashesRemembered
  <2>2. /\ cache' = [x \in Docs |-> IF x \in DependentOpenUris(d) THEN None ELSE cache[x]]
        /\ editor[d] # None /\ editor' = [editor EXCEPT ![d] = s]
        /\ UNCHANGED <<fileEvents, symbols, current, task, result>>
    BY <1>3, <2>1 DEF DidChange, work
  <2>3. \A x \in DependentOpenUris(d) : symbols[x] # None
    BY DEF DependentOpenUris, DependencyPaths
  <2>4. \A x \in Docs : \/ cache'[x] = cache[x]
                        \/ cache'[x] = None
                           /\ (symbols[x] # None \/ Crashing \intersect Texts = {})
    BY <2>2, <2>3
  <2>5. \A x \in Docs : editor'[x] # None => editor[x] # None
    BY <1>0, <2>2 DEF TypeOK
  <2> QED
    BY <2>2, <2>4, <2>5, TableDropped DEF TableInv
<1>4. ASSUME NEW d \in Docs, DidClose(d)
      PROVE  TableInv'
  <2>1. /\ editor'[d] = None /\ cache'[d] = None /\ current'[d] = 0
        /\ \A x \in Docs \ {d} : /\ editor'[x] = editor[x] /\ cache'[x] = cache[x]
                                 /\ symbols'[x] = symbols[x] /\ current'[x] = current[x]
        /\ UNCHANGED <<fileEvents, result>>
    BY <1>0, <1>4 DEF DidClose, TypeOK, work
  <2>2. \A i \in Ids : Spared(i)
    BY <1>4, CloseTasks DEF DidClose
  <2>3. ASSUME NEW i \in Ids, task'[i].at = "computed"
        PROVE  task'[i] = task[i] /\ task[i].uri \in Docs \ {d}
    <3>1. task'[i] = task[i]
      BY <2>2, <2>3 DEF Spared, Free
    <3>2. task'[i].uri \in Docs /\ current'[task'[i].uri] = i
      BY <2>3 DEF IInv, LiveIsRegistered, Live
    <3> QED
      BY <2>1, <3>1, <3>2 DEF Ids
  <2>4. ASSUME NEW i \in Ids, task'[i].at = "computed"
        PROVE  result'[i] # None /\ HasTable(task[i].uri, result[i])'
    BY <2>1, <2>3, <2>4 DEF TableInv, HasTable
  <2>5. \A x \in Docs : cache'[x] # None => HasTable(x, cache[x])'
    BY <2>1 DEF TableInv, HasTable
  <2>6. \A x \in Docs : editor'[x] # None =>
            \/ current'[x] # 0
            \/ symbols'[x] # None
            \/ cache'[x] # None /\ cache'[x].text \in Crashing
    BY <2>1 DEF TableInv
  <2> QED
    BY <2>1, <2>4, <2>5, <2>6 DEF TableInv
<1>5. ASSUME NEW d \in Docs, NEW s \in TextsOf[d], ExternalWrite(d, s)
      PROVE  TableInv'
  BY <1>5, TableDropped DEF ExternalWrite, Act, Typing, work
<1>6. ASSUME DidChangeConfiguration
      PROVE  TableInv'
  <2>1. ~(Ops \subseteq Typing) /\ Crashing \intersect Texts = {}
    BY <1>6 DEF DidChangeConfiguration, Act, Typing, CrashesRemembered
  <2>2. cache' = [x \in Docs |-> None] /\ UNCHANGED <<editor, symbols, current, task, result>>
    BY <1>6 DEF DidChangeConfiguration, work
  <2> QED
    BY <2>1, <2>2, TableDropped
<1>7. ASSUME NEW structural \in BOOLEAN, DidChangeWatchedFiles(structural)
      PROVE  TableInv'
  <2>1. ~(Ops \subseteq Typing) /\ Crashing \intersect Texts = {}
    BY <1>7 DEF DidChangeWatchedFiles, TableInv, CrashesRemembered
  <2>2. /\ \A x \in Docs : cache'[x] \in {None, cache[x]}
        /\ UNCHANGED <<editor, symbols, current, task, result>>
    BY <1>7 DEF DidChangeWatchedFiles, work
  <2> QED
    BY <2>1, <2>2, TableDropped
<1> QED
  BY <1>1, <1>2, <1>3, <1>4, <1>5, <1>6, <1>7 DEF Client, Watcher

LEMMA TableFinished ==
    ASSUME IInv, TableInv, NEW i \in Ids, task[i].at \in {"starting", "computed"}, Finish(i),
           NEW r, r # None, HasTable(task[i].uri, r),
           cache' = [cache EXCEPT ![task[i].uri] = r],
           \A j \in Ids \ {i} : result'[j] = result[j],
           UNCHANGED <<editor, fileEvents, symbols>>
    PROVE  TableInv'
<1> USE DEF IInv
<1>0. PICK u : u = task[i].uri
  OBVIOUS
<1>1. /\ u \in Docs
      /\ \A x \in Docs \ {u} : current'[x] = current[x]
      /\ \A j \in Ids \ {i} : task'[j] = task[j]
      /\ task'[i] = Free
  BY <1>0 DEF Finish, LiveIsRegistered, Live, TypeOK
<1>2. cache'[u] = r /\ \A x \in Docs \ {u} : cache'[x] = cache[x]
  BY <1>0, <1>1 DEF TypeOK
<1>3. \A x \in Docs : cache'[x] # None => symbols[x] # None \/ cache'[x].text \in Crashing
  BY <1>0, <1>2 DEF TableInv, HasTable
<1>4. ASSUME NEW j \in Ids, task'[j].at = "computed"
      PROVE  /\ task'[j] = task[j] /\ result'[j] = result[j]
             /\ result[j] # None /\ HasTable(task[j].uri, result[j])
  BY <1>1, <1>4 DEF Free, TableInv
<1>5. ASSUME NEW x \in Docs, editor[x] # None
      PROVE  \/ current'[x] # 0
             \/ symbols[x] # None
             \/ cache'[x] # None /\ cache'[x].text \in Crashing
  <2>1. CASE x = u
    BY <1>0, <1>2, <2>1 DEF HasTable
  <2>2. CASE x # u
    BY <1>1, <1>2, <1>5, <2>2 DEF TableInv
  <2> QED
    BY <2>1, <2>2
<1> QED
  BY <1>3, <1>4, <1>5 DEF TableInv, HasTable

(* A run goes a step further and nothing else changes. *)
LEMMA TableMoved ==
    ASSUME TableInv, UNCHANGED <<editor, fileEvents, symbols, cache, current, result>>,
           \A i \in Ids : task'[i].at = "computed"
                             => task[i].at = "computed" /\ task'[i].uri = task[i].uri
    PROVE  TableInv'
BY DEF TableInv, HasTable

LEMMA TableReturned ==
    ASSUME IInv, TableInv, step # "idle", NEW r, WorkerReturns(r),
           NEW u, u = task[worker].uri,
           symbols' = symbols \/ \E t : t # None /\ symbols' = [symbols EXCEPT ![u] = t],
           task[worker].at = "running" => r # None /\ HasTable(u, r)'
    PROVE  TableInv'
<1> USE DEF IInv
<1>1. /\ worker \in Ids /\ task[worker] \in Tasks /\ u \in Docs
      /\ task[worker].at \in {"running", "orphan"}
  BY LiveGoesOn DEF TypeOK
<1>2. UNCHANGED <<editor, fileEvents, cache, current>>
  BY DEF WorkerReturns, client
<1>3. /\ task[worker].at = "running"
         => task'[worker].at = "computed" /\ task'[worker].uri = u /\ result'[worker] = r
      /\ task[worker].at = "orphan" => task'[worker] = Free
      /\ \A j \in Ids \ {worker} : task'[j] = task[j] /\ result'[j] = result[j]
  BY <1>1 DEF WorkerReturns, TypeOK, Tasks
<1>4. \A x \in Docs : symbols[x] # None => symbols'[x] # None
  BY DEF TypeOK
<1>5. ASSUME NEW i \in Ids, task'[i].at = "computed"
      PROVE  /\ result'[i] # None
             /\ symbols'[task'[i].uri] # None \/ result'[i].text \in Crashing
  <2>1. CASE i = worker
    BY <1>1, <1>3, <1>5, <2>1 DEF Free, HasTable
  <2>2. CASE i # worker
    BY <1>3, <1>4, <1>5, <2>2 DEF TableInv, HasTable, Shape
  <2> QED
    BY <2>1, <2>2
<1> QED
  BY <1>2, <1>4, <1>5 DEF TableInv, HasTable

LEMMA TableServerStep ==
    ASSUME CrashesRemembered, IInv, TableInv, Loop \/ Worker
    PROVE  TableInv'
<1> USE DEF IInv
<1>0. TypeOK
  OBVIOUS
<1>1. ASSUME RunSchedule
      PROVE  TableInv'
  <2>1. ready # <<>> /\ ready \in Seq([uri : Docs, source : Texts])
    BY <1>1 DEF RunSchedule, TypeOK
  <2>2. Head(ready) \in [uri : Docs, source : Texts]
    BY <2>1, HeadTailProperties
  <2>3. /\ Schedule(Head(ready).uri, Head(ready).source, docs)
        /\ UNCHANGED <<editor, fileEvents, symbols, cache, result>>
    BY <1>1 DEF RunSchedule, client, work
  <2> QED
    BY <2>2, <2>3, TableScheduled DEF TableInv
<1>2. ASSUME NEW i \in Ids, Start(i)
      PROVE  TableInv'
  <2>1. /\ task[i].at = "starting" /\ ~Superseded(i) /\ task[i] \in Tasks /\ task[i].uri \in Docs
        /\ UNCHANGED <<editor, fileEvents, symbols, cache, result>>
    BY <1>2, LiveGoesOn DEF Start, Live, TypeOK, Shape, client, work
  <2>2. CASE CacheHit(i)
    <3>1. Finish(i) /\ cache[task[i].uri] # None
      BY <1>2, <2>1, <2>2 DEF Start, CacheHit
    <3>2. HasTable(task[i].uri, cache[task[i].uri])
      BY <2>1, <3>1 DEF TableInv
    <3>3. cache' = [cache EXCEPT ![task[i].uri] = cache[task[i].uri]]
      BY <1>0, <2>1 DEF TypeOK
    <3> QED
      BY <2>1, <3>1, <3>2, <3>3, TableFinished
  <2>3. CASE ~CacheHit(i)
    <3>1. task' = [task EXCEPT ![i].at = "submitted"] /\ current' = current
      BY <1>2, <2>1, <2>3 DEF Start
    <3>2. \A j \in Ids : task'[j].at = "computed"
                            => task[j].at = "computed" /\ task'[j].uri = task[j].uri
      BY <1>0, <2>1, <3>1 DEF TypeOK, Tasks
    <3> QED
      BY <2>1, <3>1, <3>2, TableMoved
  <2> QED
    BY <2>2, <2>3
<1>3. ASSUME NEW i \in Ids, Resume(i)
      PROVE  TableInv'
  <2>1. task[i].at = "computed" /\ ~Superseded(i)
    BY <1>3, LiveGoesOn DEF Resume, Live
  <2>2. result[i] # None /\ HasTable(task[i].uri, result[i])
    BY <2>1 DEF TableInv
  <2>3. /\ Finish(i) /\ cache' = [cache EXCEPT ![task[i].uri] = result[i]]
        /\ UNCHANGED <<editor, fileEvents, symbols>>
        /\ result' = [result EXCEPT ![i] = None]
    BY <1>3, <2>1, <2>2 DEF Resume, client
  <2>4. \A j \in Ids \ {i} : result'[j] = result[j]
    BY <1>0, <2>3 DEF TypeOK
  <2> QED
    BY <2>1, <2>2, <2>3, <2>4, TableFinished
<1>4. CASE WorkerTake
  <2>1. Head(jobs) \in Ids
    BY <1>4 DEF WorkerTake, TypeOK
  <2>2. \A j \in Ids : task'[j].at = "computed"
                          => task[j].at = "computed" /\ task'[j].uri = task[j].uri
    BY <1>4, <2>1 DEF WorkerTake, TypeOK, Tasks
  <2> QED
    BY <1>4, <2>2, TableMoved DEF WorkerTake, client
<1>5. CASE WorkerBuffer \/ WorkerGoesOn \/ WorkerSnapshot \/ WorkerChecked
  BY <1>5, TableMoved DEF WorkerBuffer, WorkerGoesOn, WorkerSnapshot, WorkerChecked, client
<1>6. CASE WorkerAbort
  <2>1. step # "idle" /\ Superseded(worker) /\ WorkerReturns(None) /\ symbols' = symbols
    BY <1>6 DEF WorkerAbort
  <2>2. task[worker].at # "running"
    BY <2>1, LiveGoesOn DEF Live
  <2> QED
    BY <2>1, <2>2, TableReturned
<1>7. CASE WorkerStore \/ WorkerCrash
  <2>0. PICK u, r : u = task[worker].uri /\ r = Outcome
    OBVIOUS
  <2>1. /\ step \in {"checking", "store"} /\ WorkerReturns(r)
        /\ \/ symbols' = [symbols EXCEPT ![u] = r]
           \/ symbols' = symbols /\ task[worker].source \in Crashing
    BY <1>7, <2>0 DEF WorkerStore, WorkerCrash
  <2>2. u \in Docs /\ task[worker].source \in Texts /\ view \in [Docs -> Texts]
    BY <2>0, <2>1, LiveGoesOn DEF Shape
  <2>3. r # None /\ r.text = task[worker].source
    BY <2>0, <2>2, CheckType, LspAssumption DEF Outcome
  <2>4. HasTable(u, r)'
    BY <1>0, <2>1, <2>2, <2>3 DEF HasTable, TypeOK
  <2> QED
    BY <2>0, <2>1, <2>3, <2>4, TableReturned
<1> QED
  BY <1>1, <1>2, <1>3, <1>4, <1>5, <1>6, <1>7 DEF Loop, Worker

RequestTypeOK == request \in {None} \union Requests

LEMMA TurnType ==
    ASSUME IInv, NEW d \in Docs, NEW late \in BOOLEAN, Turn(d, late)
    PROVE  RequestTypeOK'
<1>1. current[d] \in Ids \union {0}
  BY DEF IInv, TypeOK
<1>2. [uri |-> d, on |-> current[d], late |-> FALSE] \in Requests
  BY <1>1 DEF Requests
<1> QED
  BY <1>2 DEF Turn, RequestTypeOK

LEMMA RequestTypeStep ==
    ASSUME IInv, RequestTypeOK, [RequestNext]_requestVars
    PROVE  /\ RequestTypeOK' /\ [Next]_vars
           /\ request # None /\ request' = None
                 => Turn(request.uri, request.late) /\ request.uri \in Docs
<1>1. ASSUME request # None
      PROVE  /\ request \in Requests /\ request.uri \in Docs /\ request.late \in BOOLEAN
             /\ [request EXCEPT !.on = 0] \in Requests
             /\ [request EXCEPT !.late = TRUE, !.on = 0] \in Requests
             /\ [request EXCEPT !.on = 0] # None
             /\ [request EXCEPT !.late = TRUE, !.on = 0] # None
  <2>1. request \in Requests
    BY <1>1 DEF RequestTypeOK
  <2>2. /\ [request EXCEPT !.on = 0] \in Requests
        /\ [request EXCEPT !.late = TRUE, !.on = 0] \in Requests
    BY <2>1 DEF Requests
  <2> QED
    BY <2>1, <2>2, RequestAssumption DEF Requests
<1>2. CASE ServerStep
  <2>1. request' \in {request, [request EXCEPT !.on = 0]}
        /\ (request = None => request' = None)
    BY <1>2 DEF ServerStep, Noticed
  <2> QED
    BY <1>1, <1>2, <2>1 DEF ServerStep, RequestTypeOK
<1>3. CASE \E d \in Docs : Ask(d)
  BY <1>3, TurnType DEF Ask
<1>4. CASE LookAgain
  BY <1>1, <1>4, TurnType DEF LookAgain
<1>5. CASE Expire \/ CancelRequest
  BY <1>1, <1>5 DEF Expire, CancelRequest, RequestTypeOK
<1>6. CASE UNCHANGED requestVars
  BY <1>6 DEF requestVars, RequestTypeOK
<1> QED
  BY <1>2, <1>3, <1>4, <1>5, <1>6 DEF RequestNext

LEMMA TableStep ==
    ASSUME CrashesRemembered, IInv, TableInv, [Next]_vars
    PROVE  TableInv'
<1>1. IInv'
  BY InvariantStep
<1>2. CASE UNCHANGED vars
  BY <1>2 DEF vars, TableInv, HasTable
<1> QED
  BY <1>1, <1>2, TableClientStep, TableServerStep DEF Next

(* "so an immediate request sees it" (pengu_lsp/server.py:933): however    *)
(* many documents, edits and runs there are, a request that has waited and *)
(* is answered before its deadline finds a symbol table, unless its        *)
(* document was closed or the checker crashed on its text.                 *)
THEOREM AnswersHaveATable ==
    ASSUME CrashesRemembered
    PROVE  RequestSpec => FirstAnswerHasTable
<1>1. RequestInit => IInv /\ TableInv /\ RequestTypeOK
  BY InitIInv, TableInit DEF RequestInit, RequestTypeOK
<1>2. IInv /\ TableInv /\ RequestTypeOK /\ [RequestNext]_requestVars
        => (IInv /\ TableInv /\ RequestTypeOK)'
  BY RequestTypeStep, InvariantStep, TableStep
<1> DEFINE Answered ==
      request # None /\ ~request.late /\ request' = None =>
         LET d == request.uri
         IN  \/ symbols[d] # None \/ editor[d] = None
             \/ cache[d] # None /\ cache[d].text \in Crashing
<1>3. IInv /\ TableInv /\ RequestTypeOK /\ [RequestNext]_requestVars => [Answered]_requestVars
  <2> SUFFICES ASSUME IInv, TableInv, RequestTypeOK, [RequestNext]_requestVars,
                      request # None, ~request.late, request' = None
               PROVE  LET d == request.uri
                      IN  \/ symbols[d] # None \/ editor[d] = None
                          \/ cache[d] # None /\ cache[d].text \in Crashing
    OBVIOUS
  <2>1. Turn(request.uri, request.late) /\ request.uri \in Docs
    BY RequestTypeStep
  <2>2. symbols[request.uri] # None \/ current[request.uri] = 0
    <3>1. ASSUME symbols[request.uri] = None, current[request.uri] # 0
          PROVE  FALSE
      <4>1. request' = [uri |-> request.uri, on |-> current[request.uri], late |-> FALSE]
        BY <2>1, <3>1 DEF Turn
      <4>2. request' \in Requests
        BY <2>1, <4>1 DEF Requests, IInv, TypeOK
      <4> QED
        BY <4>2, RequestAssumption
    <3> QED
      BY <3>1
  <2> QED
    BY <2>1, <2>2 DEF TableInv
<1> QED
  BY <1>1, <1>2, <1>3, PTL DEF RequestSpec, FirstAnswerHasTable
=============================================================================
