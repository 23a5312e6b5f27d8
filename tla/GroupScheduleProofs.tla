------------------------- MODULE GroupScheduleProofs -------------------------
(***************************************************************************)
(* Proofs about GroupSchedule for any TaskRunners and number of scheduler  *)
(* instances.                                                              *)
(*                                                                         *)
(* A TaskRunner never has more than two calls outstanding, and which ones  *)
(* is a matter of where its run() is: the mailboxes are segments of the    *)
(* three calls in the order they are made.                                 *)
(***************************************************************************)
EXTENDS GroupSchedule, SequenceTheorems, TLAPS

Segments ==
  {<<>>, <<"runtime_kind">>, <<"attach_task">>, <<"detach_task">>,
   <<"attach_task", "detach_task">>}

(* The map has or will have a handle of t. *)
Entered(t) == t \in task_runners \/ "attach_task" \in ToSet(mailbox[t])

(* What is outstanding and attached at each place in run(). *)
Progress(t) ==
  /\ pc[t] = "new" <=> handle[t] = 0
  /\ pc[t] = "new" => mailbox[t] = <<>>
  /\ pc[t] \in {"asking", "failed"} =>
       mailbox[t] \in {<<>>, <<"runtime_kind">>} /\ t \notin task_runners
  /\ pc[t] = "asking" /\ answer[t] = "ok" => mailbox[t] = <<>>
  /\ pc[t] = "attaching" => mailbox[t] \in {<<>>, <<"attach_task">>}
  /\ pc[t] = "attaching" /\ answer[t] = "ok" =>
       mailbox[t] = <<>> /\ (handle[t] = instance => t \in task_runners)
  /\ pc[t] = "running" =>
       mailbox[t] = <<>> /\ (handle[t] = instance => t \in task_runners)
  /\ pc[t] \in {"detaching", "done", "crashed"} /\ Entered(t) =>
       "detach_task" \in ToSet(mailbox[t]) \/ t \in lost

IInv ==
  /\ TypeOK
  /\ mailbox \in [Tasks -> Segments]
  /\ handle \in [Tasks -> 0 .. instances]
  /\ instance = 0 => task_runners = {}
  /\ \A t \in Tasks : Progress(t)

-----------------------------------------------------------------------------
(* Mailboxes *)

(* Sequences of at most two calls. *)
LEMMA ShortSequences ==
  ASSUME NEW x, NEW y
  PROVE  /\ ToSet(<<>>) = {} /\ ToSet(<<x>>) = {x} /\ ToSet(<<x, y>>) = {x, y}
         /\ Last(<<x>>) = x /\ Last(<<x, y>>) = y
         /\ Append(<<>>, x) = <<x>> /\ Append(<<x>>, y) = <<x, y>>
         /\ SubSeq(<<x, y>>, 1, 1) = <<x>>
<1> DEFINE S == {x, y}
<1>1. <<x>> \in Seq(S) /\ <<x, y>> \in Seq(S)
  OBVIOUS
<1>2. /\ Len(<<x>>) = 1 /\ <<x>>[1] = x
      /\ Len(<<x, y>>) = 2 /\ <<x, y>>[1] = x /\ <<x, y>>[2] = y
  OBVIOUS
<1>3. Append(<<x>>, y) = <<x, y>>
  <2>1. /\ Append(<<x>>, y) \in Seq(S) /\ Len(Append(<<x>>, y)) = 2
        /\ \A i \in 1 .. 1 : Append(<<x>>, y)[i] = <<x>>[i]
        /\ Append(<<x>>, y)[2] = y
    BY <1>1, <1>2, AppendProperties
  <2>2. \A i \in 1 .. 2 : Append(<<x>>, y)[i] = <<x, y>>[i]
    BY <1>2, <2>1
  <2> HIDE DEF S
  <2>3. QED
    BY <1>1, <1>2, <2>1, <2>2, SeqEqual
<1>4. SubSeq(<<x, y>>, 1, 1) = <<x>>
  <2>1. \A i \in 1 .. 1 : <<x, y>>[i] \in S
    BY <1>2
  <2>2. /\ SubSeq(<<x, y>>, 1, 1) \in Seq(S) /\ Len(SubSeq(<<x, y>>, 1, 1)) = 1
        /\ \A i \in 1 .. 1 : SubSeq(<<x, y>>, 1, 1)[i] = <<x, y>>[i]
    BY <2>1, SubSeqProperties
  <2>3. \A i \in 1 .. 1 : SubSeq(<<x, y>>, 1, 1)[i] = <<x>>[i]
    BY <1>2, <2>2
  <2> HIDE DEF S
  <2>4. QED
    BY <1>1, <1>2, <2>2, <2>3, SeqEqual
<1>5. ToSet(<<>>) = {} /\ ToSet(<<x>>) = {x} /\ ToSet(<<x, y>>) = {x, y}
  BY DEF ToSet
<1>6. Last(<<x>>) = x /\ Last(<<x, y>>) = y
  BY DEF Last
<1>7. Append(<<>>, x) = <<x>>
  OBVIOUS
<1>8. QED
  BY <1>3, <1>4, <1>5, <1>6, <1>7

(* A detach is always the last call, and no call precedes an attach. *)
LEMMA SegmentFacts ==
  ASSUME NEW s \in Segments
  PROVE  /\ ToSet(s) \subseteq {"runtime_kind", "attach_task", "detach_task"}
         /\ "detach_task" \in ToSet(s) => s # <<>> /\ Last(s) = "detach_task"
         /\ s # <<>> => /\ Tail(s) \in Segments
                        /\ Head(s) \in ToSet(s)
                        /\ ToSet(s) = {Head(s)} \cup ToSet(Tail(s))
                        /\ "attach_task" \notin ToSet(Tail(s))
                        /\ Head(s) = "detach_task" => Tail(s) = <<>>
         /\ Len(s) \in 0 .. 2
<1>1. \A x, y : /\ Head(<<x>>) = x /\ Head(<<x, y>>) = x
                /\ Tail(<<x>>) = <<>> /\ Tail(<<x, y>>) = <<y>>
  OBVIOUS
<1>2. \A x, y : Len(<<>>) = 0 /\ Len(<<x>>) = 1 /\ Len(<<x, y>>) = 2
  OBVIOUS
<1>3. ASSUME s = <<>>
      PROVE  ToSet(s) = {} /\ Len(s) = 0
  BY <1>2, <1>3, ShortSequences
<1>4. ASSUME NEW x \in {"runtime_kind", "attach_task", "detach_task"}, s = <<x>>
      PROVE  /\ ToSet(s) = {x} /\ Last(s) = x /\ Head(s) = x /\ Tail(s) = <<>>
             /\ ToSet(Tail(s)) = {} /\ Len(s) = 1 /\ s # <<>>
  BY <1>1, <1>2, <1>4, ShortSequences
<1>5. ASSUME s = <<"attach_task", "detach_task">>
      PROVE  /\ ToSet(s) = {"attach_task", "detach_task"} /\ Last(s) = "detach_task"
             /\ Head(s) = "attach_task" /\ Tail(s) = <<"detach_task">>
             /\ ToSet(Tail(s)) = {"detach_task"} /\ Len(s) = 2 /\ s # <<>>
  BY <1>1, <1>2, <1>5, ShortSequences
<1>6. CASE s = <<>>
  BY <1>3, <1>6
<1>7. CASE s = <<"runtime_kind">>
  BY <1>4, <1>7 DEF Segments
<1>8. CASE s = <<"attach_task">>
  BY <1>4, <1>8 DEF Segments
<1>9. CASE s = <<"detach_task">>
  BY <1>4, <1>9 DEF Segments
<1>10. CASE s = <<"attach_task", "detach_task">>
  BY <1>5, <1>10 DEF Segments
<1>11. QED
  BY <1>6, <1>7, <1>8, <1>9, <1>10 DEF Segments

(* What is left of a mailbox when its later calls are dropped. *)
LEMMA SegmentPrefix ==
  ASSUME NEW s \in Segments, NEW n \in 0 .. Len(s)
  PROVE  /\ SubSeq(s, 1, n) \in Segments
         /\ ToSet(SubSeq(s, 1, n)) \subseteq ToSet(s)
         /\ s \in {<<>>, <<"runtime_kind">>} => SubSeq(s, 1, n) \in {<<>>, <<"runtime_kind">>}
         /\ SubSeq(s, 1, n) # <<>> => s # <<>>
<1> DEFINE Calls == {"runtime_kind", "attach_task", "detach_task"}
<1>1. \A x, y : /\ Len(<<>>) = 0 /\ Len(<<x>>) = 1 /\ Len(<<x, y>>) = 2
                /\ <<x>> # <<>> /\ <<x, y>> # <<>>
  OBVIOUS
<1>2. s \in Seq(Calls) /\ Len(s) \in 0 .. 2
  <2>1. /\ <<>> \in Seq(Calls) /\ <<"runtime_kind">> \in Seq(Calls)
        /\ <<"attach_task">> \in Seq(Calls) /\ <<"detach_task">> \in Seq(Calls)
        /\ <<"attach_task", "detach_task">> \in Seq(Calls)
    OBVIOUS
  <2>2. s \in Seq(Calls)
    BY <2>1 DEF Segments
  <2>3. QED
    BY <2>2, SegmentFacts
<1>3. SubSeq(s, 1, 0) = <<>> /\ SubSeq(s, 1, Len(s)) = s
  BY <1>2, SubSeqFull, SubSeqEmpty
<1>4. CASE n = 0
  BY <1>3, <1>4, ShortSequences DEF Segments
<1>5. CASE n = Len(s)
  BY <1>3, <1>5
<1>6. CASE n # 0 /\ n # Len(s)
  <2>1. n = 1 /\ Len(s) = 2
    BY <1>2, <1>6
  <2>2. s = <<"attach_task", "detach_task">>
    <3>1. /\ s # <<>> /\ s # <<"runtime_kind">> /\ s # <<"attach_task">>
          /\ s # <<"detach_task">>
      <4>1. \A x : Len(s) = 2 => s # <<x>>
        BY <1>1
      <4>2. s # <<>>
        BY <1>1, <2>1
      <4>3. QED
        BY <2>1, <4>1, <4>2
    <3>2. QED
      BY <3>1 DEF Segments
  <2>3. /\ SubSeq(s, 1, n) = <<"attach_task">>
        /\ ToSet(<<"attach_task">>) = {"attach_task"}
        /\ ToSet(s) = {"attach_task", "detach_task"}
    BY <2>1, <2>2, ShortSequences
  <2>4. s # <<>> /\ s # <<"runtime_kind">>
    BY <1>1, <2>1
  <2>5. QED
    BY <2>3, <2>4 DEF Segments
<1>7. QED
  BY <1>4, <1>5, <1>6

(* The calls a place in run() waits for. *)
LEMMA WaitsFacts ==
  /\ DOMAIN Waits = {"asking", "attaching", "detaching"}
  /\ Waits["asking"] = "runtime_kind" /\ Waits["attaching"] = "attach_task"
  /\ Waits["detaching"] = "detach_task"
  /\ Range(Waits) = {"runtime_kind", "attach_task", "detach_task"}
<1>1. /\ DOMAIN Waits = {"asking", "attaching", "detaching"}
      /\ Waits["asking"] = "runtime_kind" /\ Waits["attaching"] = "attach_task"
      /\ Waits["detaching"] = "detach_task"
  BY DEF Waits
<1>2. QED
  BY <1>1 DEF Range

-----------------------------------------------------------------------------
(* Steps of one TaskRunner and the calls it made *)

Places == {"new", "running"} \cup DOMAIN Waits \cup Ended
Answers == {"none", "ok", "error"}

(* A step that concerns one discovered TaskRunner: it remains to look at this
   one. *)
LEMMA LocalStep ==
  ASSUME IInv,
         NEW t \in Tasks,
         NEW p \in Places \ {"new"}, pc' = [pc EXCEPT ![t] = p],
         NEW a \in Answers, answer' = [answer EXCEPT ![t] = a],
         NEW m \in Segments, mailbox' = [mailbox EXCEPT ![t] = m],
         m # <<>> => handle[t] = instance,
         task_runners' \ {t} = task_runners \ {t},
         t \in task_runners' => handle[t] = instance,
         lost' \in {lost, lost \cup {t}},
         UNCHANGED <<handle, instance, instances>>,
         Progress(t)'
  PROVE  IInv'
<1>1. /\ mailbox' \in [Tasks -> Segments] /\ mailbox'[t] = m /\ pc'[t] = p
      /\ pc' \in [Tasks -> Places] /\ answer' \in [Tasks -> Answers]
  BY DEF IInv, TypeOK, Places, Answers
<1>2. /\ \A u \in Tasks \ {t} : /\ pc'[u] = pc[u] /\ answer'[u] = answer[u]
                                /\ mailbox'[u] = mailbox[u] /\ handle'[u] = handle[u]
      /\ handle'[t] = handle[t]
  BY DEF IInv, TypeOK
<1>3. \A u \in Tasks : mailbox'[u] # <<>> => handle'[u] = instance'
  BY <1>1, <1>2 DEF IInv, TypeOK
<1>4. \A u \in Tasks : ToSet(mailbox'[u]) \subseteq Range(Waits)
  BY <1>1, SegmentFacts, WaitsFacts
<1>5. task_runners' \subseteq {u \in Tasks : handle'[u] = instance'}
  <2>1. \A u \in task_runners' : u = t \/ u \in task_runners
    OBVIOUS
  <2>2. QED
    BY <1>2, <2>1 DEF IInv, TypeOK
<1>6. TypeOK'
  BY <1>1, <1>3, <1>4, <1>5 DEF IInv, TypeOK, Places, Answers
<1>7. instance' = 0 => task_runners' = {}
  <2>1. handle[t] # 0
    BY <1>1, <1>2 DEF Progress
  <2>2. QED
    BY <2>1 DEF IInv
<1>8. ASSUME NEW u \in Tasks
      PROVE  Progress(u)'
  <2>1. CASE u = t
    BY <2>1
  <2>2. CASE u # t
    <3>1. /\ pc'[u] = pc[u] /\ answer'[u] = answer[u] /\ mailbox'[u] = mailbox[u]
          /\ handle'[u] = handle[u] /\ instance' = instance
          /\ u \in task_runners' <=> u \in task_runners
          /\ u \in lost => u \in lost'
      BY <1>2, <2>2
    <3>2. Progress(u)
      BY DEF IInv
    <3>3. QED
      BY <3>1, <3>2 DEF Progress, Entered
  <2>3. QED
    BY <2>1, <2>2
<1>9. QED
  BY <1>1, <1>6, <1>7, <1>8 DEF IInv

(* What IInv says of one TaskRunner. *)
LEMMA OneTask ==
  ASSUME IInv, NEW t \in Tasks
  PROVE  /\ pc[t] \in Places /\ answer[t] \in Answers /\ mailbox[t] \in Segments
         /\ mailbox[t] # <<>> => handle[t] = instance
         /\ t \in task_runners => handle[t] = instance /\ instance # 0
         /\ pc[t] = "new" <=> handle[t] = 0
         /\ Progress(t)
         /\ pc = [pc EXCEPT ![t] = pc[t]] /\ answer = [answer EXCEPT ![t] = answer[t]]
         /\ mailbox = [mailbox EXCEPT ![t] = mailbox[t]]
  BY DEF IInv, TypeOK, Places, Answers, Progress

(* The invariant holds initially. *)
LEMMA InitIInv == Init => IInv
<1> SUFFICES ASSUME Init PROVE IInv
  OBVIOUS
<1>1. ToSet(<<>>) = {}
  BY ShortSequences
<1>2. mailbox \in [Tasks -> Segments] /\ pc \in [Tasks -> Places]
  BY DEF Init, Segments, Places
<1>3. TypeOK
  BY <1>1, <1>2, InstanceAssumption DEF Init, TypeOK, Places
<1>4. ASSUME NEW t \in Tasks
      PROVE  Progress(t)
  BY DEF Init, Progress, Entered
<1>5. QED
  BY <1>2, <1>3, <1>4 DEF Init, IInv

(* A task that has its scheduler sends attach_task into an empty mailbox. *)
LEMMA AttachStep ==
  ASSUME IInv, NEW t \in Tasks, Attach(t)
  PROVE  IInv'
<1>1. /\ pc[t] = "asking" /\ answer[t] = "ok" /\ mailbox[t] = <<>>
      /\ t \notin task_runners /\ handle[t] # 0
  BY OneTask DEF Attach, Progress
<1>2. CASE handle[t] = instance
  <2>1. /\ pc' = [pc EXCEPT ![t] = "attaching"] /\ answer' = [answer EXCEPT ![t] = "none"]
        /\ mailbox' = [mailbox EXCEPT ![t] = <<"attach_task">>]
    BY <1>1, <1>2, ShortSequences, WaitsFacts DEF Attach, Call
  <2>2. Progress(t)'
    <3>1. /\ pc'[t] = "attaching" /\ answer'[t] = "none" /\ mailbox'[t] = <<"attach_task">>
          /\ handle'[t] = handle[t]
      BY <2>1 DEF IInv, TypeOK, Attach
    <3>2. QED
      BY <1>1, <3>1 DEF Progress
  <2>3. QED
    BY <1>1, <1>2, <2>1, <2>2, LocalStep, WaitsFacts DEF Attach, Places, Answers, Segments
<1>3. CASE handle[t] # instance
  <2>1. /\ pc' = [pc EXCEPT ![t] = "attaching"] /\ answer' = [answer EXCEPT ![t] = "error"]
        /\ mailbox' = [mailbox EXCEPT ![t] = <<>>]
    BY <1>1, <1>3, OneTask DEF Attach, Call
  <2>2. Progress(t)'
    <3>1. /\ pc'[t] = "attaching" /\ answer'[t] = "error" /\ mailbox'[t] = <<>>
          /\ handle'[t] = handle[t]
      BY <2>1 DEF IInv, TypeOK, Attach
    <3>2. QED
      BY <1>1, <3>1 DEF Progress
  <2>3. QED
    BY <1>1, <1>3, <2>1, <2>2, LocalStep, WaitsFacts DEF Attach, Places, Answers, Segments
<1>4. QED
  BY <1>2, <1>3

(* The finally clause: the detach is sent, or there is nothing to detach. *)
LEMMA DetachStep ==
  ASSUME IInv, NEW t \in Tasks, pc[t] \in {"attaching", "running"},
         Call(t, handle[t] = instance, "detaching"),
         UNCHANGED <<handle, task_runners, instance, instances, lost>>
  PROVE  IInv'
<1>1. mailbox[t] \in {<<>>, <<"attach_task">>} /\ handle[t] # 0
  BY OneTask DEF Progress
<1>2. CASE handle[t] = instance
  <2> DEFINE m == Append(mailbox[t], "detach_task")
  <2>1. m \in Segments /\ "detach_task" \in ToSet(m)
    <3>1. CASE mailbox[t] = <<>>
      <4>1. m = <<"detach_task">>
        BY <3>1, ShortSequences
      <4>2. QED
        BY <4>1, ShortSequences DEF Segments
    <3>2. CASE mailbox[t] = <<"attach_task">>
      <4>1. Append(<<"attach_task">>, "detach_task") = <<"attach_task", "detach_task">>
        BY ShortSequences, Zenon
      <4>2. m = <<"attach_task", "detach_task">>
        BY <3>2, <4>1, Zenon
      <4>3. ToSet(<<"attach_task", "detach_task">>) = {"attach_task", "detach_task"}
        BY ShortSequences
      <4>4. m \in Segments
        BY <4>2 DEF Segments
      <4>5. QED
        BY <4>2, <4>3, <4>4, Zenon
    <3>3. QED
      BY <1>1, <3>1, <3>2
  <2>2. /\ pc' = [pc EXCEPT ![t] = "detaching"] /\ answer' = [answer EXCEPT ![t] = "none"]
        /\ mailbox' = [mailbox EXCEPT ![t] = m]
    BY <1>2, WaitsFacts DEF Call
  <2> HIDE DEF m
  <2>3. Progress(t)'
    <3>1. pc'[t] = "detaching" /\ mailbox'[t] = m /\ handle'[t] = handle[t]
      BY <2>2 DEF IInv, TypeOK
    <3>2. QED
      BY <1>1, <2>1, <3>1 DEF Progress
  <2>4. QED
    BY <1>2, <2>1, <2>2, <2>3, LocalStep, WaitsFacts, OneTask DEF Places, Answers
<1>3. CASE handle[t] # instance
  <2>1. mailbox[t] = <<>> /\ t \notin task_runners
    BY <1>3, OneTask
  <2>2. /\ pc' = [pc EXCEPT ![t] = "detaching"] /\ answer' = [answer EXCEPT ![t] = "error"]
        /\ mailbox' = [mailbox EXCEPT ![t] = <<>>]
    BY <1>3, <2>1, OneTask DEF Call
  <2>3. Progress(t)'
    <3>1. pc'[t] = "detaching" /\ mailbox'[t] = <<>> /\ handle'[t] = handle[t]
      BY <2>2 DEF IInv, TypeOK
    <3>2. ToSet(<<>>) = {}
      BY ShortSequences
    <3>3. QED
      BY <1>1, <2>1, <3>1, <3>2 DEF Progress, Entered
  <2>4. QED
    BY <1>3, <2>1, <2>2, <2>3, LocalStep, WaitsFacts DEF Places, Answers, Segments
<1>4. QED
  BY <1>2, <1>3

(* run() goes on without a call. *)
LEMMA PlaceStep ==
  ASSUME IInv, NEW t \in Tasks, DiscoveryFails(t) \/ Run(t) \/ Leave(t)
  PROVE  IInv'
<1> DEFINE p == pc'[t]
<1>1. /\ pc' = [pc EXCEPT ![t] = p] /\ p \in {"failed", "running", "done"}
      /\ pc[t] # "new" /\ handle[t] # 0
      /\ UNCHANGED <<handle, answer, mailbox, task_runners, instance, instances, lost>>
  BY OneTask DEF DiscoveryFails, Run, Leave, IInv, TypeOK
<1>2. Progress(t)'
  <2>1. CASE DiscoveryFails(t)
    BY <1>1, <2>1, OneTask DEF DiscoveryFails, Progress, IInv, TypeOK
  <2>2. CASE Run(t)
    BY <1>1, <2>2, OneTask DEF Run, Progress, IInv, TypeOK
  <2>3. CASE Leave(t)
    <3>1. pc[t] = "detaching" /\ p = "done"
      BY <2>3 DEF Leave, IInv, TypeOK
    <3>2. QED
      BY <1>1, <3>1, OneTask DEF Progress, Entered
  <2>4. QED
    BY <2>1, <2>2, <2>3
<1>3. p \in Places \ {"new"}
  BY <1>1 DEF Places, Ended
<1> HIDE DEF p
<1>4. /\ answer' = [answer EXCEPT ![t] = answer[t]]
      /\ mailbox' = [mailbox EXCEPT ![t] = mailbox[t]]
  BY <1>1, OneTask
<1>5. QED
  BY <1>1, <1>2, <1>3, <1>4, LocalStep, OneTask

(* The calls of t were dropped from some point on: the accounting holds for
   what is left. *)
LEMMA DropStep ==
  ASSUME IInv, NEW t \in Tasks, pc[t] # "new",
         NEW p \in {"crashed", "failed", "done"}, pc' = [pc EXCEPT ![t] = p],
         p \in {"failed", "done"} => pc[t] = p,
         NEW n \in 0 .. Len(mailbox[t]), DropCalls(t, n),
         UNCHANGED <<handle, answer, task_runners, instance, instances>>
  PROVE  IInv'
<1> DEFINE m == SubSeq(mailbox[t], 1, n)
<1>1. /\ m \in Segments /\ ToSet(m) \subseteq ToSet(mailbox[t])
      /\ mailbox[t] \in {<<>>, <<"runtime_kind">>} => m \in {<<>>, <<"runtime_kind">>}
      /\ m # <<>> => mailbox[t] # <<>>
  BY OneTask, SegmentPrefix
<1>2. /\ mailbox' = [mailbox EXCEPT ![t] = m]
      /\ lost' = IF (t \in task_runners \/ "attach_task" \in ToSet(m))
                      /\ "detach_task" \notin ToSet(m) THEN lost \cup {t} ELSE lost
  BY DEF DropCalls
<1> HIDE DEF m
<1>3. /\ mailbox'[t] = m /\ pc'[t] = p /\ handle'[t] = handle[t] /\ handle[t] # 0
  BY <1>2, OneTask DEF IInv, TypeOK
<1>4. Progress(t)'
  <2>1. p = "failed" => m \in {<<>>, <<"runtime_kind">>} /\ t \notin task_runners
    BY <1>1, OneTask DEF Progress
  <2>2. Entered(t)' => "detach_task" \in ToSet(mailbox'[t]) \/ t \in lost'
    BY <1>2, <1>3 DEF Entered
  <2>3. QED
    BY <1>3, <2>1, <2>2 DEF Progress
<1>5. answer' = [answer EXCEPT ![t] = answer[t]] /\ lost' \in {lost, lost \cup {t}}
  BY <1>2, OneTask
<1>6. p \in Places \ {"new"}
  BY DEF Places, Ended
<1>7. QED
  BY <1>1, <1>2, <1>4, <1>5, <1>6, LocalStep, OneTask

(* A TaskRunner that crashes loses the end of its mailbox. *)
LEMMA CrashStep ==
  ASSUME IInv, NEW t \in Tasks, Crash(t)
  PROVE  IInv'
<1>1. PICK n \in 0 .. Len(mailbox[t]) : DropCalls(t, n)
  BY DEF Crash
<1>2. pc[t] # "new" /\ pc' = [pc EXCEPT ![t] = "crashed"]
  BY DEF Crash
<1>3. QED
  BY <1>1, <1>2, DropStep DEF Crash

(* A TaskRunner process that ends loses calls at the end of its mailbox. *)
LEMMA ExitStep ==
  ASSUME IInv, NEW t \in Tasks, Exit(t)
  PROVE  IInv'
<1>1. PICK n \in 0 .. (Len(mailbox[t]) - 1) : DropCalls(t, n)
  BY DEF Exit
<1>2. n \in 0 .. Len(mailbox[t])
  BY OneTask, SegmentFacts
<1>3. pc[t] \in {"failed", "done"} /\ pc' = [pc EXCEPT ![t] = pc[t]]
  BY OneTask DEF Exit
<1>4. QED
  BY <1>1, <1>2, <1>3, DropStep DEF Exit

(* The scheduler executes the next call of t. *)
LEMMA ExecuteStep ==
  ASSUME IInv, NEW t \in Tasks, Execute(t)
  PROVE  IInv'
<1> DEFINE call == Head(mailbox[t])
           m == Tail(mailbox[t])
           a == IF Waiting(t) /\ Waits[pc[t]] = call THEN "ok" ELSE answer[t]
<1>1. /\ mailbox[t] # <<>> /\ handle[t] = instance /\ pc[t] # "new" /\ handle[t] # 0
      /\ UNCHANGED <<pc, handle, instance, instances, lost>>
  BY OneTask DEF Execute, Progress
<1>2. /\ m \in Segments /\ call \in {"runtime_kind", "attach_task", "detach_task"}
      /\ ToSet(mailbox[t]) = {call} \cup ToSet(m) /\ "attach_task" \notin ToSet(m)
      /\ call = "detach_task" => m = <<>>
  BY <1>1, OneTask, SegmentFacts
<1>3. /\ mailbox' = [mailbox EXCEPT ![t] = m] /\ answer' = [answer EXCEPT ![t] = a]
      /\ pc' = [pc EXCEPT ![t] = pc[t]] /\ a \in Answers
  BY <1>1, OneTask DEF Execute, Answers
<1>4. task_runners' = CASE call = "attach_task" -> task_runners \cup {t}
                        [] call = "detach_task" -> task_runners \ {t}
                        [] OTHER -> task_runners
  BY DEF Execute, attach_task, detach_task
<1>5. /\ pc[t] \in {"asking", "failed"} => mailbox[t] = <<"runtime_kind">>
      /\ pc[t] = "attaching" => mailbox[t] = <<"attach_task">>
      /\ pc[t] # "running"
  BY <1>1, OneTask DEF Progress
<1>6. \A x : Head(<<x>>) = x /\ Tail(<<x>>) = <<>>
  OBVIOUS
<1> HIDE DEF call, m, a
<1>7. mailbox'[t] = m /\ answer'[t] = a /\ pc'[t] = pc[t] /\ handle'[t] = handle[t]
  BY <1>1, <1>3 DEF IInv, TypeOK
<1>8. Progress(t)'
  <2>1. CASE pc[t] \in {"asking", "failed"}
    <3>1. call = "runtime_kind" /\ m = <<>>
      BY <1>5, <1>6, <2>1 DEF call, m
    <3>2. t \notin task_runners'
      BY <1>4, <2>1, <3>1, OneTask DEF Progress
    <3>3. QED
      BY <1>1, <1>7, <2>1, <3>1, <3>2 DEF Progress
  <2>2. CASE pc[t] = "attaching"
    <3>1. call = "attach_task" /\ m = <<>>
      BY <1>5, <1>6, <2>2 DEF call, m
    <3>2. t \in task_runners'
      BY <1>4, <3>1
    <3>3. QED
      BY <1>1, <1>7, <2>2, <3>1, <3>2 DEF Progress
  <2>3. CASE pc[t] \in {"detaching", "done", "crashed"}
    <3>1. Entered(t)' => "detach_task" \in ToSet(m) \/ t \in lost'
      <4>1. ASSUME Entered(t)'
            PROVE  t \in task_runners'
        BY <1>2, <1>7, <4>1 DEF Entered
      <4>2. CASE call = "detach_task"
        BY <1>4, <4>1, <4>2
      <4>3. CASE call # "detach_task"
        <5>1. ASSUME Entered(t)'
              PROVE  Entered(t)
          BY <1>2, <1>4, <4>1, <4>3, <5>1 DEF Entered
        <5>2. QED
          BY <1>1, <1>2, <2>3, <4>3, <5>1, OneTask DEF Progress
      <4>4. QED
        BY <4>2, <4>3
    <3>2. QED
      BY <1>1, <1>7, <2>3, <3>1 DEF Progress
  <2>4. QED
    BY <1>1, <1>5, <2>1, <2>2, <2>3, OneTask, WaitsFacts DEF Places, Ended
<1>9. /\ task_runners' \ {t} = task_runners \ {t}
      /\ pc[t] \in Places \ {"new"} /\ (m # <<>> => handle[t] = instance)
      /\ lost' \in {lost, lost \cup {t}}
  BY <1>1, <1>4, OneTask
<1>10. QED
  BY <1>1, <1>2, <1>3, <1>8, <1>9, LocalStep

-----------------------------------------------------------------------------
(* Scheduler instances *)

(* A new instance is none that an earlier TaskRunner knows, and nothing is
   outstanding to it. *)
LEMMA DiscoverStep ==
  ASSUME IInv, NEW t \in Tasks, Discover(t)
  PROVE  IInv'
<1>1. pc[t] = "new" /\ mailbox[t] = <<>> /\ handle[t] = 0
  BY OneTask DEF Discover, Progress
<1>2. /\ pc' = [pc EXCEPT ![t] = "asking"] /\ answer' = [answer EXCEPT ![t] = "none"]
      /\ mailbox' = [mailbox EXCEPT ![t] = <<"runtime_kind">>]
      /\ handle' = [handle EXCEPT ![t] = instance']
      /\ UNCHANGED <<task_runners, lost>>
  BY <1>1, ShortSequences, WaitsFacts DEF Discover, Call
<1>3. /\ instance' = instances' /\ instances' \in 0 .. MaxInstances /\ instance' # 0
      /\ instances \in 0 .. instances' /\ (instance # 0 => UNCHANGED <<instance, instances>>)
      /\ instance = 0 => instances' = instances + 1
  BY InstanceAssumption DEF Discover, IInv, TypeOK
<1>4. /\ \A u \in Tasks \ {t} : /\ pc'[u] = pc[u] /\ answer'[u] = answer[u]
                                /\ mailbox'[u] = mailbox[u] /\ handle'[u] = handle[u]
      /\ pc'[t] = "asking" /\ answer'[t] = "none" /\ mailbox'[t] = <<"runtime_kind">>
      /\ handle'[t] = instance'
  BY <1>2 DEF IInv, TypeOK
<1>5. t \notin task_runners
  BY <1>1, OneTask
<1>6. ASSUME instance = 0
      PROVE  /\ task_runners = {}
             /\ \A u \in Tasks \ {t} : handle[u] # instance'
             /\ \A u \in Tasks : mailbox[u] = <<>>
  <2>1. task_runners = {} /\ \A u \in Tasks : handle[u] \in 0 .. instances
    BY <1>6 DEF IInv
  <2>2. \A u \in Tasks : handle[u] # instance'
    BY <1>3, <1>6, <2>1
  <2>3. ASSUME NEW u \in Tasks
        PROVE  mailbox[u] = <<>>
    BY <1>6, OneTask DEF Progress
  <2>4. QED
    BY <2>1, <2>2, <2>3
<1>7. \A u \in Tasks : mailbox'[u] # <<>> => handle'[u] = instance'
  <2>1. ASSUME NEW u \in Tasks \ {t}, mailbox[u] # <<>>
        PROVE  handle[u] = instance'
    BY <1>3, <1>6, <2>1, OneTask
  <2>2. QED
    BY <1>4, <2>1
<1>8. task_runners' \subseteq {u \in Tasks : handle'[u] = instance'}
  BY <1>2, <1>3, <1>4, <1>5, <1>6, OneTask DEF IInv, TypeOK
<1>9. /\ mailbox' \in [Tasks -> Segments] /\ pc' \in [Tasks -> Places]
      /\ answer' \in [Tasks -> Answers] /\ handle' \in [Tasks -> 0 .. instances']
  <2>1. \A u \in Tasks : handle[u] \in 0 .. instances'
    BY <1>3 DEF IInv, TypeOK
  <2>2. handle' \in [Tasks -> 0 .. instances']
    BY <1>2, <1>3, <2>1 DEF IInv, TypeOK
  <2>3. <<"runtime_kind">> \in Segments /\ "asking" \in Places /\ "none" \in Answers
    BY WaitsFacts DEF Segments, Places, Answers
  <2>4. QED
    BY <1>2, <2>2, <2>3 DEF IInv, TypeOK, Places, Answers
<1>10. \A u \in Tasks : ToSet(mailbox'[u]) \subseteq Range(Waits)
  BY <1>9, SegmentFacts, WaitsFacts
<1>11. TypeOK'
  <2>1. handle' \in [Tasks -> 0 .. MaxInstances]
    <3>1. 0 .. instances' \subseteq 0 .. MaxInstances
      BY <1>3, InstanceAssumption
    <3>2. QED
      BY <1>9, <3>1
  <2>2. QED
    BY <1>2, <1>3, <1>7, <1>8, <1>9, <1>10, <2>1 DEF IInv, TypeOK, Places, Answers
<1>12. ASSUME NEW u \in Tasks
       PROVE  Progress(u)'
  <2>1. CASE u = t
    BY <1>2, <1>3, <1>4, <1>5, <2>1 DEF Progress
  <2>2. CASE u # t
    <3>1. /\ pc'[u] = pc[u] /\ answer'[u] = answer[u] /\ mailbox'[u] = mailbox[u]
          /\ handle'[u] = handle[u] /\ task_runners' = task_runners /\ lost' = lost
          /\ handle'[u] = instance' => instance # 0 /\ instance' = instance
      BY <1>2, <1>3, <1>4, <1>6, <2>2
    <3>2. Progress(u)
      BY DEF IInv
    <3>3. QED
      BY <3>1, <3>2 DEF Progress, Entered
  <2>3. QED
    BY <2>1, <2>2
<1>13. QED
  BY <1>3, <1>9, <1>11, <1>12 DEF IInv

(* With the instance its map and every outstanding call are gone. *)
LEMMA DeathStep ==
  ASSUME IInv, SchedulerDies
  PROVE  IInv'
<1>1. /\ instance' = 0 /\ task_runners' = {} /\ UNCHANGED <<pc, handle, instances, lost>>
      /\ \A u \in Tasks : /\ mailbox'[u] = <<>>
                          /\ answer'[u] = "ok" => answer[u] = "ok"
  BY DEF SchedulerDies
<1>2. ToSet(<<>>) = {}
  BY ShortSequences
<1>3. mailbox' \in [Tasks -> Segments]
  BY DEF SchedulerDies, Segments
<1>4. answer' \in [Tasks -> Answers]
  BY DEF SchedulerDies, Answers, IInv, TypeOK
<1>5. TypeOK'
  BY <1>1, <1>2, <1>4 DEF IInv, TypeOK, Answers
<1>6. ASSUME NEW u \in Tasks
      PROVE  Progress(u)'
  <2>1. /\ pc'[u] = pc[u] /\ handle'[u] = handle[u] /\ mailbox'[u] = <<>>
        /\ ~ Entered(u)'
    BY <1>1, <1>2 DEF Entered
  <2>2. pc[u] # "new" => handle'[u] # instance'
    BY <1>1, <2>1, OneTask
  <2>3. QED
    BY <1>1, <2>1, <2>2, OneTask DEF Progress
<1>7. QED
  BY <1>1, <1>3, <1>5, <1>6 DEF IInv

-----------------------------------------------------------------------------
(* The specification *)

(* The invariant is inductive. *)
LEMMA StepIInv == IInv /\ [Next]_vars => IInv'
<1> SUFFICES ASSUME IInv, [Next]_vars PROVE IInv'
  OBVIOUS
<1>1. CASE SchedulerDies
  BY <1>1, DeathStep
<1>2. ASSUME NEW t \in Tasks, TaskRunner(t)
      PROVE  IInv'
  <2>1. CASE AttachFails(t) \/ RunEnds(t)
    BY <2>1, DetachStep DEF AttachFails, RunEnds
  <2>2. QED
    BY <1>2, <2>1, DiscoverStep, AttachStep, PlaceStep DEF TaskRunner
<1>3. ASSUME NEW t \in Tasks, Execute(t) \/ Crash(t) \/ Exit(t)
      PROVE  IInv'
  BY <1>3, ExecuteStep, CrashStep, ExitStep
<1>4. CASE UNCHANGED vars
  BY <1>4 DEF vars, IInv, TypeOK, Progress, Entered
<1>5. QED
  BY <1>1, <1>2, <1>3, <1>4 DEF Next

(* What is outstanding and in the map is determined by where each run() is, in
   every reachable state. *)
THEOREM Invariance == Spec => []IInv
<1>1. Init => IInv
  BY InitIInv
<1>2. QED
  BY <1>1, StepIInv, PTL DEF Spec

(* Every variable keeps its type; the map and the calls to execute are those of
   TaskRunners that know the live instance. *)
THEOREM TypeCorrect == Spec => []TypeOK
<1>1. IInv => TypeOK
  BY DEF IInv
<1>2. QED
  BY <1>1, Invariance, PTL

(* While the native run method of a task executes, a scheduler that lives and
   that the task knows has its handle. *)
THEOREM RunningIsAttached == Spec => []AttachedWhileRunning
<1>1. IInv => AttachedWhileRunning
  BY DEF IInv, Progress, AttachedWhileRunning
<1>2. QED
  BY <1>1, Invariance, PTL

(* No handle is left over and none is put in the map after its detach. *)
THEOREM EntriesAreAccounted == Spec => []EntriesAccounted
<1>1. ASSUME IInv
      PROVE  EntriesAccounted
  <2> SUFFICES ASSUME NEW t \in Tasks, Entered(t), t \notin lost,
                      pc[t] \notin {"attaching", "running"}
               PROVE  mailbox[t] # <<>> /\ Last(mailbox[t]) = "detach_task"
    BY DEF EntriesAccounted, Entered
  <2>1. ToSet(<<>>) = {} /\ ToSet(<<"runtime_kind">>) = {"runtime_kind"}
    BY ShortSequences
  <2>2. pc[t] \in {"detaching", "done", "crashed"}
    BY <1>1, <2>1, OneTask, WaitsFacts DEF Progress, Entered, Places, Ended
  <2>3. "detach_task" \in ToSet(mailbox[t])
    BY <1>1, <2>2, OneTask DEF Progress
  <2>4. QED
    BY <1>1, <2>3, OneTask, SegmentFacts
<1>2. QED
  BY <1>1, Invariance, PTL
=============================================================================
