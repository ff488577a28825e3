-------------------------- MODULE AtSessionProofs ---------------------------
(***************************************************************************)
(* Theorems about AtSession, for every set of tasks, every modem and every *)
(* bound.  First what the operations of the AT queue preserve, for every   *)
(* queue and every number of counter values: the types of QueueSet, the    *)
(* shape WellFormed and the counter of tasks; that each writes at most one *)
(* line, and none while the head is on the wire; and, where no at-once     *)
(* task is finished early, the counter of commands.  Whatever callers,     *)
(* handlers, pings, timeouts, failed writes, stops and restarts do to the  *)
(* queue, they do through these operators; the second half goes through    *)
(* the actions of the session one by one.  That the link carries one       *)
(* command at a time is proved without timeouts and restarts; that         *)
(* commands are counted, that none is skipped and that text is only read   *)
(* after a prompt, without failed writes as well: with them it is false.   *)
(***************************************************************************)
EXTENDS AtSession, FiniteSetTheorems, FunctionTheorems, SequenceTheorems, NaturalsInduction, TLAPS

(* A queue as every operation leaves it.                                   *)
Sound(s) == s \in QueueSet /\ WellFormed(s) /\ TasksMatch(s)

(* All that at_queue_remove needs: the tasks behind the head are untouched *)
(* whatever has happened to the head.                                      *)
TailSound(s) ==
  /\ s \in QueueSet
  /\ \A i \in 2 .. Len(s.queue) : Waits(s.queue[i])
  /\ TasksMatch(s)

-----------------------------------------------------------------------------
(* An unsigned counter stays in range whatever is added or subtracted.     *)
LEMMA UintRange ==
  ASSUME NEW x \in Int
  PROVE  x % UintValues \in 0 .. UintValues - 1
BY UintAssumption

(* Quotient and remainder exist, and the remainder is unique.              *)
LEMMA DivMod ==
  ASSUME NEW x \in Int
  PROVE  \E q \in Int, r \in 0 .. UintValues - 1 :
           x = UintValues * q + r /\ x % UintValues = r
<1>1. /\ x \div UintValues \in Int
      /\ (x % UintValues) \in 0 .. UintValues - 1
      /\ x = UintValues * (x \div UintValues) + (x % UintValues)
  BY UintAssumption
<1> QED BY <1>1

(* A product of positive integers is no smaller than a factor.             *)
LEMMA ProductBound ==
  ASSUME NEW k \in Int, NEW q \in Int, k >= 1, q >= 1
  PROVE  k * q >= k
OBVIOUS

(* Equal numbers have equal remainders.                                    *)
LEMMA RemainderUnique ==
  ASSUME NEW q \in Int, NEW r \in 0 .. UintValues - 1,
         NEW p \in Int, NEW t \in 0 .. UintValues - 1,
         UintValues * q + r = UintValues * p + t
  PROVE  r = t
<1>1. UintValues * (q - p) = t - r /\ UintValues * (p - q) = r - t
  BY UintAssumption
<1>2. ~(q - p >= 1)
  <2> SUFFICES ASSUME q - p >= 1 PROVE FALSE
    OBVIOUS
  <2>1. UintValues * (q - p) >= UintValues
    BY ProductBound, UintAssumption
  <2> QED BY <1>1, <2>1, UintAssumption
<1>3. ~(p - q >= 1)
  <2> SUFFICES ASSUME p - q >= 1 PROVE FALSE
    OBVIOUS
  <2>1. UintValues * (p - q) >= UintValues
    BY ProductBound, UintAssumption
  <2> QED BY <1>1, <2>1, UintAssumption
<1>4. q = p
  BY <1>2, <1>3
<1> QED BY <1>1, <1>4, UintAssumption

(* Wrapping early or late makes no difference.                             *)
LEMMA WrapOnce ==
  ASSUME NEW x \in Int, NEW d \in Int
  PROVE  ((x % UintValues) + d) % UintValues = (x + d) % UintValues
<1>1. PICK q \in Int, r \in 0 .. UintValues - 1 :
        x = UintValues * q + r /\ x % UintValues = r
  BY DivMod
<1>2. r \in Int /\ r + d \in Int /\ x + d \in Int
  BY UintAssumption
<1>3. PICK p \in Int, t \in 0 .. UintValues - 1 :
        r + d = UintValues * p + t /\ (r + d) % UintValues = t
  BY <1>2, DivMod
<1>4. PICK w \in Int, u \in 0 .. UintValues - 1 :
        x + d = UintValues * w + u /\ (x + d) % UintValues = u
  BY <1>2, DivMod
<1>5. UintValues * (q + p) + t = UintValues * w + u
  BY <1>1, <1>3, <1>4, UintAssumption
<1>6. t = u
  BY <1>5, RemainderUnique
<1> QED BY <1>1, <1>3, <1>4, <1>6

(* Adding to a wrapped counter is adding, then wrapping;                   *)
LEMMA CountUp ==
  ASSUME NEW n \in Int, NEW k \in Int
  PROVE  UintAdd(n % UintValues, k) = (n + k) % UintValues
BY WrapOnce DEF UintAdd

(* and so is subtracting.                                                  *)
LEMMA CountDown ==
  ASSUME NEW n \in Int, NEW k \in Int
  PROVE  UintSub(n % UintValues, k) = (n - k) % UintValues
<1>1. ((n % UintValues) + (-k)) % UintValues = (n + (-k)) % UintValues
  BY WrapOnce
<1>2. (n % UintValues) + (-k) = (n % UintValues) - k /\ n + (-k) = n - k
  BY UintRange, UintAssumption
<1> QED BY <1>1, <1>2 DEF UintSub

(* A set of positions has a first one.                                     *)
LEMMA LeastPosition ==
  ASSUME NEW S \in SUBSET Nat, S # {}
  PROVE  \E i \in S : \A j \in S : i <= j
<1>1. PICK i \in S : \A j \in S : ~(<<j, i>> \in OpToRel(<, Nat))
  BY WFMin, NatLessThanWellFounded
<1>2. ASSUME NEW j \in S
      PROVE  i <= j
  <2>1. <<j, i>> \in Nat \X Nat /\ <<j, i>>[1] = j /\ <<j, i>>[2] = i
    BY <1>1
  <2>2. j < i => <<j, i>> \in OpToRel(<, Nat)
    BY <2>1, Zenon DEF OpToRel
  <2>3. ~(j < i)
    BY <1>1, <2>2
  <2>4. i \in Nat /\ j \in Nat
    OBVIOUS
  <2> QED BY <2>3, <2>4
<1> QED BY <1>1, <1>2

(* The open commands of a queue can be counted.                            *)
LEMMA OpenFinite ==
  ASSUME NEW queue \in Seq(TaskSet)
  PROVE  IsFiniteSet(OpenCommands(queue))
<1> DEFINE Open(i) == {i} \X (queue[i].cindex + 1 .. Len(queue[i].cmds))
           Opens   == {Open(i) : i \in DOMAIN queue}
           opens   == [i \in 1 .. Len(queue) |-> Open(i)]
<1>1. opens \in Seq(Opens) /\ Len(opens) = Len(queue) /\ DOMAIN queue = 1 .. Len(queue)
  BY LenProperties
<1>2. IsFiniteSet(Opens)
  BY <1>1 DEF IsFiniteSet
<1>3. ASSUME NEW i \in DOMAIN queue
      PROVE  IsFiniteSet(Open(i))
  <2>1. queue[i] \in TaskSet
    BY <1>1, ElementOfSeq
  <2>2. queue[i].cindex + 1 \in Int /\ Len(queue[i].cmds) \in Int
    BY <2>1, LenProperties DEF TaskSet
  <2>3. IsFiniteSet(queue[i].cindex + 1 .. Len(queue[i].cmds))
    BY <2>2, FS_Interval
  <2>4. IsFiniteSet({i})
    BY FS_Singleton
  <2> QED BY <2>3, <2>4, FS_Product
<1>4. IsFiniteSet(UNION Opens)
  BY <1>2, <1>3, FS_UNION
<1> QED BY <1>4 DEF OpenCommands

(* ... and their number is one.                                            *)
LEMMA RemainingNat ==
  ASSUME NEW queue \in Seq(TaskSet)
  PROVE  Remaining(queue) \in Nat
BY OpenFinite, FS_CardinalityType DEF Remaining

-----------------------------------------------------------------------------
(* at_queue_add inserts an untouched task behind the head, or at the tail. *)
LEMMA NewTaskWaits ==
  ASSUME NEW kind \in KindSet, kind.cmds # <<>>
  PROVE  NewTask(kind) \in TaskSet /\ Waits(NewTask(kind))
<1>1. Len(kind.cmds) \in Nat \ {0}
  BY EmptySeq DEF KindSet
<1> QED BY <1>1 DEF NewTask, KindSet, TaskSet, Waits, InBounds, Untouched

(* A task that waits is fit to be the head.                                *)
LEMMA WaitsIsFit ==
  ASSUME NEW task \in TaskSet, Waits(task)
  PROVE  InBounds(task) /\ SentSoFar(task)
BY DEF Waits, Untouched, SentSoFar

(* at_queue_add keeps the queue sound, wherever the task goes.             *)
LEMMA AddSound ==
  ASSUME NEW s, Sound(s), NEW kind \in KindSet
  PROVE  Sound(at_queue_add(s, kind))
<1> DEFINE new   == NewTask(kind)
           after == InsertAfterHead(s.queue, new)
           last  == Append(s.queue, new)
<1>1. CASE kind.cmds = <<>>
  BY <1>1 DEF at_queue_add
<1>2. CASE kind.cmds # <<>>
  <2>1. new \in TaskSet /\ Waits(new) /\ InBounds(new) /\ SentSoFar(new)
    BY <1>2, NewTaskWaits, WaitsIsFit
  <2>2. s.queue \in Seq(TaskSet) /\ Len(s.queue) \in Nat
    BY LenProperties DEF Sound, QueueSet
  <2>3. /\ UintAdd(s.at_tasks, 1) \in 0 .. UintValues - 1
        /\ UintAdd(s.at_cmds, Len(kind.cmds)) \in 0 .. UintValues - 1
    <3>1. s.at_tasks + 1 \in Int /\ s.at_cmds + Len(kind.cmds) \in Int
      BY UintAssumption, LenProperties DEF Sound, QueueSet, KindSet
    <3> QED BY <3>1, UintRange DEF UintAdd
  <2>4. UintAdd(s.at_tasks, 1) = (Len(s.queue) + 1) % UintValues
    <3>1. s.at_tasks = Len(s.queue) % UintValues
      BY DEF Sound, TasksMatch
    <3>2. Len(s.queue) \in Int /\ 1 \in Int
      BY <2>2
    <3>3. UintAdd(Len(s.queue) % UintValues, 1) = (Len(s.queue) + 1) % UintValues
      BY <3>2, CountUp
    <3> QED BY <3>1, <3>3
  <2>5. CASE kind.prio /\ s.queue # <<>>
    <3>1. /\ after \in Seq(TaskSet)
          /\ Len(after) = Len(s.queue) + 1
          /\ Head(after) = Head(s.queue)
          /\ \A i \in 2 .. Len(after) : Waits(after[i])
      BY <2>1, <2>2, <2>5 DEF InsertAfterHead, Sound, WellFormed
    <3>2. at_queue_add(s, kind) =
            [s EXCEPT !.queue = after, !.at_tasks = UintAdd(@, 1),
                      !.at_cmds = UintAdd(@, Len(kind.cmds))]
      BY <1>2, <2>5 DEF at_queue_add
    <3> HIDE DEF after, last, new
    <3>3. /\ at_queue_add(s, kind) \in QueueSet
          /\ at_queue_add(s, kind).queue = after
          /\ at_queue_add(s, kind).at_tasks = UintAdd(s.at_tasks, 1)
      BY <2>3, <3>1, <3>2 DEF Sound, QueueSet
    <3> QED BY <2>4, <2>5, <3>1, <3>3 DEF Sound, WellFormed, TasksMatch
  <2>6. CASE ~(kind.prio /\ s.queue # <<>>)
    <3>1. /\ last \in Seq(TaskSet)
          /\ Len(last) = Len(s.queue) + 1
          /\ \A i \in 2 .. Len(last) : Waits(last[i])
          /\ InBounds(Head(last)) /\ SentSoFar(Head(last))
      BY <2>1, <2>2 DEF Sound, WellFormed
    <3>2. at_queue_add(s, kind) =
            [s EXCEPT !.queue = last, !.at_tasks = UintAdd(@, 1),
                      !.at_cmds = UintAdd(@, Len(kind.cmds))]
      BY <1>2, <2>6 DEF at_queue_add
    <3> HIDE DEF after, last, new
    <3>3. /\ at_queue_add(s, kind) \in QueueSet
          /\ at_queue_add(s, kind).queue = last
          /\ at_queue_add(s, kind).at_tasks = UintAdd(s.at_tasks, 1)
      BY <2>3, <3>1, <3>2 DEF Sound, QueueSet
    <3> QED BY <2>4, <3>1, <3>3 DEF Sound, WellFormed, TasksMatch
  <2> QED BY <2>5, <2>6
<1> QED BY <1>1, <1>2

-----------------------------------------------------------------------------
(* at_queue_remove repairs whatever was done to the head.                  *)
LEMMA RemoveSound ==
  ASSUME NEW s, TailSound(s)
  PROVE  Sound(at_queue_remove(s))
<1>1. CASE s.queue = <<>>
  BY <1>1 DEF at_queue_remove, TailSound, Sound, WellFormed
<1>2. CASE s.queue # <<>>
  <2> DEFINE head == Head(s.queue)
             rest == Tail(s.queue)
  <2>1. s.queue \in Seq(TaskSet) /\ Len(s.queue) \in Nat
    BY LenProperties DEF TailSound, QueueSet
  <2>2. /\ head \in TaskSet
        /\ rest \in Seq(TaskSet)
        /\ Len(rest) = Len(s.queue) - 1
        /\ \A i \in 1 .. Len(rest) : rest[i] = s.queue[i + 1]
    BY <1>2, <2>1, HeadTailProperties
  <2>3. \A i \in 1 .. Len(rest) : rest[i] \in TaskSet /\ Waits(rest[i])
    BY <2>1, <2>2 DEF TailSound
  <2>4. rest # <<>> => InBounds(Head(rest)) /\ SentSoFar(Head(rest))
    <3> SUFFICES ASSUME rest # <<>>
                 PROVE  InBounds(Head(rest)) /\ SentSoFar(Head(rest))
      OBVIOUS
    <3>1. 1 \in 1 .. Len(rest) /\ Head(rest) = rest[1]
      BY <2>2
    <3> QED BY <2>3, <3>1, WaitsIsFit
  <2>5. /\ UintSub(s.at_tasks, 1) \in 0 .. UintValues - 1
        /\ UintSub(s.at_cmds, Len(head.cmds) - head.cindex) \in 0 .. UintValues - 1
    <3>1. s.at_tasks - 1 \in Int /\ s.at_cmds - (Len(head.cmds) - head.cindex) \in Int
      BY <2>2, UintAssumption, LenProperties DEF TailSound, QueueSet, TaskSet
    <3> QED BY <3>1, UintRange DEF UintSub
  <2>6. at_queue_remove(s) =
          [s EXCEPT !.queue = rest, !.at_tasks = UintSub(@, 1),
                    !.at_cmds = UintSub(@, Len(head.cmds) - head.cindex)]
    BY <1>2 DEF at_queue_remove
  <2>7. /\ at_queue_remove(s) \in QueueSet
        /\ at_queue_remove(s).queue = rest
        /\ at_queue_remove(s).at_tasks = UintSub(s.at_tasks, 1)
    BY <2>2, <2>5, <2>6 DEF TailSound, QueueSet
  <2>8. \A i \in 2 .. Len(rest) : Waits(rest[i])
    BY <2>1, <2>2, <2>3
  <2>9. UintSub(s.at_tasks, 1) = (Len(s.queue) - 1) % UintValues
    <3>1. s.at_tasks = Len(s.queue) % UintValues
      BY DEF TailSound, TasksMatch
    <3>2. Len(s.queue) \in Int /\ 1 \in Int
      BY <2>1
    <3>3. UintSub(Len(s.queue) % UintValues, 1) = (Len(s.queue) - 1) % UintValues
      BY <3>2, CountDown
    <3> QED BY <3>1, <3>3
  <2>10. TasksMatch(at_queue_remove(s))
    BY <2>2, <2>7, <2>9 DEF TasksMatch
  <2> HIDE DEF rest, head
  <2> QED BY <2>4, <2>7, <2>8, <2>10 DEF Sound, WellFormed
<1> QED BY <1>1, <1>2

-----------------------------------------------------------------------------
(* Replacing the head disturbs nothing behind it.                          *)
LEMMA WithHeadSound ==
  ASSUME NEW s, TailSound(s), s.queue # <<>>, NEW task \in TaskSet
  PROVE  /\ TailSound(WithHead(s, task))
         /\ WithHead(s, task).queue # <<>>
         /\ Head(WithHead(s, task).queue) = task
         /\ InBounds(task) /\ SentSoFar(task) => Sound(WithHead(s, task))
<1> DEFINE queue == [s.queue EXCEPT ![1] = task]
<1>1. s.queue \in Seq(TaskSet) /\ Len(s.queue) \in Nat \ {0}
  BY EmptySeq DEF TailSound, QueueSet
<1>2. /\ queue \in Seq(TaskSet)
      /\ Len(queue) = Len(s.queue)
      /\ \A i \in 1 .. Len(s.queue) : queue[i] = IF i = 1 THEN task ELSE s.queue[i]
  BY <1>1, ExceptSeq
<1>3. queue # <<>> /\ Head(queue) = task
  BY <1>1, <1>2
<1>4. \A i \in 2 .. Len(queue) : Waits(queue[i])
  BY <1>1, <1>2 DEF TailSound
<1>5. /\ WithHead(s, task) \in QueueSet
      /\ WithHead(s, task).queue = queue
      /\ WithHead(s, task).at_tasks = s.at_tasks
  BY <1>2 DEF WithHead, TailSound, QueueSet
<1> HIDE DEF queue
<1>6. TasksMatch(WithHead(s, task))
  BY <1>2, <1>5 DEF TailSound, TasksMatch
<1> QED BY <1>3, <1>4, <1>5, <1>6 DEF TailSound, Sound, WellFormed

(* The head of a sound queue, its types and its shape.                     *)
LEMMA HeadFacts ==
  ASSUME NEW s, Sound(s), s.queue # <<>>
  PROVE  /\ Head(s.queue) \in TaskSet
         /\ InBounds(Head(s.queue)) /\ SentSoFar(Head(s.queue))
         /\ Len(Head(s.queue).cmds) \in Nat \ {0}
         /\ TailSound(s)
<1>1. s.queue \in Seq(TaskSet)
  BY DEF Sound, QueueSet
<1>2. Head(s.queue) \in TaskSet
  BY <1>1, HeadTailProperties
<1>3. InBounds(Head(s.queue)) /\ SentSoFar(Head(s.queue))
  BY DEF Sound, WellFormed
<1>4. Len(Head(s.queue).cmds) \in Nat \ {0}
  BY <1>2, <1>3, EmptySeq DEF TaskSet, InBounds
<1> QED BY <1>2, <1>3, <1>4 DEF Sound, WellFormed, TailSound

(* Advancing the head keeps the queue fit for at_queue_remove, and sound   *)
(* as long as the head stays within its commands.                          *)
LEMMA AdvanceSound ==
  ASSUME NEW s, Sound(s), s.queue # <<>>, NEW n \in Nat,
         NEW c, c = IF Head(s.queue).at_once THEN n ELSE Head(s.queue).cindex + n
  PROVE  /\ TailSound(Advance(s, n))
         /\ /\ c <= Len(Head(s.queue).cmds)
            /\ ~Head(s.queue).at_once => c < Len(Head(s.queue).cmds)
            => Sound(Advance(s, n))
<1> DEFINE head == Head(s.queue)
           task == [head EXCEPT !.cindex = c]
           next == WithHead(s, task)
<1>1. /\ head \in TaskSet /\ InBounds(head) /\ SentSoFar(head)
      /\ Len(head.cmds) \in Nat \ {0} /\ TailSound(s)
  BY HeadFacts
<1>2. c \in Nat /\ (~head.at_once => head.cindex <= c)
  BY <1>1 DEF TaskSet
<1>3. /\ task \in TaskSet
      /\ task.cmds = head.cmds /\ task.sent = head.sent
      /\ task.at_once = head.at_once /\ task.cindex = c
  BY <1>1, <1>2 DEF TaskSet
<1>4. SentSoFar(task)
  <2>1. CASE head.at_once
    BY <1>1, <1>3, <2>1 DEF SentSoFar
  <2>2. CASE ~head.at_once
    <3>1. head.sent \subseteq 1 .. head.cindex + 1 /\ head.cindex \in Nat
      BY <1>1, <2>2 DEF SentSoFar, TaskSet
    <3>2. 1 .. head.cindex + 1 \subseteq 1 .. c + 1
      BY <1>2, <2>2, <3>1
    <3> QED BY <1>3, <2>2, <3>1, <3>2 DEF SentSoFar
  <2> QED BY <2>1, <2>2
<1>5. c <= Len(head.cmds) /\ (~head.at_once => c < Len(head.cmds)) => InBounds(task)
  BY <1>1, <1>3 DEF InBounds
<1>6. TailSound(next) /\ (InBounds(task) => Sound(next))
  BY <1>1, <1>3, <1>4, WithHeadSound
<1>7. UintSub(next.at_cmds, n) \in 0 .. UintValues - 1
  <2>1. next.at_cmds - n \in Int
    BY <1>6, UintAssumption DEF TailSound, QueueSet
  <2> QED BY <2>1, UintRange DEF UintSub
<1>8. Advance(s, n) = [next EXCEPT !.at_cmds = UintSub(@, n)]
  BY DEF Advance
<1> HIDE DEF next
<1>9. /\ Advance(s, n).queue = next.queue
      /\ Advance(s, n).at_tasks = next.at_tasks
      /\ Advance(s, n) \in QueueSet
  BY <1>6, <1>7, <1>8 DEF TailSound, QueueSet
<1> HIDE DEF task, head
<1>10. TailSound(Advance(s, n)) /\ (Sound(next) => Sound(Advance(s, n)))
  BY <1>6, <1>9 DEF TailSound, Sound, WellFormed, TasksMatch
<1> QED BY <1>5, <1>6, <1>10 DEF head

-----------------------------------------------------------------------------
(* A result, expected or not, and a timeout.                               *)
LEMMA RemoveCmdSound ==
  ASSUME NEW s, Sound(s), NEW res
  PROVE  Sound(at_queue_remove_cmd(s, res))
<1>1. CASE s.queue = <<>>
  BY <1>1 DEF at_queue_remove_cmd
<1>2. CASE s.queue # <<>>
  <2> DEFINE head == Head(s.queue)
  <2>1. head \in TaskSet /\ InBounds(head) /\ Len(head.cmds) \in Nat \ {0}
    BY <1>2, HeadFacts
  <2>2. CASE head.at_once
    <3>1. TailSound(Advance(s, Len(head.cmds))) /\ Sound(Advance(s, Len(head.cmds)))
      BY <1>2, <2>1, <2>2, AdvanceSound
    <3>2. Sound(at_queue_remove(Advance(s, Len(head.cmds))))
      BY <3>1, RemoveSound
    <3> QED BY <1>2, <2>2, <3>1, <3>2 DEF at_queue_remove_cmd, RemoveCmdAtOnce
  <2>3. CASE ~head.at_once
    <3>1. head.cindex \in Nat
      BY <2>1 DEF TaskSet
    <3>2. TailSound(Advance(s, 1))
      BY <1>2, AdvanceSound
    <3>3. head.cindex + 1 < Len(head.cmds) => Sound(Advance(s, 1))
      BY <1>2, <2>1, <2>3, <3>1, AdvanceSound
    <3>4. Sound(at_queue_remove(Advance(s, 1)))
      BY <3>2, RemoveSound
    <3>5. \/ RemoveCmdInOrder(s, res) = at_queue_remove(Advance(s, 1))
          \/ /\ head.cindex + 1 < Len(head.cmds)
             /\ RemoveCmdInOrder(s, res) = Advance(s, 1)
      BY <2>1, <3>1 DEF RemoveCmdInOrder
    <3> QED BY <1>2, <2>3, <3>3, <3>4, <3>5 DEF at_queue_remove_cmd
  <2> QED BY <2>2, <2>3
<1> QED BY <1>1, <1>2

(* The line of a task that can be indexed is a command code.               *)
LEMMA LineType ==
  ASSUME NEW task \in TaskSet, InBounds(task),
         task.at_once \/ task.cindex < Len(task.cmds)
  PROVE  Line(task) \in at_cmd_t
<1>1. Len(task.cmds) \in Nat \ {0} /\ task.cindex \in Nat /\ task.cmds \in Seq(CommandSet)
  BY EmptySeq DEF TaskSet, InBounds
<1>2. CurrentIndex(task) \in 1 .. Len(task.cmds)
  BY <1>1 DEF CurrentIndex
<1>3. task.cmds[CurrentIndex(task)] \in CommandSet
  BY <1>1, <1>2, ElementOfSeq
<1> QED BY <1>3 DEF Line, at_queue_task_cmd, CommandSet

(* A line on the wire changes nothing else.                                *)
LEMMA WriteSound ==
  ASSUME NEW s, Sound(s), NEW line \in at_cmd_t
  PROVE  Sound([s EXCEPT !.tx = Append(@, line)])
<1>1. s \in QueueSet /\ s.tx \in Seq(at_cmd_t)
  BY DEF Sound, QueueSet
<1>2. Append(s.tx, line) \in Seq(at_cmd_t)
  BY <1>1, AppendProperties
<1> DEFINE next == [s EXCEPT !.tx = Append(@, line)]
<1>3. next \in QueueSet /\ next.queue = s.queue /\ next.at_tasks = s.at_tasks
  BY <1>1, <1>2 DEF QueueSet
<1> QED BY <1>3 DEF Sound, WellFormed, TasksMatch

(* Writing the head command, or failing to.                                *)
LEMMA RunSound ==
  ASSUME NEW s, Sound(s), NEW ok
  PROVE  Sound(at_queue_run(s, ok))
<1>1. CASE ~RunWrites(s)
  BY <1>1 DEF at_queue_run
<1>2. CASE RunWrites(s)
  <2> DEFINE head == Head(s.queue)
             done == IF head.at_once THEN DOMAIN head.cmds ELSE head.sent \cup {head.cindex + 1}
             task == [head EXCEPT !.sent = done]
             next == WithHead(s, task)
  <2>1. s.queue # <<>>
    BY <1>2 DEF RunWrites
  <2>2. /\ head \in TaskSet /\ InBounds(head) /\ SentSoFar(head)
        /\ Len(head.cmds) \in Nat \ {0} /\ TailSound(s)
    BY <2>1, HeadFacts
  <2>3. DOMAIN head.cmds = 1 .. Len(head.cmds)
    BY <2>2, LenProperties DEF TaskSet
  <2>4. done \in SUBSET Nat
    BY <2>2, <2>3 DEF TaskSet
  <2>5. /\ task \in TaskSet
        /\ task.cmds = head.cmds /\ task.sent = done
        /\ task.at_once = head.at_once /\ task.cindex = head.cindex
    BY <2>2, <2>4 DEF TaskSet
  <2>6. InBounds(task)
    BY <2>2, <2>5 DEF InBounds
  <2>7. SentSoFar(task)
    BY <2>2, <2>5 DEF SentSoFar, TaskSet
  <2>8. Sound(next)
    BY <2>1, <2>2, <2>5, <2>6, <2>7, WithHeadSound
  <2>9. CASE ok
    <3>1. Line(head) \in at_cmd_t
      BY <2>2, LineType DEF InBounds
    <3> HIDE DEF next
    <3>2. at_queue_run(s, ok) = [next EXCEPT !.tx = Append(@, Line(head))]
      BY <1>2, <2>9 DEF at_queue_run, next
    <3> QED BY <2>8, <3>1, <3>2, WriteSound
  <2>10. CASE ~ok /\ head.at_once
    <3>1. TailSound(Advance(s, Len(head.cmds))) /\ Sound(Advance(s, Len(head.cmds)))
      BY <2>1, <2>2, <2>10, AdvanceSound
    <3>2. Sound(at_queue_remove(Advance(s, Len(head.cmds))))
      BY <3>1, RemoveSound
    <3> QED BY <1>2, <2>10, <3>1, <3>2 DEF at_queue_run, at_queue_remove_task_at_once
  <2>11. CASE ~ok /\ ~head.at_once
    BY <1>2, <2>11, RemoveCmdSound DEF at_queue_run
  <2> QED BY <2>9, <2>10, <2>11
<1> QED BY <1>1, <1>2

(* Enqueueing a task, with or without running the queue.                   *)
LEMMA InsertSound ==
  ASSUME NEW s, Sound(s), NEW kind \in KindSet, NEW ok
  PROVE  Sound(at_queue_insert(s, kind, ok))
BY AddSound, RunSound DEF at_queue_insert

-----------------------------------------------------------------------------
(* The last words of a session and the end of its queue.                   *)
LEMMA RunImmediatelySound ==
  ASSUME NEW s, Sound(s), NEW ok
  PROVE  Sound(at_queue_run_immediately(s, ok))
<1> DEFINE unsent == {i \in DOMAIN s.queue : s.queue[i].at_once /\ s.queue[i].sent = {}}
           first  == CHOOSE i \in unsent : \A j \in unsent : i <= j
<1>1. CASE unsent = {} \/ ~ok
  BY <1>1 DEF at_queue_run_immediately
<1>2. CASE ~(unsent = {} \/ ~ok)
  <2>1. s.queue \in Seq(TaskSet) /\ DOMAIN s.queue = 1 .. Len(s.queue) /\ Len(s.queue) \in Nat
    BY LenProperties DEF Sound, QueueSet
  <2>2. first \in unsent
    <3>1. unsent \subseteq Nat /\ unsent # {}
      BY <1>2, <2>1
    <3>2. \E i \in unsent : \A j \in unsent : i <= j
      BY <3>1, LeastPosition
    <3> QED BY <3>2
  <2>3. s.queue[first] \in TaskSet /\ s.queue[first].at_once /\ first \in 1 .. Len(s.queue)
    BY <2>1, <2>2, ElementOfSeq
  <2> HIDE DEF first
  <2>4. InBounds(s.queue[first])
    <3>1. CASE first = 1
      BY <2>1, <2>3, <3>1 DEF Sound, WellFormed
    <3>2. CASE first # 1
      BY <2>1, <2>3, <3>2 DEF Sound, WellFormed, Waits
    <3> QED BY <3>1, <3>2
  <2>5. Line(s.queue[first]) \in at_cmd_t
    BY <2>3, <2>4, LineType
  <2>6. at_queue_run_immediately(s, ok) = [s EXCEPT !.tx = Append(@, Line(s.queue[first]))]
    BY <1>2 DEF at_queue_run_immediately, first
  <2> QED BY <2>5, <2>6, WriteSound
<1> QED BY <1>1, <1>2

(* at_queue_flush empties the queue and keeps its counter right.           *)
LEMMA FlushSound ==
  ASSUME NEW s, Sound(s)
  PROVE  Sound(at_queue_flush(s)) /\ at_queue_flush(s).queue = <<>>
<1>1. s.queue \in Seq(TaskSet) /\ Len(s.queue) \in Nat /\ Remaining(s.queue) \in Nat
  BY LenProperties, RemainingNat DEF Sound, QueueSet
<1>2. /\ UintSub(s.at_tasks, Len(s.queue)) \in 0 .. UintValues - 1
      /\ UintSub(s.at_cmds, Remaining(s.queue)) \in 0 .. UintValues - 1
  <2>1. s.at_tasks - Len(s.queue) \in Int /\ s.at_cmds - Remaining(s.queue) \in Int
    BY <1>1, UintAssumption DEF Sound, QueueSet
  <2> QED BY <2>1, UintRange DEF UintSub
<1>3. /\ at_queue_flush(s) \in QueueSet
      /\ at_queue_flush(s).queue = <<>>
      /\ at_queue_flush(s).at_tasks = UintSub(s.at_tasks, Len(s.queue))
  BY <1>2, EmptySeq DEF at_queue_flush, Sound, QueueSet
<1>4. UintSub(s.at_tasks, Len(s.queue)) = (Len(s.queue) - Len(s.queue)) % UintValues
  <2>1. s.at_tasks = Len(s.queue) % UintValues
    BY DEF Sound, TasksMatch
  <2>2. Len(s.queue) \in Int
    BY <1>1
  <2>3. UintSub(Len(s.queue) % UintValues, Len(s.queue)) =
          (Len(s.queue) - Len(s.queue)) % UintValues
    BY <2>2, CountDown
  <2> QED BY <2>1, <2>3
<1>5. TasksMatch(at_queue_flush(s))
  BY <1>1, <1>3, <1>4 DEF TasksMatch
<1> QED BY <1>3, <1>5 DEF Sound, WellFormed

-----------------------------------------------------------------------------
(* One command at a time.                                                  *)

(* What the queue may do to the tty: nothing, and then a head command that *)
(* is on the wire stays the head; or write one line, that of the new head, *)
(* when nothing was on the wire.                                           *)
WritesOnce(s, t) ==
  \/ t.tx = s.tx /\ (HeadSent(s) => HeadSent(t) /\ HeadLine(t) = HeadLine(s))
  \/ ~HeadSent(s) /\ HeadSent(t) /\ t.tx = Append(s.tx, HeadLine(t))

(* Two operations in a row write no more than one.                         *)
LEMMA WritesOnceTwice ==
  ASSUME NEW s, NEW t, NEW u, WritesOnce(s, t), WritesOnce(t, u)
  PROVE  WritesOnce(s, u)
BY Zenon DEF WritesOnce

(* at_queue_run finds something to write when the head is not on the wire. *)
LEMMA RunsWhenUnsent ==
  ASSUME NEW s, Sound(s)
  PROVE  RunWrites(s) <=> s.queue # <<>> /\ ~HeadSent(s)
<1>1. CASE s.queue = <<>>
  BY <1>1 DEF RunWrites
<1>2. CASE s.queue # <<>>
  <2> DEFINE head == Head(s.queue)
  <2>1. head \in TaskSet /\ SentSoFar(head) /\ Len(head.cmds) \in Nat \ {0}
    BY <1>2, HeadFacts
  <2>2. DOMAIN head.cmds = 1 .. Len(head.cmds)
    BY <2>1, LenProperties DEF TaskSet
  <2>3. 1 \in DOMAIN head.cmds
    BY <2>1, <2>2
  <2>4. CASE head.at_once
    BY <1>2, <2>1, <2>3, <2>4 DEF RunWrites, HeadSent, CurrentIndex, SentSoFar
  <2>5. CASE ~head.at_once
    BY <1>2, <2>5 DEF RunWrites, HeadSent, CurrentIndex
  <2> QED BY <2>4, <2>5
<1> QED BY <1>1, <1>2

(* A task is added behind the head, or becomes the head of an empty list.  *)
LEMMA AddKeepsHead ==
  ASSUME NEW s, Sound(s), NEW kind \in KindSet, NEW t, t = at_queue_add(s, kind)
  PROVE  t.tx = s.tx /\ (s.queue # <<>> => t.queue # <<>> /\ Head(t.queue) = Head(s.queue))
<1>1. CASE kind.cmds = <<>>
  BY <1>1 DEF at_queue_add
<1>2. CASE kind.cmds # <<>>
  <2> DEFINE new   == NewTask(kind)
             after == InsertAfterHead(s.queue, new)
             last  == Append(s.queue, new)
  <2>1. new \in TaskSet
    BY <1>2, NewTaskWaits
  <2>2. s.queue \in Seq(TaskSet) /\ Len(s.queue) \in Nat
    BY LenProperties DEF Sound, QueueSet
  <2>3. ASSUME s.queue # <<>>
        PROVE  after # <<>> /\ Head(after) = Head(s.queue)
    <3>1. after \in Seq(TaskSet) /\ Len(after) = Len(s.queue) + 1 /\ Head(after) = Head(s.queue)
      BY <2>1, <2>2, <2>3 DEF InsertAfterHead
    <3> QED BY <2>2, <3>1, EmptySeq
  <2>4. s.queue # <<>> => last # <<>> /\ Head(last) = Head(s.queue)
    BY <2>1, <2>2
  <2> HIDE DEF after, last, new
  <2>5. t = [s EXCEPT !.queue = IF kind.prio /\ s.queue # <<>> THEN after ELSE last,
                      !.at_tasks = UintAdd(@, 1), !.at_cmds = UintAdd(@, Len(kind.cmds))]
    BY <1>2 DEF at_queue_add, after, last, new
  <2>6. t.tx = s.tx /\ (t.queue = IF kind.prio /\ s.queue # <<>> THEN after ELSE last)
    BY <2>5 DEF Sound, QueueSet
  <2> QED BY <2>3, <2>4, <2>6
<1> QED BY <1>1, <1>2

(* ... so adding writes nothing.                                           *)
LEMMA AddWritesOnce ==
  ASSUME NEW s, Sound(s), NEW kind \in KindSet
  PROVE  WritesOnce(s, at_queue_add(s, kind))
BY AddKeepsHead, Zenon DEF WritesOnce, HeadSent, HeadLine

(* A result writes nothing either.                                         *)
LEMMA RemoveKeepsTx ==
  ASSUME NEW s, s \in QueueSet
  PROVE  at_queue_remove(s).tx = s.tx
BY DEF at_queue_remove, QueueSet

(* ... nor does moving to another command.                                 *)
LEMMA AdvanceKeepsTx ==
  ASSUME NEW s, s \in QueueSet, NEW n
  PROVE  Advance(s, n).tx = s.tx
<1> DEFINE task == [Head(s.queue) EXCEPT !.cindex = IF Head(s.queue).at_once THEN n ELSE @ + n]
<1>1. PICK next : next = WithHead(s, task)
  OBVIOUS
<1>2. Advance(s, n) = [next EXCEPT !.at_cmds = UintSub(@, n)]
  BY <1>1 DEF Advance
<1> HIDE DEF task
<1>3. PICK queue : next = [s EXCEPT !.queue = queue]
  BY <1>1 DEF WithHead
<1> QED BY <1>2, <1>3 DEF QueueSet

(* ... nor at_queue_remove_cmd, which does both.                           *)
LEMMA RemoveCmdKeepsTx ==
  ASSUME NEW s, Sound(s), NEW res
  PROVE  at_queue_remove_cmd(s, res).tx = s.tx
<1>1. CASE s.queue = <<>>
  BY <1>1 DEF at_queue_remove_cmd
<1>2. CASE s.queue # <<>>
  <2>1. ASSUME NEW n \in Nat
        PROVE  Advance(s, n).tx = s.tx /\ at_queue_remove(Advance(s, n)).tx = s.tx
    <3>1. Advance(s, n) \in QueueSet
      BY <1>2, AdvanceSound DEF TailSound
    <3>2. s \in QueueSet
      BY DEF Sound
    <3> QED BY <3>1, <3>2, AdvanceKeepsTx, RemoveKeepsTx
  <2>2. Len(Head(s.queue).cmds) \in Nat
    BY <1>2, HeadFacts
  <2>3. /\ RemoveCmdAtOnce(s, res).tx = s.tx
    BY <2>1, <2>2, Zenon DEF RemoveCmdAtOnce
  <2>4. RemoveCmdInOrder(s, res).tx = s.tx
    <3>1. 1 \in Nat
      OBVIOUS
    <3> QED BY <2>1, <3>1, Zenon DEF RemoveCmdInOrder
  <2> QED BY <1>2, <2>3, <2>4, Zenon DEF at_queue_remove_cmd
<1> QED BY <1>1, <1>2

(* Running the queue writes the head command if it is not on the wire.     *)
LEMMA RunWritesOnce ==
  ASSUME NEW s, Sound(s), NEW ok
  PROVE  WritesOnce(s, at_queue_run(s, ok))
<1>1. CASE ~RunWrites(s)
  BY <1>1 DEF at_queue_run, WritesOnce
<1>2. CASE RunWrites(s)
  <2> DEFINE head == Head(s.queue)
             done == IF head.at_once THEN DOMAIN head.cmds ELSE head.sent \cup {head.cindex + 1}
             task == [head EXCEPT !.sent = done]
  <2>1. s.queue # <<>> /\ ~HeadSent(s)
    BY <1>2, RunsWhenUnsent
  <2>2. /\ head \in TaskSet /\ InBounds(head) /\ SentSoFar(head)
        /\ Len(head.cmds) \in Nat \ {0} /\ TailSound(s)
    BY <2>1, HeadFacts
  <2>3. DOMAIN head.cmds = 1 .. Len(head.cmds)
    BY <2>2, LenProperties DEF TaskSet
  <2>4. done \in SUBSET Nat
    BY <2>2, <2>3 DEF TaskSet
  <2>5. /\ task \in TaskSet /\ task.cmds = head.cmds /\ task.sent = done
        /\ task.at_once = head.at_once /\ task.cindex = head.cindex
    BY <2>2, <2>4 DEF TaskSet
  <2>6. CurrentIndex(task) = CurrentIndex(head) /\ Line(task) = Line(head)
    BY <2>5 DEF CurrentIndex, Line, at_queue_task_cmd
  <2>7. CurrentIndex(task) \in task.sent
    BY <2>2, <2>3, <2>5 DEF CurrentIndex
  <2>8. CASE ok
    <3>1. PICK next : next = WithHead(s, task)
      OBVIOUS
    <3>2. /\ next.queue # <<>> /\ Head(next.queue) = task /\ next \in QueueSet /\ next.tx = s.tx
      <4>1. next.queue # <<>> /\ Head(next.queue) = task /\ next \in QueueSet
        BY <2>1, <2>2, <2>5, <3>1, WithHeadSound DEF TailSound
      <4>2. PICK queue : next = [s EXCEPT !.queue = queue]
        BY <3>1 DEF WithHead
      <4>3. next.tx = s.tx
        BY <4>2 DEF Sound, QueueSet
      <4> QED BY <4>1, <4>3
    <3>3. at_queue_run(s, ok) = [next EXCEPT !.tx = Append(@, Line(head))]
      BY <1>2, <2>8, <3>1 DEF at_queue_run
    <3> HIDE DEF task, head
    <3>4. at_queue_run(s, ok).queue = next.queue /\ at_queue_run(s, ok).tx = Append(s.tx, Line(head))
      BY <3>2, <3>3 DEF QueueSet
    <3> QED BY <2>1, <2>6, <2>7, <3>2, <3>4 DEF WritesOnce, HeadSent, HeadLine
  <2>9. CASE ~ok
    <3>1. at_queue_run(s, ok).tx = s.tx
      <4>1. CASE head.at_once
        <5>1. Advance(s, Len(head.cmds)) \in QueueSet
          BY <2>1, <2>2, AdvanceSound DEF TailSound
        <5>2. Advance(s, Len(head.cmds)).tx = s.tx
          BY AdvanceKeepsTx DEF Sound
        <5>3. at_queue_remove(Advance(s, Len(head.cmds))).tx = s.tx
          BY <5>1, <5>2, RemoveKeepsTx
        <5> QED BY <1>2, <2>9, <4>1, <5>2, <5>3
                DEF at_queue_run, at_queue_remove_task_at_once
      <4>2. CASE ~head.at_once
        BY <1>2, <2>9, <4>2, RemoveCmdKeepsTx DEF at_queue_run
      <4> QED BY <4>1, <4>2
    <3> QED BY <2>1, <3>1 DEF WritesOnce
  <2> QED BY <2>8, <2>9
<1> QED BY <1>1, <1>2

(* Enqueueing a task writes one line at most, and none while the head      *)
(* command is on the wire.                                                 *)
LEMMA InsertWritesOnce ==
  ASSUME NEW s, Sound(s), NEW kind \in KindSet, NEW ok
  PROVE  WritesOnce(s, at_queue_insert(s, kind, ok))
<1>1. PICK t : t = at_queue_add(s, kind)
  OBVIOUS
<1>2. Sound(t) /\ WritesOnce(s, t)
  BY <1>1, AddSound, AddWritesOnce
<1>3. WritesOnce(s, at_queue_run(t, ok))
  BY <1>2, RunWritesOnce, WritesOnceTwice
<1> QED BY <1>1, <1>2, <1>3, Zenon DEF at_queue_insert

-----------------------------------------------------------------------------
(* Counting the open commands.                                             *)

(* Those of the tasks at the positions I, and those of one task.           *)
Opened(queue, I) ==
  UNION {{i} \X (queue[i].cindex + 1 .. Len(queue[i].cmds)) : i \in I}

Left(task) == Len(task.cmds) - task.cindex

Within(task) == task \in TaskSet /\ task.cindex <= Len(task.cmds)

IsOpen(queue, I, x) ==
  \E i \in I : \E k \in queue[i].cindex + 1 .. Len(queue[i].cmds) : x = <<i, k>>

(* What is in such a set.                                                  *)
LEMMA InOpened ==
  ASSUME NEW queue, NEW I, NEW x
  PROVE  x \in Opened(queue, I) <=> IsOpen(queue, I, x)
BY DEF Opened, IsOpen

(* It is finite.                                                           *)
LEMMA OpenedFinite ==
  ASSUME NEW queue \in Seq(TaskSet), NEW I \in SUBSET (1 .. Len(queue))
  PROVE  /\ IsFiniteSet(Opened(queue, I)) /\ Cardinality(Opened(queue, I)) \in Nat
         /\ Remaining(queue) = Cardinality(Opened(queue, 1 .. Len(queue)))
<1>1. DOMAIN queue = 1 .. Len(queue)
  BY LenProperties
<1>2. OpenCommands(queue) = Opened(queue, 1 .. Len(queue))
  BY <1>1 DEF OpenCommands, Opened
<1>3. IsFiniteSet(OpenCommands(queue))
  BY OpenFinite
<1>4. Opened(queue, I) \in SUBSET OpenCommands(queue)
  BY <1>2, Zenon DEF Opened
<1> QED BY <1>2, <1>3, <1>4, FS_Subset, FS_CardinalityType DEF Remaining

(* It depends on nothing else.                                             *)
LEMMA OpenedSame ==
  ASSUME NEW p, NEW q, NEW I,
         \A i \in I : p[i].cindex = q[i].cindex /\ p[i].cmds = q[i].cmds
  PROVE  Opened(p, I) = Opened(q, I)
BY DEF Opened

(* Positions can be counted apart.                                         *)
LEMMA OpenedApart ==
  ASSUME NEW queue \in Seq(TaskSet), NEW I \in SUBSET (1 .. Len(queue)),
         NEW J \in SUBSET (1 .. Len(queue)), I \cap J = {}
  PROVE  Cardinality(Opened(queue, I \cup J)) =
           Cardinality(Opened(queue, I)) + Cardinality(Opened(queue, J))
<1>1. Opened(queue, I \cup J) = Opened(queue, I) \cup Opened(queue, J)
  BY DEF Opened
<1>2. Opened(queue, I) \cap Opened(queue, J) = {}
  <2> SUFFICES ASSUME NEW x, x \in Opened(queue, I), x \in Opened(queue, J)
               PROVE  FALSE
    OBVIOUS
  <2>0. IsOpen(queue, I, x) /\ IsOpen(queue, J, x)
    BY InOpened, Zenon
  <2>1a. PICK i \in I : \E k \in queue[i].cindex + 1 .. Len(queue[i].cmds) : x = <<i, k>>
    BY <2>0, Zenon DEF IsOpen
  <2>1. PICK k \in queue[i].cindex + 1 .. Len(queue[i].cmds) : x = <<i, k>>
    BY <2>1a
  <2>2a. PICK j \in J : \E l \in queue[j].cindex + 1 .. Len(queue[j].cmds) : x = <<j, l>>
    BY <2>0, Zenon DEF IsOpen
  <2>2. PICK l \in queue[j].cindex + 1 .. Len(queue[j].cmds) : x = <<j, l>>
    BY <2>2a
  <2> QED BY <2>1, <2>2
<1>3. PICK A, B : A = Opened(queue, I) /\ B = Opened(queue, J)
  OBVIOUS
<1>4. IsFiniteSet(A) /\ IsFiniteSet(B) /\ Cardinality(A) \in Nat /\ Cardinality(B) \in Nat
  BY <1>3, OpenedFinite
<1>5. Cardinality(A \cap B) = 0
  BY <1>2, <1>3, FS_EmptySet
<1>6. Cardinality(A \cup B) = Cardinality(A) + Cardinality(B) - Cardinality(A \cap B)
  BY <1>4, FS_Union
<1>7. Cardinality(A \cup B) = Cardinality(A) + Cardinality(B)
  BY <1>4, <1>5, <1>6
<1> QED BY <1>1, <1>3, <1>7

(* One task.                                                               *)
LEMMA OpenedOne ==
  ASSUME NEW queue, NEW i, Within(queue[i])
  PROVE  Cardinality(Opened(queue, {i})) = Left(queue[i])
<1>1. PICK c \in Nat, n \in Nat : c = queue[i].cindex /\ n = Len(queue[i].cmds) /\ c <= n
  BY LenProperties DEF Within, TaskSet
<1>2. Opened(queue, {i}) = {i} \X (c + 1 .. n)
  <2>1. Opened(queue, {i}) = {i} \X (queue[i].cindex + 1 .. Len(queue[i].cmds))
    BY Zenon DEF Opened
  <2> QED BY <1>1, <2>1
<1>3. IsFiniteSet(c + 1 .. n) /\ Cardinality(c + 1 .. n) = n - c
  <2>1. c + 1 \in Int /\ n \in Int
    OBVIOUS
  <2>2. IsFiniteSet(c + 1 .. n) /\ Cardinality(c + 1 .. n) = IF c + 1 > n THEN 0 ELSE n - (c + 1) + 1
    BY <2>1, FS_Interval
  <2>3. (IF c + 1 > n THEN 0 ELSE n - (c + 1) + 1) = n - c
    BY <1>1
  <2> QED BY <2>2, <2>3
<1>4. IsFiniteSet({i}) /\ Cardinality({i}) = 1
  BY FS_Singleton
<1>5. Cardinality({i} \X (c + 1 .. n)) = 1 * (n - c)
  BY <1>3, <1>4, FS_Product
<1>6. 1 * (n - c) = n - c /\ Left(queue[i]) = n - c
  BY <1>1 DEF Left
<1> QED BY <1>2, <1>5, <1>6

(* The same tasks one place further on.                                    *)
LEMMA OpenedMoved ==
  ASSUME NEW from \in Seq(TaskSet), NEW to \in Seq(TaskSet), NEW I \in SUBSET (1 .. Len(from)),
         NEW J, \A i \in I : i + 1 \in J, \A j \in J : \E i \in I : j = i + 1,
         \A i \in I : from[i].cindex = to[i + 1].cindex /\ from[i].cmds = to[i + 1].cmds
  PROVE  Cardinality(Opened(from, I)) = Cardinality(Opened(to, J))
<1>1. PICK S, T : S = Opened(from, I) /\ T = Opened(to, J)
  OBVIOUS
<1>2. PICK f : f = [x \in S |-> <<x[1] + 1, x[2]>>]
  OBVIOUS
<1>3. \A i \in I : i \in Int
  BY LenProperties
<1>4. ASSUME NEW x \in S
      PROVE  \E i \in I : \E k \in from[i].cindex + 1 .. Len(from[i].cmds) :
               x = <<i, k>> /\ f[x] = <<i + 1, k>> /\ f[x] \in T
  <2>0. IsOpen(from, I, x)
    BY <1>1, InOpened
  <2>1a. PICK i \in I : \E k \in from[i].cindex + 1 .. Len(from[i].cmds) : x = <<i, k>>
    BY <2>0 DEF IsOpen
  <2>1. PICK k \in from[i].cindex + 1 .. Len(from[i].cmds) : x = <<i, k>>
    BY <2>1a
  <2>2. f[x] = <<i + 1, k>>
    BY <1>2, <2>1
  <2>3. i + 1 \in J /\ k \in to[i + 1].cindex + 1 .. Len(to[i + 1].cmds)
    BY <2>1
  <2>4. <<i + 1, k>> \in T
    BY <1>1, <2>3, InOpened DEF IsOpen
  <2> QED BY <2>1, <2>2, <2>4
<1>5. f \in [S -> T]
  BY <1>2, <1>4
<1>6. \A x, y \in S : f[x] = f[y] => x = y
  <2> SUFFICES ASSUME NEW x \in S, NEW y \in S, f[x] = f[y]
               PROVE  x = y
    OBVIOUS
  <2>1. PICK i \in I : \E k : x = <<i, k>> /\ f[x] = <<i + 1, k>>
    BY <1>4
  <2>2. PICK k : x = <<i, k>> /\ f[x] = <<i + 1, k>>
    BY <2>1
  <2>3. PICK j \in I : \E l : y = <<j, l>> /\ f[y] = <<j + 1, l>>
    BY <1>4
  <2>4. PICK l : y = <<j, l>> /\ f[y] = <<j + 1, l>>
    BY <2>3
  <2>5. i + 1 = j + 1 /\ k = l
    <3>1. \A a, b, c, d : <<a, b>> = <<c, d>> => a = c /\ b = d
      OBVIOUS
    <3>2. <<i + 1, k>> = <<j + 1, l>>
      BY <2>2, <2>4, Zenon
    <3> QED BY <3>1, <3>2
  <2>6. i = j
    BY <1>3, <2>5
  <2> QED BY <2>2, <2>4, <2>5, <2>6
<1>7. \A y \in T : \E x \in S : f[x] = y
  <2> SUFFICES ASSUME NEW y \in T
               PROVE  \E x \in S : f[x] = y
    OBVIOUS
  <2>1a. PICK j \in J : \E k \in to[j].cindex + 1 .. Len(to[j].cmds) : y = <<j, k>>
    BY <1>1, InOpened DEF IsOpen
  <2>1. PICK k \in to[j].cindex + 1 .. Len(to[j].cmds) : y = <<j, k>>
    BY <2>1a
  <2>2. PICK i \in I : j = i + 1
    BY <2>1
  <2>3. k \in from[i].cindex + 1 .. Len(from[i].cmds)
    BY <2>1, <2>2
  <2>4. <<i, k>> \in S
    BY <1>1, <2>3, InOpened DEF IsOpen
  <2>5. f[<<i, k>>] = <<i + 1, k>>
    BY <1>2, <2>4
  <2> QED BY <2>1, <2>2, <2>4, <2>5
<1>8. ExistsBijection(S, T)
  BY <1>5, <1>6, <1>7, Fun_IsBij, Fun_ExistsBij
<1>9. IsFiniteSet(S)
  BY <1>1, OpenedFinite
<1> QED BY <1>1, <1>8, <1>9, FS_Bijection

(* A queue is its head and the rest.                                       *)
LEMMA RemainingSplit ==
  ASSUME NEW q \in Seq(TaskSet), q # <<>>, Within(q[1])
  PROVE  Remaining(q) = Left(q[1]) + Cardinality(Opened(q, 2 .. Len(q)))
<1>1. Len(q) \in Nat \ {0}
  BY EmptySeq
<1>2. PICK n \in Nat \ {0} : n = Len(q)
  BY <1>1
<1>3. {1} \in SUBSET (1 .. n) /\ 2 .. n \in SUBSET (1 .. n) /\ {1} \cap (2 .. n) = {}
      /\ {1} \cup (2 .. n) = 1 .. n
  BY <1>2
<1>4. Remaining(q) = Cardinality(Opened(q, 1 .. n))
  BY <1>2, <1>3, OpenedFinite
<1>5. Cardinality(Opened(q, {1} \cup (2 .. n))) =
        Cardinality(Opened(q, {1})) + Cardinality(Opened(q, 2 .. n))
  BY <1>2, <1>3, OpenedApart
<1>6. Cardinality(Opened(q, {1})) = Left(q[1])
  BY OpenedOne
<1> QED BY <1>2, <1>3, <1>4, <1>5, <1>6

(* An empty one.                                                           *)
LEMMA RemainingNone == Remaining(<<>>) = 0
<1>1. OpenCommands(<<>>) = {}
  BY DEF OpenCommands
<1> QED BY <1>1, FS_EmptySet DEF Remaining

(* The head removed,                                                       *)
LEMMA RemainingTail ==
  ASSUME NEW q \in Seq(TaskSet), q # <<>>, Within(q[1])
  PROVE  Remaining(q) = Left(q[1]) + Remaining(Tail(q))
<1>1. PICK t \in Seq(TaskSet) : t = Tail(q)
  BY HeadTailProperties
<1>2. PICK n \in Nat : n = Len(t) /\ Len(q) = n + 1 /\ \A i \in 1 .. n : t[i] = q[i + 1]
  BY <1>1, HeadTailProperties, EmptySeq, LenProperties
<1>3. PICK I, J : I = 1 .. n /\ J = 2 .. n + 1
  OBVIOUS
<1>4. I \in SUBSET (1 .. Len(t)) /\ \A i \in I : i + 1 \in J
  BY <1>2, <1>3
<1>5. \A j \in J : \E i \in I : j = i + 1
  <2>1. \A j \in J : j - 1 \in I /\ j = (j - 1) + 1
    BY <1>2, <1>3
  <2> QED BY <2>1
<1>6. \A i \in I : t[i].cindex = q[i + 1].cindex /\ t[i].cmds = q[i + 1].cmds
  BY <1>2, <1>3
<1>7. Cardinality(Opened(t, I)) = Cardinality(Opened(q, J))
  BY <1>4, <1>5, <1>6, OpenedMoved, Zenon
<1>8. Remaining(t) = Cardinality(Opened(t, I))
  BY <1>2, <1>3, <1>4, OpenedFinite
<1>9. J = 2 .. Len(q)
  BY <1>2, <1>3
<1> QED BY <1>1, <1>7, <1>8, <1>9, RemainingSplit

(* replaced,                                                               *)
LEMMA RemainingHead ==
  ASSUME NEW q \in Seq(TaskSet), q # <<>>, Within(q[1]), NEW task, Within(task)
  PROVE  Remaining([q EXCEPT ![1] = task]) = Remaining(q) - Left(q[1]) + Left(task)
<1>0. PICK p : p = [q EXCEPT ![1] = task]
  OBVIOUS
<1>1. Len(q) \in Nat \ {0}
  BY EmptySeq
<1>2. /\ p \in Seq(TaskSet) /\ Len(p) = Len(q)
      /\ \A i \in 1 .. Len(q) : p[i] = IF i = 1 THEN task ELSE q[i]
  BY <1>0, <1>1, ExceptSeq DEF Within
<1>3. p # <<>> /\ p[1] = task
  BY <1>1, <1>2
<1>4. \A i \in 2 .. Len(q) : p[i].cindex = q[i].cindex /\ p[i].cmds = q[i].cmds
  BY <1>1, <1>2
<1>5. Opened(p, 2 .. Len(q)) = Opened(q, 2 .. Len(q))
  BY <1>4, OpenedSame, Zenon
<1>6. /\ Remaining(q) = Left(q[1]) + Cardinality(Opened(q, 2 .. Len(q)))
      /\ Remaining(p) = Left(task) + Cardinality(Opened(q, 2 .. Len(q)))
  BY <1>2, <1>3, <1>5, RemainingSplit
<1>7. Cardinality(Opened(q, 2 .. Len(q))) \in Nat
  <2>1. 2 .. Len(q) \in SUBSET (1 .. Len(q))
    BY <1>1
  <2>2. IsFiniteSet(Opened(q, 2 .. Len(q)))
    BY <2>1, OpenedFinite
  <2> QED BY <2>2, FS_CardinalityType
<1>8. Left(q[1]) \in Int /\ Left(task) \in Int
  BY LenProperties DEF Left, Within, TaskSet
<1> QED BY <1>0, <1>6, <1>7, <1>8

(* and a new task at the tail                                              *)
LEMMA RemainingAppend ==
  ASSUME NEW q \in Seq(TaskSet), NEW task, Within(task)
  PROVE  Remaining(Append(q, task)) = Remaining(q) + Left(task)
<1>1. PICK p \in Seq(TaskSet) : p = Append(q, task)
  BY AppendProperties DEF Within
<1>2. PICK n \in Nat : /\ n = Len(q) /\ Len(p) = n + 1 /\ p[n + 1] = task
                       /\ \A i \in 1 .. n : p[i] = q[i]
  BY <1>1, AppendProperties, LenProperties DEF Within
<1>3. /\ 1 .. n \in SUBSET (1 .. Len(p)) /\ {n + 1} \in SUBSET (1 .. Len(p))
      /\ (1 .. n) \cap {n + 1} = {} /\ (1 .. n) \cup {n + 1} = 1 .. Len(p)
  BY <1>2
<1>4. Remaining(p) = Cardinality(Opened(p, 1 .. Len(p))) /\ Remaining(q) = Cardinality(Opened(q, 1 .. n))
  BY <1>2, OpenedFinite
<1>5. Cardinality(Opened(p, (1 .. n) \cup {n + 1})) =
        Cardinality(Opened(p, 1 .. n)) + Cardinality(Opened(p, {n + 1}))
  BY <1>3, OpenedApart
<1>6. Opened(p, 1 .. n) = Opened(q, 1 .. n)
  BY <1>2, OpenedSame
<1>7. Cardinality(Opened(p, {n + 1})) = Left(task)
  BY <1>2, OpenedOne
<1> QED BY <1>1, <1>3, <1>4, <1>5, <1>6, <1>7

(* or after the head.                                                      *)
LEMMA RemainingInsert ==
  ASSUME NEW q \in Seq(TaskSet), q # <<>>, Within(q[1]), NEW task, Within(task)
  PROVE  Remaining(InsertAfterHead(q, task)) = Remaining(q) + Left(task)
<1>0. PICK p : p = InsertAfterHead(q, task)
  OBVIOUS
<1>1. Len(q) \in Nat \ {0}
  BY EmptySeq
<1>2. PICK n \in Nat \ {0} : n = Len(q)
  BY <1>1
<1>3. /\ p \in Seq(TaskSet) /\ Len(p) = n + 1 /\ p[1] = q[1] /\ p[2] = task
      /\ \A i \in 2 .. n : p[i + 1] = q[i]
  <2>1. p = [i \in 1 .. n + 1 |-> IF i = 1 THEN q[1] ELSE IF i = 2 THEN task ELSE q[i - 1]]
    BY <1>0, <1>2 DEF InsertAfterHead
  <2>2. \A i \in 1 .. n : q[i] \in TaskSet
    BY <1>2, ElementOfSeq
  <2>3. \A i \in 1 .. n + 1 : p[i] \in TaskSet
    <3>1. \A i \in 1 .. n + 1 : i # 1 => i - 1 \in 1 .. n
      BY <1>2
    <3> QED BY <1>2, <2>1, <2>2, <3>1 DEF Within
  <2>4. p \in [1 .. n + 1 -> TaskSet]
    BY <2>1, <2>3
  <2>5. p \in Seq(TaskSet) /\ Len(p) = n + 1
    BY <1>2, <2>4
  <2>6. \A i \in 2 .. n : i + 1 \in 1 .. n + 1 /\ i + 1 # 1 /\ i + 1 # 2 /\ (i + 1) - 1 = i
    BY <1>2
  <2>7. 1 \in 1 .. n + 1 /\ 2 \in 1 .. n + 1
    BY <1>2
  <2> QED BY <2>1, <2>5, <2>6, <2>7
<1>4. p # <<>>
  BY <1>2, <1>3
<1>5. /\ {2} \in SUBSET (1 .. Len(p)) /\ 3 .. n + 1 \in SUBSET (1 .. Len(p))
      /\ {2} \cap (3 .. n + 1) = {} /\ {2} \cup (3 .. n + 1) = 2 .. Len(p)
  BY <1>2, <1>3
<1>6. Cardinality(Opened(p, {2} \cup (3 .. n + 1))) =
        Cardinality(Opened(p, {2})) + Cardinality(Opened(p, 3 .. n + 1))
  <2>1. p \in Seq(TaskSet)
    BY <1>3
  <2>2. PICK I \in SUBSET (1 .. Len(p)), J \in SUBSET (1 .. Len(p)) :
          I = {2} /\ J = 3 .. n + 1 /\ I \cap J = {}
    BY <1>5, Zenon
  <2>3. Cardinality(Opened(p, I \cup J)) = Cardinality(Opened(p, I)) + Cardinality(Opened(p, J))
    BY <2>1, <2>2, OpenedApart, Zenon
  <2> QED BY <2>2, <2>3, Zenon
<1>7. Cardinality(Opened(p, {2})) = Left(task)
  BY <1>3, OpenedOne
<1>8. Cardinality(Opened(q, 2 .. n)) = Cardinality(Opened(p, 3 .. n + 1))
  <2>1. PICK I, J : I = 2 .. n /\ J = 3 .. n + 1
    OBVIOUS
  <2>2. I \in SUBSET (1 .. Len(q)) /\ \A i \in I : i + 1 \in J
    BY <1>2, <2>1
  <2>3. \A j \in J : \E i \in I : j = i + 1
    <3>1. \A j \in J : j - 1 \in I /\ j = (j - 1) + 1
      BY <1>2, <2>1
    <3> QED BY <3>1
  <2>4. \A i \in I : q[i].cindex = p[i + 1].cindex /\ q[i].cmds = p[i + 1].cmds
    BY <1>3, <2>1
  <2>5. \A i \in I : i + 1 \in J
    BY <2>2
  <2>6. I \in SUBSET (1 .. Len(q))
    BY <2>2
  <2>7. p \in Seq(TaskSet)
    BY <1>3
  <2>8. Cardinality(Opened(q, I)) = Cardinality(Opened(p, J))
    BY <2>3, <2>4, <2>5, <2>6, <2>7, OpenedMoved, Zenon
  <2> QED BY <2>1, <2>8
<1>9. /\ Remaining(q) = Left(q[1]) + Cardinality(Opened(q, 2 .. n))
      /\ Remaining(p) = Left(q[1]) + Cardinality(Opened(p, 2 .. Len(p)))
  BY <1>2, <1>3, <1>4, RemainingSplit
<1>10. Cardinality(Opened(q, 2 .. n)) \in Nat
  <2>1. 2 .. n \in SUBSET (1 .. Len(q))
    BY <1>2
  <2>2. IsFiniteSet(Opened(q, 2 .. n))
    BY <2>1, OpenedFinite
  <2> QED BY <2>2, FS_CardinalityType
<1>11. Left(q[1]) \in Int /\ Left(task) \in Int
  BY LenProperties DEF Left, Within, TaskSet
<1>12. Remaining(p) = Left(q[1]) + (Left(task) + Cardinality(Opened(q, 2 .. n)))
  BY <1>5, <1>6, <1>7, <1>8, <1>9
<1> QED BY <1>0, <1>9, <1>10, <1>11, <1>12

-----------------------------------------------------------------------------
(* The count of commands, and no command skipped.                          *)

(* PVT_STATE at_cmds agrees with the list.                                 *)
Counted(s) == s.at_cmds = Remaining(s.queue) % UintValues

(* The head task has written every command it has passed.                  *)
Unskipped(s) ==
  s.queue # <<>> /\ ~Head(s.queue).at_once => 1 .. Head(s.queue).cindex \subseteq Head(s.queue).sent

(* A head task sent at once has had no result yet.  One that got a result  *)
(* it did not expect stays, and a second result would be counted again.    *)
Unresolved(s) == s.queue # <<>> /\ Head(s.queue).at_once => Head(s.queue).cindex = 0

Whole(s) == Counted(s) /\ Unskipped(s) /\ (~HeadSent(s) => Unresolved(s))

(* An operation that writes a line leaves a head without a result.         *)
KeepsWhole(s, t) ==
  /\ Whole(t)
  /\ Unresolved(s) => Unresolved(t)
  /\ t.tx = s.tx \/ Unresolved(t)

(* So do two in a row.                                                     *)
LEMMA KeepsWholeTwice ==
  ASSUME NEW s, NEW t, NEW u, KeepsWhole(s, t), KeepsWhole(t, u)
  PROVE  KeepsWhole(s, u)
BY Zenon DEF KeepsWhole

(* The head of a sound queue is within its commands.                       *)
LEMMA HeadWithin ==
  ASSUME NEW s, Sound(s), s.queue # <<>>
  PROVE  /\ s.queue \in Seq(TaskSet) /\ Head(s.queue) = s.queue[1] /\ Within(s.queue[1])
         /\ Remaining(s.queue) \in Int
<1>1. s.queue \in Seq(TaskSet)
  BY DEF Sound, QueueSet
<1>2. Head(s.queue) = s.queue[1]
  BY <1>1
<1>3. Within(Head(s.queue))
  BY HeadFacts DEF Within, InBounds
<1> QED BY <1>1, <1>2, <1>3, RemainingNat

(* A new task has all its commands to go.                                  *)
LEMMA NewTaskWithin ==
  ASSUME NEW kind \in KindSet, kind.cmds # <<>>
  PROVE  Within(NewTask(kind)) /\ Left(NewTask(kind)) = Len(kind.cmds) /\ Len(kind.cmds) \in Int
<1>1. NewTask(kind) \in TaskSet
  BY NewTaskWaits
<1>2. NewTask(kind).cindex = 0 /\ NewTask(kind).cmds = kind.cmds
  BY DEF NewTask
<1>3. Len(kind.cmds) \in Nat
  BY LenProperties DEF KindSet
<1> QED BY <1>1, <1>2, <1>3 DEF Within, Left

(* Adding a task counts its commands,                                      *)
LEMMA AddCounted ==
  ASSUME NEW s, Sound(s), Counted(s), NEW kind \in KindSet
  PROVE  Counted(at_queue_add(s, kind))
<1>1. CASE kind.cmds = <<>>
  BY <1>1 DEF at_queue_add
<1>2. CASE kind.cmds # <<>>
  <2>1. PICK new : new = NewTask(kind)
    OBVIOUS
  <2>2. Within(new) /\ Left(new) = Len(kind.cmds) /\ Len(kind.cmds) \in Int
    BY <1>2, <2>1, NewTaskWithin
  <2>3. s.queue \in Seq(TaskSet)
    BY DEF Sound, QueueSet
  <2>4. Remaining(s.queue) \in Int
    BY <2>3, RemainingNat
  <2>5. PICK next : next = IF kind.prio /\ s.queue # <<>> THEN InsertAfterHead(s.queue, new)
                           ELSE Append(s.queue, new)
    OBVIOUS
  <2>6. Remaining(next) = Remaining(s.queue) + Len(kind.cmds)
    <3>1. CASE kind.prio /\ s.queue # <<>>
      <4>1. Within(s.queue[1])
        BY <3>1, HeadWithin
      <4>2. Remaining(InsertAfterHead(s.queue, new)) = Remaining(s.queue) + Left(new)
        BY <2>2, <2>3, <3>1, <4>1, RemainingInsert
      <4> QED BY <2>2, <2>5, <3>1, <4>2
    <3>2. CASE ~(kind.prio /\ s.queue # <<>>)
      <4>1. Remaining(Append(s.queue, new)) = Remaining(s.queue) + Left(new)
        BY <2>2, <2>3, RemainingAppend
      <4> QED BY <2>2, <2>5, <3>2, <4>1
    <3> QED BY <3>1, <3>2
  <2>7. at_queue_add(s, kind) = [s EXCEPT !.queue = next, !.at_tasks = UintAdd(@, 1),
                                          !.at_cmds = UintAdd(@, Len(kind.cmds))]
    BY <1>2, <2>1, <2>5 DEF at_queue_add
  <2>8. /\ at_queue_add(s, kind).queue = next
        /\ at_queue_add(s, kind).at_cmds = UintAdd(s.at_cmds, Len(kind.cmds))
    BY <2>7 DEF Sound, QueueSet
  <2>9. UintAdd(s.at_cmds, Len(kind.cmds)) = (Remaining(s.queue) + Len(kind.cmds)) % UintValues
    BY <2>2, <2>4, CountUp DEF Counted
  <2> QED BY <2>6, <2>8, <2>9 DEF Counted
<1> QED BY <1>1, <1>2

(* A queue with the same head, counted anew.                               *)
LEMMA SameHeadWhole ==
  ASSUME NEW s, Whole(s), s.queue # <<>>,
         NEW t, t.tx = s.tx, t.queue # <<>>, Head(t.queue) = Head(s.queue), Counted(t)
  PROVE  KeepsWhole(s, t)
BY Zenon DEF KeepsWhole, Whole, Unskipped, Unresolved, HeadSent

(* A task that is added leaves the head as it is, or is the head.          *)
LEMMA AddWhole ==
  ASSUME NEW s, Sound(s), Whole(s), NEW kind \in KindSet, NEW t, t = at_queue_add(s, kind)
  PROVE  KeepsWhole(s, t)
<1>0. t.tx = s.tx
  BY AddKeepsHead, Zenon
<1>1. Counted(t)
  BY AddCounted DEF Whole
<1>2. CASE s.queue # <<>>
  <2>1. t.queue # <<>> /\ Head(t.queue) = Head(s.queue)
    BY <1>2, AddKeepsHead, Zenon
  <2> QED BY <1>0, <1>1, <1>2, <2>1, SameHeadWhole, Zenon
<1>3. CASE s.queue = <<>> /\ kind.cmds = <<>>
  BY <1>3 DEF at_queue_add, KeepsWhole
<1>4. CASE s.queue = <<>> /\ kind.cmds # <<>>
  <2>1. t.queue = Append(s.queue, NewTask(kind))
    BY <1>4 DEF at_queue_add, Sound, QueueSet
  <2>2. Append(s.queue, NewTask(kind)) = <<NewTask(kind)>>
    BY <1>4
  <2>3. Head(t.queue) = NewTask(kind)
    BY <2>1, <2>2
  <2>4. Head(t.queue).cindex = 0
    BY <2>3 DEF NewTask
  <2>5. 1 .. 0 = {}
    OBVIOUS
  <2>6. Unskipped(t) /\ Unresolved(t)
    BY <2>4, <2>5 DEF Unskipped, Unresolved
  <2> QED BY <1>0, <1>1, <2>6 DEF Whole, KeepsWhole
<1> QED BY <1>2, <1>3, <1>4

(* Replacing the head by a task with the same commands.                    *)
LEMMA ReplacedHead ==
  ASSUME NEW s, Sound(s), s.queue # <<>>, NEW task, Within(task), task.cmds = Head(s.queue).cmds,
         NEW queue, queue = [s.queue EXCEPT ![1] = task]
  PROVE  /\ queue # <<>> /\ Head(queue) = task
         /\ Remaining(queue) = Remaining(s.queue) - (task.cindex - Head(s.queue).cindex)
<1>1. /\ s.queue \in Seq(TaskSet) /\ Head(s.queue) = s.queue[1] /\ Within(s.queue[1])
      /\ Remaining(s.queue) \in Int
  BY HeadWithin
<1>2. queue # <<>> /\ Head(queue) = task
  BY <1>1, EmptySeq, ExceptSeq DEF Within
<1>3. PICK a \in Int, b \in Int, n \in Int :
        a = task.cindex /\ b = s.queue[1].cindex /\ n = Len(task.cmds)
  BY <1>1, LenProperties DEF Within, TaskSet
<1>4. Left(task) = n - a /\ Left(s.queue[1]) = n - b
  BY <1>1, <1>3 DEF Left
<1>5. Remaining([s.queue EXCEPT ![1] = task]) = Remaining(s.queue) - Left(s.queue[1]) + Left(task)
  BY <1>1, RemainingHead
<1>6. Remaining(queue) = Remaining(s.queue) - (n - b) + (n - a)
  BY <1>4, <1>5
<1>7. Remaining(queue) = Remaining(s.queue) - (a - b)
  BY <1>1, <1>6
<1> QED BY <1>1, <1>2, <1>3, <1>7

(* Advancing the head counts the commands it passes.                       *)
LEMMA AdvanceCounted ==
  ASSUME NEW s, Sound(s), Counted(s), s.queue # <<>>, Unresolved(s), NEW n \in Nat,
         Head(s.queue).cindex + n <= Len(Head(s.queue).cmds), NEW t, t = Advance(s, n)
  PROVE  /\ Counted(t) /\ t.queue # <<>> /\ Within(Head(t.queue))
         /\ Head(t.queue).cindex = Head(s.queue).cindex + n
         /\ Head(t.queue).at_once = Head(s.queue).at_once
         /\ Head(t.queue).sent = Head(s.queue).sent
         /\ Head(t.queue).cmds = Head(s.queue).cmds
<1>1. PICK head : head = Head(s.queue)
  OBVIOUS
<1>2. head \in TaskSet /\ Remaining(s.queue) \in Int
  BY <1>1, HeadWithin DEF Within
<1>3. PICK c \in Nat : c = head.cindex
  BY <1>2 DEF TaskSet
<1>4. (IF head.at_once THEN n ELSE head.cindex + n) = c + n
  <2>1. head.at_once => c = 0
    BY <1>1, <1>3, Zenon DEF Unresolved
  <2> QED BY <1>3, <2>1
<1>5. PICK task : task = [head EXCEPT !.cindex = c + n]
  OBVIOUS
<1>6. /\ task \in TaskSet /\ task.cmds = head.cmds /\ task.sent = head.sent
      /\ task.at_once = head.at_once /\ task.cindex = c + n
  BY <1>2, <1>3, <1>5 DEF TaskSet
<1>7. Within(task)
  BY <1>1, <1>3, <1>6 DEF Within
<1>8. PICK queue : queue = [s.queue EXCEPT ![1] = task]
  OBVIOUS
<1>9. /\ queue # <<>> /\ Head(queue) = task
      /\ Remaining(queue) = Remaining(s.queue) - (task.cindex - head.cindex)
  <2>1. task.cmds = Head(s.queue).cmds
    BY <1>1, <1>6
  <2>2. /\ queue # <<>> /\ Head(queue) = task
        /\ Remaining(queue) = Remaining(s.queue) - (task.cindex - Head(s.queue).cindex)
    BY <1>7, <1>8, <2>1, ReplacedHead, Zenon
  <2> QED BY <1>1, <2>2
<1>10. Remaining(queue) = Remaining(s.queue) - n
  BY <1>2, <1>3, <1>6, <1>9
<1>11. t.queue = queue /\ t.at_cmds = UintSub(s.at_cmds, n)
  <2>1. [head EXCEPT !.cindex = IF head.at_once THEN n ELSE @ + n] = task
    BY <1>2, <1>4, <1>5 DEF TaskSet
  <2>2. PICK next : next = WithHead(s, task)
    OBVIOUS
  <2>3. next = [s EXCEPT !.queue = queue]
    BY <1>8, <2>2 DEF WithHead
  <2>4. t = [next EXCEPT !.at_cmds = UintSub(@, n)]
    BY <1>1, <2>1, <2>2 DEF Advance
  <2> QED BY <2>3, <2>4 DEF Sound, QueueSet
<1>12. UintSub(s.at_cmds, n) = (Remaining(s.queue) - n) % UintValues
  BY <1>2, CountDown DEF Counted
<1>13. Counted(t)
  BY <1>10, <1>11, <1>12 DEF Counted
<1> QED BY <1>1, <1>3, <1>6, <1>7, <1>9, <1>11, <1>13

(* Removing the head discounts what it has left; its successor is new.     *)
LEMMA RemoveCounted ==
  ASSUME NEW s, TailSound(s), Counted(s), s.queue # <<>>, Within(Head(s.queue)),
         NEW t, t = at_queue_remove(s)
  PROVE  Whole(t) /\ Unresolved(t)
<1>1. s.queue \in Seq(TaskSet) /\ Len(s.queue) \in Nat \ {0} /\ Head(s.queue) = s.queue[1]
  BY EmptySeq DEF TailSound, QueueSet
<1>2. PICK rest : rest = Tail(s.queue)
  OBVIOUS
<1>3. /\ rest \in Seq(TaskSet) /\ Len(rest) = Len(s.queue) - 1
      /\ \A i \in 1 .. Len(rest) : rest[i] = s.queue[i + 1]
  BY <1>1, <1>2, HeadTailProperties
<1>4. PICK n \in Int : n = Len(Head(s.queue).cmds) - Head(s.queue).cindex
  BY LenProperties DEF Within, TaskSet
<1>5. t.queue = rest /\ t.at_cmds = UintSub(s.at_cmds, n)
  BY <1>2, <1>4 DEF at_queue_remove, TailSound, QueueSet
<1>6. Remaining(s.queue) = n + Remaining(rest)
  BY <1>1, <1>2, <1>4, RemainingTail DEF Left
<1>7. Remaining(s.queue) \in Int /\ Remaining(rest) \in Int
  BY <1>1, <1>3, RemainingNat
<1>8. UintSub(s.at_cmds, n) = (Remaining(s.queue) - n) % UintValues
  BY <1>7, CountDown DEF Counted
<1>9. Remaining(s.queue) - n = Remaining(rest)
  BY <1>6, <1>7
<1>10. Counted(t)
  BY <1>5, <1>8, <1>9 DEF Counted
<1>11. rest # <<>> => Untouched(Head(rest))
  <2> SUFFICES ASSUME rest # <<>> PROVE Untouched(Head(rest))
    OBVIOUS
  <2>1. Len(rest) \in Nat \ {0} /\ Head(rest) = rest[1]
    BY <1>3, EmptySeq
  <2>2. Head(rest) = s.queue[2] /\ 2 \in 2 .. Len(s.queue)
    BY <1>1, <1>3, <2>1
  <2> QED BY <2>2 DEF TailSound, Waits
<1>12. 1 .. 0 = {}
  OBVIOUS
<1>13. Unskipped(t) /\ Unresolved(t)
  BY <1>5, <1>11, <1>12 DEF Unskipped, Unresolved, Untouched
<1> QED BY <1>10, <1>13 DEF Whole

(* A result that answers the head command: whatever it is, the command     *)
(* was written, is counted once, and no other is passed.                   *)
LEMMA RemoveCmdWhole ==
  ASSUME NEW s, Sound(s), Counted(s), Unskipped(s), HeadSent(s), Unresolved(s), NEW res,
         NEW t, t = at_queue_remove_cmd(s, res)
  PROVE  Whole(t)
<1>1. s.queue # <<>>
  BY DEF HeadSent
<1>2. PICK head : head = Head(s.queue)
  OBVIOUS
<1>3. /\ head \in TaskSet /\ InBounds(head) /\ Len(head.cmds) \in Nat \ {0} /\ head.cindex \in Nat
      /\ CurrentIndex(head) \in head.sent
  BY <1>1, <1>2, HeadFacts DEF TaskSet, HeadSent
<1>4. CASE head.at_once
  <2>1. PICK n \in Nat : n = Len(head.cmds) /\ head.cindex + n <= Len(head.cmds)
    BY <1>1, <1>2, <1>3, <1>4 DEF Unresolved
  <2>2. PICK next : next = Advance(s, n)
    OBVIOUS
  <2>3. TailSound(next)
    BY <1>1, <2>2, AdvanceSound
  <2>4. /\ Counted(next) /\ next.queue # <<>> /\ Within(Head(next.queue))
        /\ Head(next.queue).at_once = head.at_once /\ Head(next.queue).sent = head.sent
    BY <1>1, <1>2, <2>1, <2>2, AdvanceCounted
  <2>5. Whole(at_queue_remove(next))
    BY <2>3, <2>4, RemoveCounted
  <2>6. Whole(next)
    <3>1. HeadSent(next)
      BY <1>3, <1>4, <2>4 DEF HeadSent, CurrentIndex
    <3> QED BY <1>4, <2>4, <3>1 DEF Whole, Unskipped
  <2>7. t = at_queue_remove(next) \/ t = next
    BY <1>1, <1>2, <1>4, <2>1, <2>2 DEF at_queue_remove_cmd, RemoveCmdAtOnce
  <2> QED BY <2>5, <2>6, <2>7
<1>5. CASE ~head.at_once
  <2>1. head.cindex + 1 <= Len(head.cmds)
    BY <1>3, <1>5 DEF InBounds
  <2>2. PICK next : next = Advance(s, 1)
    OBVIOUS
  <2>3. TailSound(next)
    BY <1>1, <2>2, AdvanceSound
  <2>4. /\ Counted(next) /\ next.queue # <<>> /\ Within(Head(next.queue))
        /\ Head(next.queue).cindex = head.cindex + 1
        /\ Head(next.queue).at_once = head.at_once /\ Head(next.queue).sent = head.sent
    BY <1>1, <1>2, <2>1, <2>2, AdvanceCounted
  <2>5. Whole(at_queue_remove(next))
    BY <2>3, <2>4, RemoveCounted
  <2>6. Whole(next)
    <3>1. 1 .. head.cindex \subseteq head.sent /\ head.cindex + 1 \in head.sent
      BY <1>1, <1>2, <1>3, <1>5 DEF Unskipped, CurrentIndex
    <3>2. 1 .. head.cindex + 1 \subseteq head.sent
      BY <1>3, <3>1
    <3> QED BY <1>5, <2>4, <3>2 DEF Whole, Unskipped, Unresolved
  <2>7. t = at_queue_remove(next) \/ t = next
    BY <1>1, <1>2, <1>5, <2>2 DEF at_queue_remove_cmd, RemoveCmdInOrder
  <2> QED BY <2>5, <2>6, <2>7
<1> QED BY <1>4, <1>5

(* Running the queue marks the head command as written.                    *)
LEMMA RunWhole ==
  ASSUME NEW s, Sound(s), Whole(s), NEW t, t = at_queue_run(s, TRUE)
  PROVE  KeepsWhole(s, t)
<1>1. CASE ~RunWrites(s)
  BY <1>1 DEF at_queue_run, KeepsWhole
<1>2. CASE RunWrites(s)
  <2>1. s.queue # <<>> /\ ~HeadSent(s) /\ Unresolved(s)
    BY <1>2, RunsWhenUnsent DEF Whole
  <2>2. PICK head : head = Head(s.queue)
    OBVIOUS
  <2>3. /\ head \in TaskSet /\ InBounds(head) /\ head.cindex \in Nat
        /\ DOMAIN head.cmds = 1 .. Len(head.cmds) /\ Len(head.cmds) \in Nat \ {0}
    BY <2>1, <2>2, HeadFacts, LenProperties DEF TaskSet
  <2>4. PICK done \in SUBSET Nat :
          done = IF head.at_once THEN DOMAIN head.cmds ELSE head.sent \cup {head.cindex + 1}
    <3>1. PICK done : done = IF head.at_once THEN DOMAIN head.cmds ELSE head.sent \cup {head.cindex + 1}
      OBVIOUS
    <3>2. done \in SUBSET Nat
      BY <2>3, <3>1 DEF TaskSet
    <3> QED BY <3>1, <3>2
  <2>5. PICK task : task = [head EXCEPT !.sent = done]
    OBVIOUS
  <2>6. /\ task \in TaskSet /\ task.cmds = head.cmds /\ task.sent = done
        /\ task.at_once = head.at_once /\ task.cindex = head.cindex
    BY <2>3, <2>4, <2>5 DEF TaskSet
  <2>7. Within(task)
    BY <2>3, <2>6 DEF Within, InBounds
  <2>8. PICK queue : queue = [s.queue EXCEPT ![1] = task]
    OBVIOUS
  <2>9. queue # <<>> /\ Head(queue) = task /\ Remaining(queue) = Remaining(s.queue)
    <3>1. task.cmds = Head(s.queue).cmds
      BY <2>2, <2>6
    <3>2. /\ queue # <<>> /\ Head(queue) = task
          /\ Remaining(queue) = Remaining(s.queue) - (task.cindex - Head(s.queue).cindex)
      BY <2>1, <2>7, <2>8, <3>1, ReplacedHead, Zenon
    <3>3. Remaining(s.queue) \in Int /\ task.cindex - Head(s.queue).cindex = 0
      BY <2>1, <2>2, <2>3, <2>6, HeadWithin
    <3> QED BY <3>2, <3>3
  <2>10. t.queue = queue /\ t.at_cmds = s.at_cmds
    <3>1. PICK next : next = WithHead(s, task)
      OBVIOUS
    <3>2. next = [s EXCEPT !.queue = queue]
      BY <2>8, <3>1 DEF WithHead
    <3>3. t = [next EXCEPT !.tx = Append(@, Line(head))]
      BY <1>2, <2>2, <2>4, <2>5, <3>1 DEF at_queue_run
    <3> QED BY <3>2, <3>3 DEF Sound, QueueSet
  <2>11. Counted(t)
    BY <2>9, <2>10 DEF Whole, Counted
  <2>12. Unresolved(t)
    BY <2>1, <2>2, <2>6, <2>9, <2>10 DEF Unresolved
  <2>13. Unskipped(t)
    BY <2>1, <2>2, <2>4, <2>6, <2>9, <2>10 DEF Whole, Unskipped
  <2> QED BY <2>11, <2>12, <2>13 DEF Whole, KeepsWhole
<1> QED BY <1>1, <1>2

(* Enqueueing a task, with or without running the queue.                   *)
LEMMA InsertWhole ==
  ASSUME NEW s, Sound(s), Whole(s), NEW kind \in KindSet, NEW t, t = at_queue_insert(s, kind, TRUE)
  PROVE  KeepsWhole(s, t)
<1>1. PICK u : u = at_queue_add(s, kind)
  OBVIOUS
<1>2. Sound(u)
  BY <1>1, AddSound
<1>3. KeepsWhole(s, u) /\ Whole(u)
  BY <1>1, AddWhole DEF KeepsWhole
<1>4. PICK v : v = at_queue_run(u, TRUE)
  OBVIOUS
<1>5. KeepsWhole(s, v)
  BY <1>2, <1>3, <1>4, RunWhole, KeepsWholeTwice
<1>6. t = u \/ t = v
  BY <1>1, <1>4 DEF at_queue_insert
<1> QED BY <1>3, <1>5, <1>6

(* The end of a session: what is dropped is discounted.                    *)
LEMMA FlushCounted ==
  ASSUME NEW s, Sound(s), Counted(s)
  PROVE  Counted(at_queue_flush(s))
<1>1. PICK n \in Int : n = Remaining(s.queue)
  BY RemainingNat DEF Sound, QueueSet
<1>2. at_queue_flush(s).queue = <<>> /\ at_queue_flush(s).at_cmds = UintSub(s.at_cmds, n)
  BY <1>1 DEF at_queue_flush, Sound, QueueSet
<1>3. UintSub(s.at_cmds, n) = (n - n) % UintValues
  BY <1>1, CountDown DEF Counted
<1>4. n - n = Remaining(<<>>)
  BY <1>1, RemainingNone
<1> QED BY <1>2, <1>3, <1>4 DEF Counted

(* Its last words are not counted at all.                                  *)
LEMMA RunImmediatelyCounted ==
  ASSUME NEW s, Sound(s), Counted(s), NEW ok
  PROVE  Counted(at_queue_run_immediately(s, ok))
<1>1. PICK line : \/ at_queue_run_immediately(s, ok) = s
                  \/ at_queue_run_immediately(s, ok) = [s EXCEPT !.tx = Append(@, line)]
  BY DEF at_queue_run_immediately
<1>2. at_queue_run_immediately(s, ok).queue = s.queue
      /\ at_queue_run_immediately(s, ok).at_cmds = s.at_cmds
  BY <1>1 DEF Sound, QueueSet
<1> QED BY <1>2 DEF Counted

-----------------------------------------------------------------------------
(* A command built from a code is a command.                               *)
LEMMA CommandTypes ==
  ASSUME NEW cmd \in at_cmd_t
  PROVE  Cmd(cmd) \in CommandSet /\ CmdI(cmd) \in CommandSet
BY DEF Cmd, CmdI, Command, CommandSet, Expected

(* A list of commands can be enqueued in each of the four ways.            *)
LEMMA KindTypes ==
  ASSUME NEW cmds \in Seq(CommandSet)
  PROVE  /\ AtTail(cmds) \in KindSet
         /\ AfterHead(cmds) \in KindSet
         /\ AtOnce(cmds) \in KindSet
         /\ AddOnly(cmds) \in KindSet
BY DEF AtTail, AfterHead, AtOnce, AddOnly, Kind, KindSet

(* One command is a task at the tail or after the head.                    *)
LEMMA SingleKinds ==
  ASSUME NEW cmd \in at_cmd_t
  PROVE  /\ AtTail(<<Cmd(cmd)>>) \in KindSet
         /\ AtTail(<<CmdI(cmd)>>) \in KindSet
         /\ AfterHead(<<Cmd(cmd)>>) \in KindSet
         /\ AfterHead(<<CmdI(cmd)>>) \in KindSet
<1>1. <<Cmd(cmd)>> \in Seq(CommandSet) /\ <<CmdI(cmd)>> \in Seq(CommandSet)
  BY CommandTypes
<1> QED BY <1>1, KindTypes

(* Two commands are a task that is sent at once.                           *)
LEMMA PairKinds ==
  ASSUME NEW c \in at_cmd_t, NEW d \in at_cmd_t
  PROVE  AtOnce(<<Cmd(c), Cmd(d)>>) \in KindSet
<1>1. Cmd(c) \in CommandSet /\ Cmd(d) \in CommandSet
  BY CommandTypes
<1>2. <<Cmd(c), Cmd(d)>> \in Seq(CommandSet)
  BY <1>1
<1> QED BY <1>2, KindTypes

(* Every task the handlers enqueue is a task.                              *)
LEMMA HandlerKinds ==
  /\ NoTask \in KindSet
  /\ at_enqueue_list_messages \in KindSet
  /\ at_enqueue_csq \in KindSet
  /\ at_enqueue_enable_uac \in KindSet
  /\ at_enqueue_enable_tty \in KindSet
  /\ at_enqueue_cpcmfrm(FALSE) \in KindSet
  /\ \A on \in BOOLEAN : at_enqueue_cpcmreg(on) \in KindSet
  /\ at_enqueue_query_cgains \in KindSet
  /\ at_enqueue_query_qgains \in KindSet
  /\ at_enqueue_delete_sms(FALSE) \in KindSet
  /\ at_enqueue_hangup(FALSE, TRUE) \in KindSet
  /\ at_enqueue_escape \in KindSet
<1>1. NoTask \in KindSet
  <2>1. <<>> \in Seq(CommandSet)
    OBVIOUS
  <2> QED BY <2>1, KindTypes DEF NoTask
<1>2. at_enqueue_list_messages \in KindSet /\ at_enqueue_csq \in KindSet
  BY SingleKinds DEF at_cmd_t, at_enqueue_list_messages, at_enqueue_csq
<1>3. at_enqueue_enable_uac \in KindSet /\ at_enqueue_enable_tty \in KindSet
  BY SingleKinds DEF at_cmd_t, at_enqueue_enable_uac, at_enqueue_enable_tty
<1>4. at_enqueue_cpcmfrm(FALSE) \in KindSet
  <2>1. AtTail(<<Cmd("CPCMFRM_8K")>>) \in KindSet
    BY SingleKinds DEF at_cmd_t
  <2> QED BY <2>1 DEF at_enqueue_cpcmfrm
<1>5. \A on \in BOOLEAN : at_enqueue_cpcmreg(on) \in KindSet
  <2>1. AfterHead(<<Cmd("CPCMREG1")>>) \in KindSet /\ AfterHead(<<Cmd("CPCMREG0")>>) \in KindSet
    BY SingleKinds DEF at_cmd_t
  <2> QED BY <2>1 DEF at_enqueue_cpcmreg
<1>6. at_enqueue_query_cgains \in KindSet /\ at_enqueue_query_qgains \in KindSet
  <2>1. "QMIC" \in at_cmd_t /\ "QRXGAIN" \in at_cmd_t /\ "COUTGAIN" \in at_cmd_t /\ "CMICGAIN" \in at_cmd_t
    BY DEF at_cmd_t
  <2> QED BY <2>1, PairKinds DEF at_enqueue_query_cgains, at_enqueue_query_qgains
<1>7. at_enqueue_delete_sms(FALSE) \in KindSet
  <2>1. <<CmdI("CMGD")>> \in Seq(CommandSet)
    BY CommandTypes DEF at_cmd_t
  <2>2. <<>> \o <<CmdI("CMGD")>> = <<CmdI("CMGD")>>
    BY <2>1, ConcatEmptySeq
  <2> QED BY <2>2, SingleKinds DEF at_cmd_t, at_enqueue_delete_sms, If
<1>8. at_enqueue_hangup(FALSE, TRUE) \in KindSet
  BY SingleKinds DEF at_cmd_t, at_enqueue_hangup, at_enqueue_qhup
<1>9. at_enqueue_escape \in KindSet
  BY SingleKinds DEF at_cmd_t, at_enqueue_escape
<1> QED BY <1>1, <1>2, <1>3, <1>4, <1>5, <1>6, <1>7, <1>8, <1>9

(* The gains to set are a task, of no commands when none is configured.    *)
LEMMA GainKinds ==
  ASSUME NEW gains \in BOOLEAN
  PROVE  at_enqueue_cgains(gains, gains) \in KindSet /\ at_enqueue_qgains(gains, gains) \in KindSet
<1>1. ASSUME NEW c \in at_cmd_t, NEW d \in at_cmd_t
      PROVE  AddOnly(If(gains, <<Cmd(c)>>) \o If(gains, <<Cmd(d)>>)) \in KindSet
  <2>1. <<Cmd(c)>> \in Seq(CommandSet) /\ <<Cmd(d)>> \in Seq(CommandSet)
        /\ <<>> \in Seq(CommandSet)
    BY CommandTypes
  <2>2. If(gains, <<Cmd(c)>>) \in Seq(CommandSet) /\ If(gains, <<Cmd(d)>>) \in Seq(CommandSet)
    BY <2>1 DEF If
  <2>3. If(gains, <<Cmd(c)>>) \o If(gains, <<Cmd(d)>>) \in Seq(CommandSet)
    BY <2>2, ConcatProperties
  <2> QED BY <2>3, KindTypes
<1>2. "QMIC" \in at_cmd_t /\ "QRXGAIN" \in at_cmd_t /\ "COUTGAIN" \in at_cmd_t /\ "CMICGAIN" \in at_cmd_t
  BY DEF at_cmd_t
<1>3. at_enqueue_cgains(gains, gains) \in KindSet
  BY <1>1, <1>2 DEF at_enqueue_cgains
<1>4. at_enqueue_qgains(gains, gains) \in KindSet
  BY <1>1, <1>2 DEF at_enqueue_qgains
<1> QED BY <1>3, <1>4

(* Four tasks are what a handler enqueues.                                 *)
LEMMA Tasks4Type ==
  ASSUME NEW a \in KindSet, NEW b \in KindSet, NEW c \in KindSet, NEW d \in KindSet
  PROVE  Tasks4(a, b, c, d) \in Tasks4Set
BY DEF Tasks4, Tasks4Set

(* ... and so are one and none.                                            *)
LEMMA Tasks1Type ==
  ASSUME NEW a \in KindSet
  PROVE  Tasks1(a) \in Tasks4Set /\ Tasks0 \in Tasks4Set
BY HandlerKinds, Tasks4Type DEF Tasks1, Tasks0

-----------------------------------------------------------------------------
(* What the handlers enqueue.                                              *)

(* ... for an OK                                                           *)
LEMMA OkTasksType ==
  ASSUME NEW cmd
  PROVE  OkTasks(cmd) \subseteq Tasks4Set
<1>1. /\ Tasks4(at_enqueue_list_messages, at_enqueue_csq, NoTask, NoTask) \in Tasks4Set
      /\ Tasks1(at_enqueue_csq) \in Tasks4Set
      /\ Tasks1(at_enqueue_enable_uac) \in Tasks4Set
      /\ Tasks1(at_enqueue_enable_tty) \in Tasks4Set
      /\ Tasks1(at_enqueue_delete_sms(FALSE)) \in Tasks4Set
      /\ Tasks1(at_enqueue_hangup(FALSE, TRUE)) \in Tasks4Set
      /\ Tasks0 \in Tasks4Set
  BY HandlerKinds, Tasks4Type, Tasks1Type
<1>2. ASSUME NEW gains \in BOOLEAN
      PROVE  /\ Tasks4(at_enqueue_cpcmfrm(FALSE), at_enqueue_cpcmreg(FALSE),
                       at_enqueue_cgains(gains, gains), at_enqueue_query_cgains) \in Tasks4Set
             /\ Tasks4(at_enqueue_qgains(gains, gains), at_enqueue_query_qgains, NoTask, NoTask)
                  \in Tasks4Set
  BY HandlerKinds, GainKinds, Tasks4Type
<1> QED BY <1>1, <1>2, Zenon DEF OkTasks

(* ... for an error                                                        *)
LEMMA ErrorTasksType ==
  ASSUME NEW cmd
  PROVE  ErrorTasks(cmd) \subseteq Tasks4Set
BY HandlerKinds, Tasks1Type, Zenon DEF ErrorTasks

(* ... for a line nobody recognises                                        *)
LEMMA UnknownTasksType == UnknownTasks \subseteq Tasks4Set
BY HandlerKinds, Tasks1Type, KindsAssumption, Zenon DEF UnknownTasks

(* ... and for whatever comes.                                             *)
LEMMA HandlerTasksType ==
  ASSUME NEW res
  PROVE  HandlerTasks(res) \subseteq Tasks4Set
<1>1. \A set \in SUBSET Tasks4Set : Capped(set) \subseteq Tasks4Set
  BY HandlerKinds, Tasks1Type DEF Capped, Bounded
<1>2. UrcTasks \subseteq Tasks4Set
  BY KindsAssumption
<1>3. Tasks0 \in Tasks4Set
  BY HandlerKinds, Tasks1Type
<1>4. Capped(UrcTasks) \subseteq Tasks4Set /\ Capped(UnknownTasks) \subseteq Tasks4Set
  BY <1>1, <1>2, UnknownTasksType
<1>5. OkTasks(HeadCmd) \subseteq Tasks4Set /\ ErrorTasks(HeadCmd) \subseteq Tasks4Set
  BY OkTasksType, ErrorTasksType
<1> QED BY <1>3, <1>4, <1>5, Zenon DEF HandlerTasks

-----------------------------------------------------------------------------
(* Handlers, callers and pvt_disconnect keep the queue sound.              *)

(* Enqueueing up to four tasks.                                            *)
LEMMA Insert4Sound ==
  ASSUME NEW s, Sound(s), NEW tasks \in Tasks4Set, NEW ok
  PROVE  Sound(Insert4(s, tasks, ok))
<1>1. tasks.t1 \in KindSet /\ tasks.t2 \in KindSet /\ tasks.t3 \in KindSet /\ tasks.t4 \in KindSet
  BY DEF Tasks4Set
<1> DEFINE s1 == at_queue_insert(s, tasks.t1, ok)
           s2 == at_queue_insert(s1, tasks.t2, ok)
           s3 == at_queue_insert(s2, tasks.t3, ok)
           s4 == at_queue_insert(s3, tasks.t4, ok)
<1>2. Sound(s1)
  BY <1>1, InsertSound
<1>3. Sound(s2)
  <2> HIDE DEF s1
  <2> QED BY <1>1, <1>2, InsertSound
<1>4. Sound(s3)
  <2> HIDE DEF s2
  <2> QED BY <1>1, <1>3, InsertSound
<1>5. Sound(s4)
  <2> HIDE DEF s3
  <2> QED BY <1>1, <1>4, InsertSound
<1> QED BY <1>5 DEF Insert4

(* Handling a line or a timeout, whatever it is and whatever the head is.  *)
LEMMA ResponseSound ==
  ASSUME Sound(atq), NEW res, NEW tasks \in Tasks4Set, NEW ok
  PROVE  Sound(at_response(res, tasks, ok))
<1>1. Sound(Insert4(atq, tasks, ok))
  BY Insert4Sound
<1>2. Sound(at_response_ok(tasks, ok))
  BY <1>1, RemoveCmdSound DEF at_response_ok
<1>3. Sound(at_response_error(res, tasks, ok))
  BY <1>1, RemoveCmdSound DEF at_response_error
<1>4. Sound(at_response_sms_prompt(ok))
  <2>1. Sound(at_queue_insert(atq, at_enqueue_escape, ok))
    BY InsertSound, HandlerKinds
  <2>2. Sound(at_queue_remove_cmd(at_queue_insert(atq, at_enqueue_escape, ok), "OK"))
    BY <2>1, RemoveCmdSound
  <2>3. Sound(at_queue_remove_cmd(atq, "PROMPT"))
    BY RemoveCmdSound
  <2> QED BY <2>2, <2>3, Zenon DEF at_response_sms_prompt
<1> QED BY <1>1, <1>2, <1>3, <1>4, Zenon DEF at_response

(* ... so every outcome of a handler is sound,                             *)
LEMMA HandledSound ==
  ASSUME Sound(atq), NEW res
  PROVE  \A s \in Handled(res) : Sound(s)
<1> SUFFICES ASSUME NEW tasks \in HandlerTasks(res), NEW ok \in WriteResults
             PROVE  Sound(at_response(res, tasks, ok))
  BY DEF Handled
<1>1. tasks \in Tasks4Set
  BY HandlerTasksType
<1> QED BY <1>1, ResponseSound

(* every outcome of an insertion,                                          *)
LEMMA InsertedSound ==
  ASSUME Sound(atq), NEW kind \in KindSet
  PROVE  \A s \in Inserted(kind) : Sound(s)
BY InsertSound, Zenon DEF Inserted

(* and every outcome of a disconnection.                                   *)
LEMMA DroppedSound ==
  ASSUME Sound(atq)
  PROVE  \A s \in Dropped : Sound(s)
<1> DEFINE Gone(tasks, ok) == at_queue_flush(LastWords(Insert4(atq, tasks, TRUE), ok))
<1>1. ASSUME NEW tasks \in Farewells, NEW ok \in WriteResults
      PROVE  Sound(Gone(tasks, ok))
  <2> DEFINE before == Insert4(atq, tasks, TRUE)
  <2>1. Sound(before)
    BY KindsAssumption, Insert4Sound
  <2> HIDE DEF before
  <2>2. Sound(at_queue_run_immediately(before, ok))
    BY <2>1, RunImmediatelySound
  <2>3. Sound(LastWords(before, ok))
    BY <2>1, <2>2, Zenon DEF LastWords
  <2>4. Sound(at_queue_flush(LastWords(before, ok)))
    BY <2>3, FlushSound
  <2> QED BY <2>4 DEF before
<1>2. Dropped = {Gone(tasks, ok) : tasks \in Farewells, ok \in WriteResults}
  BY DEF Dropped
<1> HIDE DEF Gone
<1> QED BY <1>1, <1>2

-----------------------------------------------------------------------------
(* The inductive invariant: the queue is sound and the rest is typed.      *)
Typed ==
  /\ rx \in Seq(LineSet)
  /\ prompt \in BOOLEAN
  /\ tps \in Seq(JobSet)
  /\ mon \in MonStates
  /\ initialized \in BOOLEAN
  /\ terminate \in BOOLEAN
  /\ expired \in BOOLEAN
  /\ watched \in BOOLEAN
  /\ critical \in BOOLEAN

IInv == Sound(atq) /\ Typed

(* It says no less than the three properties it is for.                    *)
LEMMA InvariantEnough == IInv <=> TypeOK /\ HeadOnlyStarted /\ TasksCounted
BY Zenon DEF IInv, Typed, Sound, TypeOK, HeadOnlyStarted, TasksCounted

(* It holds at first.                                                      *)
LEMMA InitSound == Init => IInv
<1> SUFFICES ASSUME Init PROVE IInv
  OBVIOUS
<1>1. EmptyQueue \in QueueSet
  BY UintAssumption DEF EmptyQueue, QueueSet
<1>2. WellFormed(EmptyQueue)
  BY DEF EmptyQueue, WellFormed
<1>3. TasksMatch(EmptyQueue)
  BY UintAssumption DEF EmptyQueue, TasksMatch
<1>4. rx \in Seq(LineSet) /\ tps \in Seq(JobSet)
  BY EmptySeq DEF Init
<1>5. mon \in MonStates
  BY DEF Init, MonStates
<1>6. Typed
  BY <1>4, <1>5, StartAssumption, Zenon DEF Init, Typed
<1> QED BY <1>1, <1>2, <1>3, <1>6 DEF Init, IInv, Sound

(* Committing a sound queue.                                               *)
LEMMA CommitSound ==
  ASSUME NEW s, Sound(s), SetQueue(s), expired \in BOOLEAN, watched \in BOOLEAN
  PROVE  Sound(atq)' /\ expired' \in BOOLEAN /\ watched' \in BOOLEAN
<1>1. atq' = s
  BY DEF SetQueue
<1>2. Sound(atq)'
  BY <1>1
<1>3. expired' \in BOOLEAN /\ watched' \in BOOLEAN
  BY Zenon DEF SetQueue
<1> QED BY <1>2, <1>3

(* Taking a job off the serializer and pushing jobs on it.                 *)
LEMMA JobTypes ==
  ASSUME tps \in Seq(JobSet)
  PROVE  /\ tps # <<>> => Tail(tps) \in Seq(JobSet) /\ Head(tps) \in JobSet
         /\ \A jobs \in Seq(JobSet) : tps \o jobs \in Seq(JobSet)
BY HeadTailProperties, ConcatProperties

(* Jobs that carry no line.                                                *)
LEMMA PlainJobs ==
  ASSUME NEW job \in {"timeout", "ping", "restart"}
  PROVE  Guarded(job) \in Seq(JobSet) /\ <<Job(job, NoLine)>> \in Seq(JobSet)
<1>1. NoLine \in LineSet
  BY DEF NoLine, Received, LineSet, Finals
<1>2. Job(job, NoLine) \in JobSet /\ Job("restart", NoLine) \in JobSet
  BY <1>1 DEF Job, JobSet
<1>3. /\ <<Job(job, NoLine)>> \in Seq(JobSet)
      /\ <<Job("restart", NoLine), Job(job, NoLine)>> \in Seq(JobSet)
  BY <1>2
<1> QED BY <1>3, Zenon DEF Guarded

(* Lines read are jobs pushed.                                             *)
LEMMA LinesAreJobs ==
  ASSUME NEW r \in Seq(LineSet), NEW n \in 1 .. Len(r), NEW q, q = ResponseJobs(SubSeq(r, 1, n))
  PROVE  q \in Seq(JobSet) /\ \A i \in DOMAIN q : q[i].job = "response"
<1>1. Len(r) \in Nat /\ n \in Nat
  BY LenProperties
<1>2. PICK lines : lines = SubSeq(r, 1, n)
  OBVIOUS
<1>3. lines \in Seq(LineSet)
  BY <1>1, <1>2, SubSeqProperties
<1>4. DOMAIN lines = 1 .. Len(lines) /\ Len(lines) \in Nat
  BY <1>3, LenProperties
<1>5. \A i \in 1 .. Len(lines) : lines[i] \in LineSet
  BY <1>3, ElementOfSeq
<1>6. \A i \in 1 .. Len(lines) : Job("response", lines[i]) \in JobSet
  BY <1>5 DEF Job, JobSet
<1>7. [i \in 1 .. Len(lines) |-> Job("response", lines[i])] \in [1 .. Len(lines) -> JobSet]
  BY <1>6
<1>8. \A k \in Nat : [1 .. k -> JobSet] \subseteq Seq(JobSet)
  OBVIOUS
<1>9. q = [i \in 1 .. Len(lines) |-> Job("response", lines[i])]
  BY <1>2, <1>4 DEF ResponseJobs
<1>10. \A i \in DOMAIN q : q[i] = Job("response", lines[i])
  BY <1>9
<1>11. \A x : Job("response", x).job = "response"
  BY DEF Job
<1>12. \A i \in DOMAIN q : q[i].job = "response"
  BY <1>10, <1>11, Zenon
<1> QED BY <1>4, <1>7, <1>8, <1>9, <1>12

(* pvt_disconnect, but for terminate_monitor.                              *)
LEMMA DisconnectTyped ==
  ASSUME IInv, pvt_disconnect, terminate' \in BOOLEAN
  PROVE  IInv'
<1>1. PICK s \in Dropped : SetQueue(s)
  BY DEF pvt_disconnect
<1>2. Sound(s)
  BY DroppedSound DEF IInv
<1>3. Sound(atq)' /\ expired' \in BOOLEAN /\ watched' \in BOOLEAN
  BY <1>1, <1>2, CommitSound DEF IInv, Typed
<1>4. rx' \in Seq(LineSet)
  BY EmptySeq DEF pvt_disconnect
<1>5. mon' \in MonStates
  BY DEF pvt_disconnect, MonStates
<1> QED BY <1>3, <1>4, <1>5, Zenon DEF IInv, Typed, pvt_disconnect

(* Every step keeps the invariant, whoever takes it.                       *)
LEMMA NextSound == IInv /\ [Next]_vars => IInv'
<1> SUFFICES ASSUME IInv, [Next]_vars PROVE IInv'
  OBVIOUS
<1>a. Sound(atq) /\ Typed
  BY DEF IInv
<1>b. rx \in Seq(LineSet) /\ tps \in Seq(JobSet) /\ mon \in MonStates
  BY <1>a DEF Typed
<1>c. expired \in BOOLEAN /\ watched \in BOOLEAN
  BY <1>a DEF Typed
<1>d. ASSUME tps # <<>>
      PROVE  Tail(tps) \in Seq(JobSet)
  BY <1>b, <1>d, JobTypes
<1>e. "loop" \in MonStates /\ "off" \in MonStates /\ "starting" \in MonStates
      /\ Waiting \subseteq MonStates
  BY DEF MonStates, Waiting
<1>1. ASSUME NEW kind \in CallerKinds \cup OfflineKinds, Enqueue(kind)
      PROVE  IInv'
  <2>1. kind \in KindSet
    BY KindsAssumption
  <2>2. PICK s \in Inserted(kind) : SetQueue(s)
    BY <1>1 DEF Enqueue
  <2>3. Sound(s)
    BY <1>a, <2>1, InsertedSound
  <2>4. Sound(atq)' /\ expired' \in BOOLEAN /\ watched' \in BOOLEAN
    BY <1>c, <2>2, <2>3, CommitSound
  <2> QED BY <1>a, <1>1, <2>4, Zenon DEF Enqueue, IInv, Typed
<1>2. CASE TaskSkipped
  <2>1. tps' \in Seq(JobSet)
    BY <1>2, <1>d DEF TaskSkipped
  <2>2. Sound(atq)'
    BY <1>a, <1>2 DEF TaskSkipped
  <2> QED BY <1>a, <1>2, <2>1, <2>2, Zenon DEF TaskSkipped, IInv, Typed
<1>3. CASE TaskResponse
  <2> DEFINE res == Head(tps).line.res
  <2>1. PICK handled \in Handled(res), ok \in WriteResults :
          SetQueue(at_queue_run(handled, ok)) /\ terminate' = (RunWrites(handled) /\ ~ok)
    BY <1>3 DEF TaskResponse
  <2>2. Sound(at_queue_run(handled, ok))
    BY <1>a, HandledSound, RunSound
  <2>3. Sound(atq)' /\ expired' \in BOOLEAN /\ watched' \in BOOLEAN
    BY <1>c, <2>1, <2>2, CommitSound
  <2>4. terminate' \in BOOLEAN
    BY <2>1, Zenon
  <2>5. initialized' \in BOOLEAN
    BY <1>a, <1>3, Zenon DEF TaskResponse, InitializedAfter, Typed
  <2>6. critical' \in BOOLEAN
    BY <1>3, Zenon DEF TaskResponse
  <2>7. tps' \in Seq(JobSet)
    BY <1>3, <1>d DEF TaskResponse, NextJob
  <2> QED BY <1>a, <1>3, <2>3, <2>4, <2>5, <2>6, <2>7, Zenon DEF TaskResponse, IInv, Typed
<1>4. CASE TaskTimeout
  <2>1. tps' \in Seq(JobSet)
    BY <1>4, <1>d DEF TaskTimeout, NextJob
  <2>2. CASE HeadSent(atq)
    <3>1. PICK s \in Handled("TIMEOUT") : SetQueue(s)
      BY <1>4, <2>2 DEF TaskTimeout
    <3>2. Sound(s)
      BY <1>a, HandledSound
    <3>3. Sound(atq)' /\ expired' \in BOOLEAN /\ watched' \in BOOLEAN
      BY <1>c, <3>1, <3>2, CommitSound
    <3>4. initialized' \in BOOLEAN
      BY <1>a, <1>4, <2>2, Zenon DEF TaskTimeout, InitializedAfter, Typed
    <3>5. terminate' \in BOOLEAN
      BY <1>4, <2>2, Zenon DEF TaskTimeout
    <3> QED BY <1>a, <1>4, <2>1, <3>3, <3>4, <3>5, Zenon DEF TaskTimeout, IInv, Typed
  <2>3. CASE ~HeadSent(atq)
    <3>1. UNCHANGED <<atq, initialized, terminate, expired, watched>>
      BY <1>4, <2>3 DEF TaskTimeout
    <3>2. Sound(atq)'
      BY <1>a, <3>1
    <3> QED BY <1>a, <1>4, <2>1, <3>1, <3>2, Zenon DEF TaskTimeout, IInv, Typed
  <2> QED BY <2>2, <2>3
<1>5. CASE TaskPing
  <2>1. PICK kind \in PingKinds : \E s \in Inserted(kind) : SetQueue(s)
    BY <1>5 DEF TaskPing
  <2>2. PICK s \in Inserted(kind) : SetQueue(s)
    BY <2>1
  <2>3. Sound(s)
    BY <1>a, KindsAssumption, InsertedSound
  <2>4. Sound(atq)' /\ expired' \in BOOLEAN /\ watched' \in BOOLEAN
    BY <1>c, <2>2, <2>3, CommitSound
  <2>5. tps' \in Seq(JobSet)
    BY <1>5, <1>d DEF TaskPing, NextJob
  <2> QED BY <1>a, <1>5, <2>4, <2>5, Zenon DEF TaskPing, IInv, Typed
<1>6. CASE TaskRestart
  <2>1. tps' \in Seq(JobSet)
    BY <1>6, <1>d DEF TaskRestart, NextJob
  <2>2. Sound(atq)'
    BY <1>a, <1>6 DEF TaskRestart
  <2> QED BY <1>a, <1>6, <2>1, <2>2, Zenon DEF TaskRestart, IInv, Typed
<1>7. CASE MonLoop
  <2>1. tps' \in Seq(JobSet)
    BY <1>b, <1>7, PlainJobs, JobTypes DEF MonLoop, PushAll
  <2>2. mon' \in MonStates /\ watched' \in BOOLEAN
    BY <1>7, <1>c, <1>e DEF MonLoop, Waiting
  <2>3. Sound(atq)'
    BY <1>a, <1>7 DEF MonLoop
  <2> QED BY <1>a, <1>7, <2>1, <2>2, <2>3, Zenon DEF MonLoop, IInv, Typed
<1>8. CASE MonBusy
  <2>1. Sound(atq)'
    BY <1>a, <1>8 DEF MonBusy
  <2>2. mon' \in MonStates
    BY <1>8, <1>e DEF MonBusy, Waiting
  <2> QED BY <1>a, <1>8, <2>1, <2>2, Zenon DEF MonBusy, IInv, Typed
<1>9. CASE MonTerminate
  <2>1. terminate' \in BOOLEAN
    BY <1>a, <1>9, Zenon DEF MonTerminate, Typed
  <2> QED BY <1>9, <2>1, DisconnectTyped DEF MonTerminate
<1>10. CASE MonLost
  <2>1. terminate' \in BOOLEAN
    BY <1>10, Zenon DEF MonLost
  <2> QED BY <1>10, <2>1, DisconnectTyped DEF MonLost
<1>11. CASE MonRead
  <2>1. PICK n \in 1 .. Len(rx) :
          /\ PushAll(ResponseJobs(SubSeq(rx, 1, n)))
          /\ rx' = SubSeq(rx, n + 1, Len(rx))
    BY <1>11 DEF MonRead
  <2>2. Len(rx) \in Nat /\ n \in Nat
    BY <1>b, LenProperties
  <2>3. SubSeq(rx, 1, n) \in Seq(LineSet) /\ rx' \in Seq(LineSet)
    BY <1>b, <2>1, <2>2, SubSeqProperties
  <2>5. tps' \in Seq(JobSet)
    BY <1>b, <2>1, LinesAreJobs, JobTypes DEF PushAll
  <2>6. Sound(atq)'
    BY <1>a, <1>11 DEF MonRead
  <2> QED BY <1>a, <1>e, <1>11, <2>3, <2>5, <2>6, Zenon DEF MonRead, IInv, Typed
<1>12. CASE MonTimeout
  <2>1. tps' \in Seq(JobSet)
    BY <1>b, <1>12, PlainJobs, JobTypes DEF MonTimeout, PushAll
  <2>2. Sound(atq)'
    BY <1>a, <1>12 DEF MonTimeout
  <2> QED BY <1>a, <1>e, <1>12, <2>1, <2>2, Zenon DEF MonTimeout, IInv, Typed
<1>13. CASE MonLate
  <2>1. Sound(atq)'
    BY <1>a, <1>13 DEF MonLate
  <2> QED BY <1>a, <1>e, <1>13, <2>1, Zenon DEF MonLate, IInv, Typed
<1>14. CASE MonIdle
  <2>1. tps' \in Seq(JobSet)
    BY <1>b, <1>14, PlainJobs, JobTypes DEF MonIdle, PushAll
  <2>2. Sound(atq)'
    BY <1>a, <1>14 DEF MonIdle
  <2> QED BY <1>a, <1>e, <1>14, <2>1, <2>2, Zenon DEF MonIdle, IInv, Typed
<1>15. CASE MonStart
  <2>1. CASE tps # <<>>
    <3>1. pvt_disconnect /\ terminate' = FALSE
      BY <1>15, <2>1 DEF MonStart
    <3>2. terminate' \in BOOLEAN
      BY <3>1, Zenon
    <3> QED BY <3>1, <3>2, DisconnectTyped
  <2>2. CASE tps = <<>>
    <3>1. PICK kind \in InitKinds, ok \in WriteResults :
            LET s == at_queue_add(atq, kind)
            IN  IF RunWrites(s) /\ ~ok
                THEN /\ SetQueue(at_queue_flush(at_queue_run(s, ok)))
                     /\ mon' = "off"
                     /\ terminate' = FALSE
                     /\ initialized' = FALSE
                ELSE /\ SetQueue(at_queue_run(s, ok))
                     /\ mon' = "loop"
                     /\ UNCHANGED <<terminate, initialized>>
      BY <1>15, <2>2 DEF MonStart
    <3> DEFINE s == at_queue_add(atq, kind)
    <3>2. Sound(s)
      BY <1>a, KindsAssumption, AddSound
    <3>3. Sound(at_queue_run(s, ok)) /\ Sound(at_queue_flush(at_queue_run(s, ok)))
      <4> HIDE DEF s
      <4> QED BY <3>2, RunSound, FlushSound
    <3>4. SetQueue(at_queue_flush(at_queue_run(s, ok))) \/ SetQueue(at_queue_run(s, ok))
      BY <3>1
    <3>5. Sound(atq)' /\ expired' \in BOOLEAN /\ watched' \in BOOLEAN
      <4> HIDE DEF s
      <4> QED BY <1>c, <3>3, <3>4, CommitSound
    <3>6. mon' \in MonStates /\ terminate' \in BOOLEAN /\ initialized' \in BOOLEAN
      BY <1>a, <1>e, <3>1, Zenon DEF Typed
    <3>7. rx' \in Seq(LineSet)
      BY <1>15, <2>2, EmptySeq DEF MonStart
    <3>8. critical' \in BOOLEAN /\ prompt' = prompt /\ tps' = tps
      BY <1>15, <2>2, Zenon DEF MonStart
    <3> QED BY <1>a, <3>5, <3>6, <3>7, <3>8, Zenon DEF IInv, Typed
  <2> QED BY <2>1, <2>2
<1>16. CASE DeviceManager
  <2>1. Sound(atq)'
    BY <1>a, <1>16 DEF DeviceManager, pvt_start, StopRequest, StopJoined
  <2> QED BY <1>a, <1>e, <1>16, <2>1, Zenon
          DEF DeviceManager, pvt_start, StopRequest, StopJoined, IInv, Typed
<1>17. ASSUME atq.tx # <<>>, atq' = [atq EXCEPT !.tx = Tail(@)]
       PROVE  Sound(atq)' /\ Head(atq.tx) \in at_cmd_t
  <2>1. atq.tx \in Seq(at_cmd_t) /\ atq \in QueueSet
    BY <1>a DEF Sound, QueueSet
  <2>2. Tail(atq.tx) \in Seq(at_cmd_t) /\ Head(atq.tx) \in at_cmd_t
    BY <1>17, <2>1, HeadTailProperties
  <2>3. atq' \in QueueSet /\ atq'.queue = atq.queue /\ atq'.at_tasks = atq.at_tasks
    BY <1>17, <2>1, <2>2 DEF QueueSet
  <2>4. WellFormed(atq') /\ TasksMatch(atq')
    BY <1>a, <2>3 DEF Sound, WellFormed, TasksMatch
  <2> QED BY <2>2, <2>3, <2>4 DEF Sound
<1>18. CASE ModemAnswer
  <2>1. Sound(atq)' /\ Head(atq.tx) \in at_cmd_t
    BY <1>17, <1>18 DEF ModemAnswer
  <2>2. PICK res \in Answers(Head(atq.tx)) \cap ModemResults :
          /\ rx' = IF mon = "off" THEN <<>>
                   ELSE Append(rx \o Preamble(Head(atq.tx), res), Received(res, Head(atq.tx)))
          /\ prompt' = (res = "PROMPT")
    BY <1>18 DEF ModemAnswer
  <2>3. Received(res, Head(atq.tx)) \in LineSet /\ Received("UNKNOWN", "none") \in LineSet
    BY <2>1, ModemAssumption DEF Received, LineSet
  <2>4. Preamble(Head(atq.tx), res) \in Seq(LineSet)
    <3>1. <<Received("UNKNOWN", "none")>> \in Seq(LineSet) /\ <<>> \in Seq(LineSet)
      BY <2>3
    <3> QED BY <3>1, Zenon DEF Preamble
  <2>5. rx' \in Seq(LineSet)
    BY <1>b, <2>2, <2>3, <2>4, ConcatProperties, AppendProperties, EmptySeq
  <2>6. prompt' \in BOOLEAN
    BY <2>2, Zenon
  <2> QED BY <1>a, <1>18, <2>1, <2>5, <2>6, Zenon DEF ModemAnswer, IInv, Typed
<1>19. CASE ModemIgnores
  <2>1. Sound(atq)'
    BY <1>17, <1>19 DEF ModemIgnores
  <2>2. prompt' \in BOOLEAN
    BY <1>a, <1>19, Zenon DEF ModemIgnores, Typed
  <2> QED BY <1>a, <1>19, <2>1, <2>2, Zenon DEF ModemIgnores, IInv, Typed
<1>20. CASE ModemTalks
  <2>1. PICK res \in Chatter : rx' = Append(rx, Received(res, "none"))
    BY <1>20 DEF ModemTalks
  <2>2. Received(res, "none") \in LineSet
    BY ModemAssumption DEF Received, LineSet
  <2>3. rx' \in Seq(LineSet)
    BY <1>b, <2>1, <2>2, AppendProperties
  <2>4. Sound(atq)'
    BY <1>a, <1>20 DEF ModemTalks
  <2> QED BY <1>a, <1>20, <2>3, <2>4, Zenon DEF ModemTalks, IInv, Typed
<1>21. CASE TimePasses
  <2>1. Sound(atq)'
    BY <1>a, <1>21 DEF TimePasses
  <2> QED BY <1>a, <1>21, <2>1, Zenon DEF TimePasses, IInv, Typed
<1>22. CASE UNCHANGED vars
  <2>1. Sound(atq)'
    BY <1>a, <1>22 DEF vars
  <2> QED BY <1>a, <1>22, <2>1, Zenon DEF vars, IInv, Typed
<1> QED
  BY <1>1, <1>2, <1>3, <1>4, <1>5, <1>6, <1>7, <1>8, <1>9, <1>10, <1>11, <1>12, <1>13, <1>14,
     <1>15, <1>16, <1>18, <1>19, <1>20, <1>21, <1>22, Zenon
  DEF Next, CallerOnline, CallerConnected, Serializer, Monitor, Environment

-----------------------------------------------------------------------------
(* The invariant holds in every reachable state.                           *)
THEOREM Inductive == Spec => []IInv
BY InitSound, NextSound, PTL DEF Spec

(* Every variable keeps its type; the unsigned counters stay in range.     *)
THEOREM TypeCorrect == Spec => []TypeOK
<1>1. IInv => TypeOK
  BY InvariantEnough
<1> QED BY <1>1, Inductive, PTL

(* The queue never indexes past a task's commands, and no task but the     *)
(* head is ever started.                                                   *)
THEOREM OnlyHeadStarts == Spec => []HeadOnlyStarted
<1>1. IInv => HeadOnlyStarted
  BY InvariantEnough
<1> QED BY <1>1, Inductive, PTL

(* PVT_STATE at_tasks counts the tasks of the list.                        *)
THEOREM TasksAreCounted == Spec => []TasksCounted
<1>1. IInv => TasksCounted
  BY InvariantEnough
<1> QED BY <1>1, Inductive, PTL

-----------------------------------------------------------------------------
(* The link is half duplex as long as no command outlives its timeout and  *)
(* no session follows another.                                             *)

(* A result on its way to the handlers.                                    *)
FinalJob(job) == job.job = "response" /\ job.line.res \in Finals

(* One thing at a time is on its way, and it belongs to the head command:  *)
(* a line the modem has not answered, a result the monitor has not read,   *)
(* or one the serializer has not handled.                                  *)
Lone(a, r, p) ==
  /\ a.tx # <<>> => HeadSent(a) /\ a.tx = <<HeadLine(a)>>
  /\ \A i \in DOMAIN r : r[i].res \in Finals =>
       /\ a.tx = <<>> /\ HeadSent(a) /\ r[i].cmd = HeadLine(a)
       /\ \A j \in DOMAIN r : r[j].res \in Finals => j = i
       /\ \A j \in DOMAIN p : ~FinalJob(p[j])
  /\ \A i \in DOMAIN p : FinalJob(p[i]) =>
       /\ a.tx = <<>> /\ HeadSent(a) /\ p[i].line.cmd = HeadLine(a)
       /\ \A j \in DOMAIN p : FinalJob(p[j]) => j = i

(* Something is on its way.                                                *)
OnWay(a, r, p) ==
  \/ a.tx # <<>>
  \/ \E i \in DOMAIN r : r[i].res \in Finals
  \/ \E i \in DOMAIN p : FinalJob(p[i])

NoTimeoutJobs(p) == \A i \in DOMAIN p : p[i].job # "timeout"

(* The inductive invariant of the link.                                    *)
LinkInv ==
  /\ IInv
  /\ ~expired
  /\ NoTimeoutJobs(tps)
  /\ mon # "off" => Lone(atq, rx, tps)

(* Nothing is on its way.                                                  *)
LEMMA LoneNone ==
  ASSUME NEW a, a.tx = <<>>, NEW r, \A i \in DOMAIN r : r[i].res \notin Finals,
         NEW p, \A i \in DOMAIN p : ~FinalJob(p[i])
  PROVE  Lone(a, r, p)
BY Zenon DEF Lone

(* The queue writes a line when nothing is on its way.                     *)
LEMMA LoneWrites ==
  ASSUME NEW a, NEW b, WritesOnce(a, b), NEW r, NEW p, Lone(a, r, p)
  PROVE  Lone(b, r, p)
<1>1. CASE b.tx = a.tx /\ (HeadSent(a) => HeadSent(b) /\ HeadLine(b) = HeadLine(a))
  BY <1>1, Zenon DEF Lone
<1>2. CASE ~HeadSent(a) /\ HeadSent(b) /\ b.tx = Append(a.tx, HeadLine(b))
  <2>1. /\ a.tx = <<>>
        /\ \A i \in DOMAIN r : r[i].res \notin Finals
        /\ \A i \in DOMAIN p : ~FinalJob(p[i])
    BY <1>2, Zenon DEF Lone
  <2>2. b.tx = <<HeadLine(b)>>
    BY <1>2, <2>1
  <2> QED BY <1>2, <2>1, <2>2, Zenon DEF Lone
<1> QED BY <1>1, <1>2 DEF WritesOnce

(* A job leaves the serializer.                                            *)
LEMMA LoneTakes ==
  ASSUME NEW a, NEW r, NEW p \in Seq(JobSet), p # <<>>, Lone(a, r, p)
  PROVE  /\ Lone(a, r, Tail(p))
         /\ FinalJob(Head(p)) =>
              /\ HeadSent(a) /\ a.tx = <<>>
              /\ \A i \in DOMAIN r : r[i].res \notin Finals
              /\ \A i \in DOMAIN Tail(p) : ~FinalJob(Tail(p)[i])
         /\ OnWay(a, r, Tail(p)) \/ FinalJob(Head(p)) => OnWay(a, r, p)
<1>1. /\ Len(p) \in Nat \ {0} /\ DOMAIN p = 1 .. Len(p) /\ Head(p) = p[1]
      /\ Tail(p) \in Seq(JobSet) /\ Len(Tail(p)) = Len(p) - 1
      /\ \A i \in 1 .. Len(Tail(p)) : Tail(p)[i] = p[i + 1]
  BY HeadTailProperties, LenProperties, EmptySeq
<1>2. PICK q : q = Tail(p)
  OBVIOUS
<1>3. DOMAIN q = 1 .. Len(p) - 1
  BY <1>1, <1>2, LenProperties
<1>4. \A i \in DOMAIN q : q[i] = p[i + 1] /\ i + 1 \in DOMAIN p /\ i + 1 # 1
  BY <1>1, <1>2, <1>3
<1>5. \A i, j \in DOMAIN q : i + 1 = j + 1 => i = j
  BY <1>1, <1>3
<1>6. 1 \in DOMAIN p
  BY <1>1
<1>7. Lone(a, r, q)
  BY <1>4, <1>5, Zenon DEF Lone
<1>8. ASSUME FinalJob(p[1])
      PROVE  /\ HeadSent(a) /\ a.tx = <<>>
             /\ \A i \in DOMAIN r : r[i].res \notin Finals
             /\ \A i \in DOMAIN q : ~FinalJob(q[i])
  BY <1>4, <1>6, <1>8, Zenon DEF Lone
<1>9. OnWay(a, r, q) \/ FinalJob(p[1]) => OnWay(a, r, p)
  BY <1>4, <1>6, Zenon DEF OnWay
<1> QED BY <1>1, <1>2, <1>7, <1>8, <1>9

(* A job that carries no result joins it.                                  *)
LEMMA LonePushes ==
  ASSUME NEW a, NEW r, NEW p \in Seq(JobSet), Lone(a, r, p),
         NEW q \in Seq(JobSet), \A i \in DOMAIN q : ~FinalJob(q[i])
  PROVE  Lone(a, r, p \o q) /\ (OnWay(a, r, p \o q) => OnWay(a, r, p))
<1>1. /\ Len(p) \in Nat /\ DOMAIN p = 1 .. Len(p) /\ Len(q) \in Nat /\ DOMAIN q = 1 .. Len(q)
      /\ p \o q \in Seq(JobSet) /\ Len(p \o q) = Len(p) + Len(q)
      /\ \A i \in 1 .. Len(p) + Len(q) :
           (p \o q)[i] = IF i <= Len(p) THEN p[i] ELSE q[i - Len(p)]
  BY ConcatProperties, LenProperties
<1>2. PICK s : s = p \o q
  OBVIOUS
<1>3. DOMAIN s = 1 .. Len(p) + Len(q)
  BY <1>1, <1>2, LenProperties
<1>4. \A i \in DOMAIN s : \/ i \in DOMAIN p /\ s[i] = p[i]
                          \/ i - Len(p) \in DOMAIN q /\ s[i] = q[i - Len(p)]
  BY <1>1, <1>2, <1>3
<1>5. \A i \in DOMAIN s : FinalJob(s[i]) => i \in DOMAIN p /\ s[i] = p[i]
  BY <1>4, Zenon
<1>6. Lone(a, r, s)
  BY <1>5, Zenon DEF Lone
<1>7. OnWay(a, r, s) => OnWay(a, r, p)
  BY <1>5, Zenon DEF OnWay
<1> QED BY <1>2, <1>6, <1>7

(* The monitor reads some lines: a result among them becomes a job.        *)
LEMMA LoneReads ==
  ASSUME NEW a, NEW r \in Seq(LineSet), NEW p \in Seq(JobSet), Lone(a, r, p),
         NEW n \in 1 .. Len(r), NEW q \in Seq(JobSet), q = ResponseJobs(SubSeq(r, 1, n)),
         NEW t, t = SubSeq(r, n + 1, Len(r))
  PROVE  Lone(a, t, p \o q) /\ (OnWay(a, t, p \o q) => OnWay(a, r, p))
<1>1. /\ Len(p) \in Nat /\ DOMAIN p = 1 .. Len(p) /\ Len(q) \in Nat /\ DOMAIN q = 1 .. Len(q)
      /\ p \o q \in Seq(JobSet) /\ Len(p \o q) = Len(p) + Len(q)
      /\ \A i \in 1 .. Len(p) + Len(q) :
           (p \o q)[i] = IF i <= Len(p) THEN p[i] ELSE q[i - Len(p)]
  BY ConcatProperties, LenProperties
<1>2. Len(r) \in Nat /\ DOMAIN r = 1 .. Len(r) /\ n \in Nat
  BY LenProperties
<1>3. PICK f : f = SubSeq(r, 1, n)
  OBVIOUS
<1>4. DOMAIN f = 1 .. n /\ \A i \in 1 .. n : f[i] = r[i]
  BY <1>2, <1>3
<1>5. DOMAIN t = 1 .. Len(r) - n /\ \A i \in 1 .. Len(r) - n : t[i] = r[n + i]
  BY <1>2
<1>6. DOMAIN q = 1 .. n /\ \A i \in 1 .. n : q[i] = Job("response", r[i])
  BY <1>3, <1>4 DEF ResponseJobs
<1>7. \A i \in 1 .. n : q[i].job = "response" /\ q[i].line = r[i]
  <2>1. \A x : Job("response", x).job = "response" /\ Job("response", x).line = x
    BY DEF Job
  <2> QED BY <1>6, <2>1, Zenon
<1>8. PICK s : s = p \o q
  OBVIOUS
<1>9. DOMAIN s = 1 .. Len(p) + Len(q)
  BY <1>1, <1>8, LenProperties
<1>10. \A i \in DOMAIN s : \/ i \in DOMAIN p /\ s[i] = p[i]
                           \/ i - Len(p) \in 1 .. n /\ s[i] = q[i - Len(p)]
  BY <1>1, <1>6, <1>8, <1>9
<1>11. \A i \in 1 .. n : FinalJob(q[i]) => i \in DOMAIN r /\ r[i].res \in Finals /\ q[i].line.cmd = r[i].cmd
  BY <1>2, <1>7 DEF FinalJob
<1>12. ASSUME NEW i \in DOMAIN s, FinalJob(s[i])
       PROVE  /\ a.tx = <<>> /\ HeadSent(a) /\ s[i].line.cmd = HeadLine(a)
              /\ \A j \in DOMAIN s : FinalJob(s[j]) => j = i
              /\ \A j \in DOMAIN t : t[j].res \notin Finals
  <2>1. CASE i \in DOMAIN p /\ s[i] = p[i]
    <3>1. /\ a.tx = <<>> /\ HeadSent(a) /\ p[i].line.cmd = HeadLine(a)
          /\ \A j \in DOMAIN p : FinalJob(p[j]) => j = i
          /\ \A j \in DOMAIN r : r[j].res \notin Finals
      BY <1>12, <2>1, Zenon DEF Lone
    <3>2. \A j \in DOMAIN t : n + j \in DOMAIN r
      BY <1>2, <1>5
    <3>3. \A j \in DOMAIN t : t[j].res \notin Finals
      BY <1>5, <3>1, <3>2
    <3>4. \A j \in DOMAIN s : FinalJob(s[j]) => j = i
      BY <1>10, <1>11, <3>1, Zenon
    <3> QED BY <2>1, <3>1, <3>3, <3>4
  <2>2. CASE i - Len(p) \in 1 .. n /\ s[i] = q[i - Len(p)]
    <3>1. PICK k \in 1 .. n : k = i - Len(p) /\ s[i] = q[k]
      BY <2>2
    <3>2. k \in DOMAIN r /\ r[k].res \in Finals /\ q[k].line.cmd = r[k].cmd
      BY <1>11, <1>12, <3>1
    <3>3. /\ a.tx = <<>> /\ HeadSent(a) /\ r[k].cmd = HeadLine(a)
          /\ \A j \in DOMAIN r : r[j].res \in Finals => j = k
          /\ \A j \in DOMAIN p : ~FinalJob(p[j])
      BY <3>2, Zenon DEF Lone
    <3>4. \A j \in DOMAIN t : n + j \in DOMAIN r /\ n + j # k
      BY <1>2, <1>5
    <3>5. \A j \in DOMAIN t : t[j].res \notin Finals
      BY <1>5, <3>3, <3>4
    <3>6. ASSUME NEW j \in DOMAIN s, FinalJob(s[j])
          PROVE  j = i
      <4>1. j - Len(p) \in 1 .. n /\ s[j] = q[j - Len(p)]
        BY <1>10, <3>3, <3>6
      <4>2. j - Len(p) = k
        BY <1>11, <3>3, <3>6, <4>1
      <4> QED BY <1>1, <1>9, <3>1, <4>2
    <3> QED BY <3>1, <3>2, <3>3, <3>5, <3>6
  <2> QED BY <1>10, <2>1, <2>2
<1>13. ASSUME NEW i \in DOMAIN t, t[i].res \in Finals
       PROVE  /\ a.tx = <<>> /\ HeadSent(a) /\ t[i].cmd = HeadLine(a)
              /\ \A j \in DOMAIN t : t[j].res \in Finals => j = i
  <2>1. n + i \in DOMAIN r /\ t[i] = r[n + i]
    BY <1>2, <1>5
  <2>2. /\ a.tx = <<>> /\ HeadSent(a) /\ r[n + i].cmd = HeadLine(a)
        /\ \A j \in DOMAIN r : r[j].res \in Finals => j = n + i
    BY <1>13, <2>1, Zenon DEF Lone
  <2>3. ASSUME NEW j \in DOMAIN t, t[j].res \in Finals
        PROVE  j = i
    <3>1. n + j \in DOMAIN r /\ t[j] = r[n + j]
      BY <1>2, <1>5
    <3>2. n + j = n + i
      BY <2>2, <2>3, <3>1
    <3> QED BY <1>2, <1>5, <3>2
  <2> QED BY <2>1, <2>2, <2>3
<1>14. a.tx # <<>> => HeadSent(a) /\ a.tx = <<HeadLine(a)>>
  BY DEF Lone
<1>15. Lone(a, t, s)
  BY <1>12, <1>13, <1>14, Zenon DEF Lone
<1>16. OnWay(a, t, s) => OnWay(a, r, p)
  <2>1. \A i \in DOMAIN t : n + i \in DOMAIN r /\ t[i] = r[n + i]
    BY <1>2, <1>5
  <2>2. \A i \in DOMAIN s : FinalJob(s[i]) =>
          \/ \E j \in DOMAIN p : FinalJob(p[j])
          \/ \E j \in DOMAIN r : r[j].res \in Finals
    BY <1>10, <1>11, Zenon
  <2> QED BY <2>1, <2>2, Zenon DEF OnWay
<1> QED BY <1>8, <1>15, <1>16

(* A line at the end of what the monitor has not read.                     *)
LEMMA LoneHears ==
  ASSUME NEW a, NEW r \in Seq(LineSet), NEW p, Lone(a, r, p),
         NEW line \in LineSet, line.res \notin Finals
  PROVE  Lone(a, Append(r, line), p) /\ (OnWay(a, Append(r, line), p) => OnWay(a, r, p))
<1>1. PICK t : t = Append(r, line)
  OBVIOUS
<1>2. /\ Len(r) \in Nat /\ DOMAIN r = 1 .. Len(r) /\ DOMAIN t = 1 .. Len(r) + 1
      /\ \A i \in 1 .. Len(r) : t[i] = r[i]
      /\ t[Len(r) + 1] = line
  BY <1>1, AppendProperties, LenProperties
<1>3. \A i \in DOMAIN t : t[i].res \in Finals => i \in DOMAIN r /\ t[i] = r[i]
  BY <1>2
<1>4. Lone(a, t, p)
  BY <1>3, Zenon DEF Lone
<1>5. OnWay(a, t, p) => OnWay(a, r, p)
  BY <1>3, Zenon DEF OnWay
<1> QED BY <1>1, <1>4, <1>5

(* The answer to the line on the wire: it is the result on its way now.    *)
LEMMA LoneAnswers ==
  ASSUME NEW a, NEW b, NEW r \in Seq(LineSet), NEW p, Lone(a, r, p), a.tx # <<>>,
         b.tx = Tail(a.tx), b.queue = a.queue,
         NEW line \in LineSet, line.cmd = Head(a.tx)
  PROVE  Lone(b, Append(r, line), p)
<1>1. PICK t : t = Append(r, line)
  OBVIOUS
<1>2. /\ Len(r) \in Nat /\ DOMAIN r = 1 .. Len(r) /\ DOMAIN t = 1 .. Len(r) + 1
      /\ \A i \in 1 .. Len(r) : t[i] = r[i]
      /\ t[Len(r) + 1] = line
  BY <1>1, AppendProperties, LenProperties
<1>3. HeadSent(a) /\ a.tx = <<HeadLine(a)>>
  BY DEF Lone
<1>4. HeadSent(b) /\ HeadLine(b) = HeadLine(a)
  BY <1>3 DEF HeadSent, HeadLine
<1>5. b.tx = <<>> /\ line.cmd = HeadLine(b)
  BY <1>3, <1>4
<1>6. /\ \A i \in DOMAIN r : r[i].res \notin Finals
      /\ \A i \in DOMAIN p : ~FinalJob(p[i])
  BY Zenon DEF Lone
<1>7. \A i \in DOMAIN t : t[i].res \in Finals => i = Len(r) + 1 /\ t[i] = line
  BY <1>2, <1>6
<1> QED BY <1>1, <1>4, <1>5, <1>6, <1>7, Zenon DEF Lone

-----------------------------------------------------------------------------
(* Handlers and the wire.                                                  *)

(* Four tasks are written one at most.                                     *)
LEMMA Insert4WritesOnce ==
  ASSUME NEW s, Sound(s), NEW tasks \in Tasks4Set, NEW ok
  PROVE  WritesOnce(s, Insert4(s, tasks, ok))
<1>1. tasks.t1 \in KindSet /\ tasks.t2 \in KindSet /\ tasks.t3 \in KindSet /\ tasks.t4 \in KindSet
  BY DEF Tasks4Set
<1>2. PICK s1 : s1 = at_queue_insert(s, tasks.t1, ok)
  OBVIOUS
<1>3. PICK s2 : s2 = at_queue_insert(s1, tasks.t2, ok)
  OBVIOUS
<1>4. PICK s3 : s3 = at_queue_insert(s2, tasks.t3, ok)
  OBVIOUS
<1>5. PICK s4 : s4 = at_queue_insert(s3, tasks.t4, ok)
  OBVIOUS
<1>6. Sound(s1) /\ WritesOnce(s, s1)
  BY <1>1, <1>2, InsertSound, InsertWritesOnce
<1>7. Sound(s2) /\ WritesOnce(s, s2)
  BY <1>1, <1>3, <1>6, InsertSound, InsertWritesOnce, WritesOnceTwice
<1>8. Sound(s3) /\ WritesOnce(s, s3)
  BY <1>1, <1>4, <1>7, InsertSound, InsertWritesOnce, WritesOnceTwice
<1>9. WritesOnce(s, s4)
  BY <1>1, <1>5, <1>8, InsertWritesOnce, WritesOnceTwice
<1> QED BY <1>2, <1>3, <1>4, <1>5, <1>9, Zenon DEF Insert4

(* The handler of a result finds its command on the wire, and writes       *)
(* nothing before that result is taken off the queue.                      *)
LEMMA ResultWritesNothing ==
  ASSUME Sound(atq), HeadSent(atq), NEW res \in Finals
  PROVE  \A s \in Handled(res) : s.tx = atq.tx
<1> SUFFICES ASSUME NEW tasks \in HandlerTasks(res), NEW ok \in WriteResults
             PROVE  at_response(res, tasks, ok).tx = atq.tx
  BY DEF Handled
<1>1. tasks \in Tasks4Set
  BY HandlerTasksType
<1>2. Sound(Insert4(atq, tasks, ok)) /\ Insert4(atq, tasks, ok).tx = atq.tx
  BY <1>1, Insert4Sound, Insert4WritesOnce DEF WritesOnce
<1>3. \A r : at_queue_remove_cmd(Insert4(atq, tasks, ok), r).tx = atq.tx
  BY <1>2, RemoveCmdKeepsTx
<1>4. at_response_ok(tasks, ok).tx = atq.tx
  BY <1>3, Zenon DEF at_response_ok
<1>5. at_response_error(res, tasks, ok).tx = atq.tx
  BY <1>3, Zenon DEF at_response_error
<1>6. at_response_sms_prompt(ok).tx = atq.tx
  <2>1. at_enqueue_escape \in KindSet
    BY HandlerKinds
  <2>2. /\ Sound(at_queue_insert(atq, at_enqueue_escape, ok))
        /\ at_queue_insert(atq, at_enqueue_escape, ok).tx = atq.tx
    BY <2>1, InsertSound, InsertWritesOnce DEF WritesOnce
  <2>3. at_queue_remove_cmd(at_queue_insert(atq, at_enqueue_escape, ok), "OK").tx = atq.tx
    BY <2>2, RemoveCmdKeepsTx
  <2>4. at_queue_remove_cmd(atq, "PROMPT").tx = atq.tx
    BY RemoveCmdKeepsTx
  <2> QED BY <2>3, <2>4, Zenon DEF at_response_sms_prompt
<1> QED BY <1>2, <1>4, <1>5, <1>6, Zenon DEF at_response

(* The handler of any other line may write one.                            *)
LEMMA LineWritesOnce ==
  ASSUME Sound(atq), NEW res \in {"URC", "UNKNOWN"}
  PROVE  \A s \in Handled(res) : WritesOnce(atq, s)
<1> SUFFICES ASSUME NEW tasks \in HandlerTasks(res), NEW ok \in WriteResults
             PROVE  WritesOnce(atq, at_response(res, tasks, ok))
  BY DEF Handled
<1>1. tasks \in Tasks4Set
  BY HandlerTasksType
<1>2. at_response(res, tasks, ok) = Insert4(atq, tasks, ok)
  BY DEF at_response
<1> QED BY <1>1, <1>2, Insert4WritesOnce

(* What handling a line and running the queue leave on its way.            *)
LEMMA ResponseLone ==
  ASSUME IInv, Lone(atq, rx, tps), tps # <<>>, Head(tps).job = "response",
         NEW handled \in Handled(Head(tps).line.res), NEW ok
  PROVE  Lone(at_queue_run(handled, ok), rx, Tail(tps))
<1>1. Sound(atq) /\ tps \in Seq(JobSet)
  BY DEF IInv, Typed
<1>2. Head(tps) \in JobSet
  BY <1>1, JobTypes
<1>3. Sound(handled) /\ WritesOnce(handled, at_queue_run(handled, ok))
  BY <1>1, HandledSound, RunWritesOnce
<1>4. Lone(atq, rx, Tail(tps))
  BY <1>1, LoneTakes
<1>5. CASE Head(tps).line.res \in Finals
  <2>1. FinalJob(Head(tps))
    BY <1>5 DEF FinalJob
  <2>2. /\ HeadSent(atq) /\ atq.tx = <<>>
        /\ \A i \in DOMAIN rx : rx[i].res \notin Finals
        /\ \A i \in DOMAIN Tail(tps) : ~FinalJob(Tail(tps)[i])
    BY <1>1, <2>1, LoneTakes
  <2>3. handled.tx = <<>>
    BY <1>1, <1>5, <2>2, ResultWritesNothing
  <2>4. Lone(handled, rx, Tail(tps))
    BY <2>2, <2>3, LoneNone
  <2> QED BY <1>3, <2>4, LoneWrites
<1>6. CASE Head(tps).line.res \notin Finals
  <2>1. Head(tps).line.res \in {"URC", "UNKNOWN"}
    BY <1>2, <1>6 DEF JobSet, LineSet
  <2>2. WritesOnce(atq, handled)
    BY <1>1, <2>1, LineWritesOnce
  <2> QED BY <1>3, <1>4, <2>2, LoneWrites
<1> QED BY <1>5, <1>6

-----------------------------------------------------------------------------
(* The steps of a session and the link.                                    *)

(* No job of a timeout comes from taking one off or from other jobs.       *)
LEMMA TimeoutJobs ==
  ASSUME NEW p \in Seq(JobSet), NoTimeoutJobs(p)
  PROVE  /\ p # <<>> => NoTimeoutJobs(Tail(p)) /\ Head(p).job # "timeout"
         /\ \A q \in Seq(JobSet) : NoTimeoutJobs(q) => NoTimeoutJobs(p \o q)
<1>1. ASSUME p # <<>>
      PROVE  NoTimeoutJobs(Tail(p)) /\ Head(p).job # "timeout"
  <2>1. /\ Len(p) \in Nat \ {0} /\ DOMAIN p = 1 .. Len(p) /\ Head(p) = p[1]
        /\ Tail(p) \in Seq(JobSet) /\ Len(Tail(p)) = Len(p) - 1
        /\ \A i \in 1 .. Len(Tail(p)) : Tail(p)[i] = p[i + 1]
    BY <1>1, HeadTailProperties, LenProperties, EmptySeq
  <2>2. PICK q : q = Tail(p) /\ DOMAIN q = 1 .. Len(p) - 1
    BY <2>1, LenProperties
  <2>3. \A i \in DOMAIN q : q[i] = p[i + 1] /\ i + 1 \in DOMAIN p
    BY <2>1, <2>2
  <2>4. 1 \in DOMAIN p
    BY <2>1
  <2>5. NoTimeoutJobs(q) /\ p[1].job # "timeout"
    BY <2>3, <2>4, Zenon DEF NoTimeoutJobs
  <2> QED BY <2>1, <2>2, <2>5
<1>2. ASSUME NEW q \in Seq(JobSet), NoTimeoutJobs(q)
      PROVE  NoTimeoutJobs(p \o q)
  <2>1. /\ Len(p) \in Nat /\ DOMAIN p = 1 .. Len(p) /\ Len(q) \in Nat /\ DOMAIN q = 1 .. Len(q)
        /\ p \o q \in Seq(JobSet) /\ Len(p \o q) = Len(p) + Len(q)
        /\ \A i \in 1 .. Len(p) + Len(q) :
             (p \o q)[i] = IF i <= Len(p) THEN p[i] ELSE q[i - Len(p)]
    BY ConcatProperties, LenProperties
  <2>2. PICK s : s = p \o q /\ DOMAIN s = 1 .. Len(p) + Len(q)
    BY <2>1, LenProperties
  <2>3. \A i \in DOMAIN s : \/ i \in DOMAIN p /\ s[i] = p[i]
                            \/ i - Len(p) \in DOMAIN q /\ s[i] = q[i - Len(p)]
    BY <2>1, <2>2
  <2>4. NoTimeoutJobs(s)
    BY <1>2, <2>3, Zenon DEF NoTimeoutJobs
  <2> QED BY <2>2, <2>4
<1> QED BY <1>1, <1>2

(* Pings and restarts are neither results nor timeouts.                    *)
LEMMA PingJobs ==
  ASSUME NEW q, q = Guarded("ping") \/ q = <<Job("ping", NoLine)>>
  PROVE  q \in Seq(JobSet) /\ NoTimeoutJobs(q) /\ \A i \in DOMAIN q : ~FinalJob(q[i])
<1>1. q \in Seq(JobSet)
  BY PlainJobs
<1>2. /\ Job("ping", NoLine).job = "ping"
      /\ Job("restart", NoLine).job = "restart"
  BY DEF Job
<1>3. \A i \in DOMAIN q : q[i] = Job("ping", NoLine) \/ q[i] = Job("restart", NoLine)
  <2>1. CASE q = <<Job("ping", NoLine)>>
    BY <2>1
  <2>2. CASE q = <<Job("restart", NoLine), Job("ping", NoLine)>>
    BY <2>2
  <2> QED BY <2>1, <2>2, Zenon DEF Guarded
<1>4. \A i \in DOMAIN q : q[i].job = "ping" \/ q[i].job = "restart"
  BY <1>2, <1>3
<1> QED BY <1>1, <1>4 DEF NoTimeoutJobs, FinalJob

(* A session begins with nothing on its way.                               *)
LEMMA InitLink == Init => LinkInv
<1> SUFFICES ASSUME Init PROVE LinkInv
  OBVIOUS
<1>1. IInv /\ ~expired
  BY InitSound DEF Init
<1>2. atq.tx = <<>> /\ DOMAIN rx = {} /\ DOMAIN tps = {}
  BY DEF Init, EmptyQueue
<1>3. Lone(atq, rx, tps)
  BY <1>2, LoneNone
<1>4. NoTimeoutJobs(tps)
  BY <1>2 DEF NoTimeoutJobs
<1> QED BY <1>1, <1>3, <1>4 DEF LinkInv

(* Every step keeps one thing on its way at most.                          *)
LEMMA NextLink ==
  ASSUME ~Timeouts, ~Restarts, LinkInv, [Next]_vars
  PROVE  LinkInv'
<1>a. IInv /\ IInv'
  BY NextSound DEF LinkInv
<1>b. Sound(atq) /\ rx \in Seq(LineSet) /\ tps \in Seq(JobSet)
  BY <1>a DEF IInv, Typed
<1>c. ~expired /\ NoTimeoutJobs(tps) /\ (mon # "off" => Lone(atq, rx, tps))
  BY DEF LinkInv
<1>d. ASSUME ~expired', NoTimeoutJobs(tps'), mon' # "off" => Lone(atq', rx', tps')
      PROVE  LinkInv'
  BY <1>a, <1>d DEF LinkInv
<1>e. ASSUME NEW s, SetQueue(s)
      PROVE  atq' = s /\ ~expired'
  BY <1>c, <1>e, Zenon DEF SetQueue
<1>f. ASSUME tps # <<>>
      PROVE  /\ NoTimeoutJobs(Tail(tps)) /\ Head(tps).job # "timeout"
             /\ mon # "off" => Lone(atq, rx, Tail(tps))
  BY <1>b, <1>c, <1>f, TimeoutJobs, LoneTakes
<1>g. ASSUME mon' = "off", UNCHANGED tps, ~expired'
      PROVE  LinkInv'
  BY <1>c, <1>d, <1>g
<1>h. ASSUME NEW kind \in KindSet, NEW s \in Inserted(kind)
      PROVE  WritesOnce(atq, s)
  BY <1>b, <1>h, InsertWritesOnce, Zenon DEF Inserted
<1>1. ASSUME NEW kind \in CallerKinds \cup OfflineKinds, Enqueue(kind)
      PROVE  LinkInv'
  <2>1. PICK s \in Inserted(kind) : SetQueue(s)
    BY <1>1 DEF Enqueue
  <2>2. WritesOnce(atq, s)
    BY <1>h, KindsAssumption
  <2>3. mon # "off" /\ rx' = rx /\ tps' = tps
    BY <1>1 DEF Enqueue
  <2>4. Lone(s, rx, tps)
    BY <1>c, <2>2, <2>3, LoneWrites
  <2> QED BY <1>c, <1>d, <1>e, <2>1, <2>3, <2>4
<1>2. CASE TaskSkipped
  BY <1>2, <1>c, <1>d, <1>f DEF TaskSkipped
<1>3. CASE TaskResponse
  <2>1. PICK handled \in Handled(Head(tps).line.res), ok \in WriteResults :
          SetQueue(at_queue_run(handled, ok))
    BY <1>3 DEF TaskResponse
  <2>2. tps # <<>> /\ Head(tps).job = "response" /\ tps' = Tail(tps) /\ rx' = rx /\ mon' = mon
    BY <1>3 DEF TaskResponse, NextJob
  <2>3. mon # "off" => Lone(at_queue_run(handled, ok), rx, Tail(tps))
    BY <1>a, <1>c, <2>2, ResponseLone
  <2> QED BY <1>d, <1>e, <1>f, <2>1, <2>2, <2>3
<1>4. CASE TaskTimeout
  BY <1>4, <1>f DEF TaskTimeout, NextJob
<1>5. CASE TaskPing
  <2>1. PICK kind \in PingKinds : \E s \in Inserted(kind) : SetQueue(s)
    BY <1>5 DEF TaskPing
  <2>2. PICK s \in Inserted(kind) : SetQueue(s)
    BY <2>1
  <2>3. WritesOnce(atq, s)
    BY <1>h, KindsAssumption
  <2>4. tps # <<>> /\ tps' = Tail(tps) /\ rx' = rx /\ mon' = mon
    BY <1>5 DEF TaskPing, NextJob
  <2>5. mon # "off" => Lone(s, rx, Tail(tps))
    BY <1>f, <2>3, <2>4, LoneWrites
  <2> QED BY <1>d, <1>e, <1>f, <2>2, <2>4, <2>5
<1>6. CASE TaskRestart
  <2>1. tps # <<>> /\ UNCHANGED <<atq, rx, mon, expired>> /\ tps' = Tail(tps)
    BY <1>6 DEF TaskRestart, NextJob
  <2> QED BY <1>c, <1>d, <1>f, <2>1
<1>7. CASE MonLoop
  <2>1. UNCHANGED <<atq, rx, tps, expired>> /\ mon = "loop"
    BY <1>7, <1>c DEF MonLoop
  <2> QED BY <1>c, <1>d, <2>1
<1>8. CASE MonBusy
  <2>1. UNCHANGED <<atq, rx, tps, expired>> /\ mon = "loop"
    BY <1>8 DEF MonBusy
  <2> QED BY <1>c, <1>d, <2>1
<1>9. ASSUME pvt_disconnect
      PROVE  LinkInv'
  <2>1. PICK s \in Dropped : SetQueue(s)
    BY <1>9 DEF pvt_disconnect
  <2> QED BY <1>9, <1>e, <1>g, <2>1 DEF pvt_disconnect
<1>11. CASE MonRead
  <2>1. PICK n \in 1 .. Len(rx) :
          /\ PushAll(ResponseJobs(SubSeq(rx, 1, n)))
          /\ rx' = SubSeq(rx, n + 1, Len(rx))
    BY <1>11 DEF MonRead
  <2>2. PICK q : q = ResponseJobs(SubSeq(rx, 1, n))
    OBVIOUS
  <2>3. q \in Seq(JobSet) /\ \A i \in DOMAIN q : q[i].job = "response"
    BY <1>b, <2>2, LinesAreJobs
  <2>4. tps' = tps \o q /\ UNCHANGED <<atq, expired>> /\ mon # "off"
    BY <1>11, <2>1, <2>2 DEF MonRead, PushAll, Waiting
  <2>5. Lone(atq, rx', tps \o q)
    <3>1. PICK t : t = SubSeq(rx, n + 1, Len(rx)) /\ rx' = t
      BY <2>1
    <3>2. Lone(atq, rx, tps)
      BY <1>c, <2>4
    <3>3. Lone(atq, t, tps \o q)
      BY <1>b, <2>2, <2>3, <3>1, <3>2, LoneReads
    <3> QED BY <3>1, <3>3
  <2>6. NoTimeoutJobs(tps \o q)
    <3>1. NoTimeoutJobs(q)
      BY <2>3 DEF NoTimeoutJobs
    <3> QED BY <1>b, <1>c, <2>3, <3>1, TimeoutJobs
  <2> QED BY <1>c, <1>d, <2>4, <2>5, <2>6
<1>12. CASE MonTimeout
  BY <1>12 DEF MonTimeout
<1>13. CASE MonLate
  <2>1. UNCHANGED <<atq, rx, tps, expired>> /\ mon = "wait_late"
    BY <1>13 DEF MonLate
  <2> QED BY <1>c, <1>d, <2>1
<1>14. CASE MonIdle
  <2>1. PICK q : tps' = tps \o q /\ (q = Guarded("ping") \/ q = <<Job("ping", NoLine)>>)
    BY <1>14 DEF MonIdle, PushAll
  <2>2. q \in Seq(JobSet) /\ NoTimeoutJobs(q) /\ \A i \in DOMAIN q : ~FinalJob(q[i])
    BY <2>1, PingJobs
  <2>3. UNCHANGED <<atq, rx, expired>> /\ mon # "off"
    BY <1>14 DEF MonIdle
  <2>4. Lone(atq, rx, tps \o q)
    BY <1>b, <1>c, <2>2, <2>3, LonePushes
  <2>5. NoTimeoutJobs(tps \o q)
    BY <1>b, <1>c, <2>2, TimeoutJobs
  <2> QED BY <1>c, <1>d, <2>1, <2>3, <2>4, <2>5
<1>15. CASE MonStart
  <2>1. CASE pvt_disconnect
    BY <1>9, <2>1
  <2>2. CASE ~pvt_disconnect
    <3>1. PICK kind \in InitKinds, ok \in WriteResults :
            \/ SetQueue(at_queue_flush(at_queue_run(at_queue_add(atq, kind), ok))) /\ mon' = "off"
            \/ SetQueue(at_queue_run(at_queue_add(atq, kind), ok))
      BY <1>15, <2>2 DEF MonStart
    <3>2. tps' = tps /\ rx' = <<>> /\ mon # "off"
      BY <1>15, <2>2 DEF MonStart
    <3>3. PICK s : s = at_queue_add(atq, kind)
      OBVIOUS
    <3>4. Sound(s) /\ WritesOnce(atq, s)
      BY <1>b, <3>3, KindsAssumption, AddSound, AddWritesOnce
    <3>5. WritesOnce(atq, at_queue_run(s, ok))
      BY <3>4, RunWritesOnce, WritesOnceTwice
    <3>6. Lone(at_queue_run(s, ok), rx, tps)
      BY <1>c, <3>2, <3>5, LoneWrites
    <3>7. Lone(at_queue_run(s, ok), <<>>, tps)
      <4>1. DOMAIN <<>> = {}
        OBVIOUS
      <4> QED BY <3>6, <4>1, Zenon DEF Lone
    <3>8. CASE SetQueue(at_queue_run(s, ok))
      BY <1>c, <1>d, <1>e, <3>2, <3>7, <3>8
    <3>9. CASE SetQueue(at_queue_flush(at_queue_run(s, ok))) /\ mon' = "off"
      BY <1>e, <1>g, <3>2, <3>9
    <3> QED BY <3>1, <3>3, <3>8, <3>9
  <2> QED BY <2>1, <2>2
<1>16. CASE DeviceManager
  BY <1>16 DEF DeviceManager, pvt_start, StopRequest, StopJoined
<1>17. CASE ModemAnswer
  <2>1. PICK res \in Answers(Head(atq.tx)) \cap ModemResults :
          rx' = IF mon = "off" THEN <<>>
                ELSE Append(rx \o Preamble(Head(atq.tx), res), Received(res, Head(atq.tx)))
    BY <1>17 DEF ModemAnswer
  <2>2. atq.tx # <<>> /\ atq' = [atq EXCEPT !.tx = Tail(@)] /\ UNCHANGED <<tps, mon, expired>>
    BY <1>17 DEF ModemAnswer
  <2>3. atq'.tx = Tail(atq.tx) /\ atq'.queue = atq.queue /\ Head(atq.tx) \in at_cmd_t
    BY <1>b, <2>2, HeadTailProperties DEF Sound, QueueSet
  <2>4. PICK line, told : line = Received(res, Head(atq.tx)) /\ told = Received("UNKNOWN", "none")
    OBVIOUS
  <2>5. line \in LineSet /\ line.cmd = Head(atq.tx) /\ told \in LineSet /\ told.res \notin Finals
    BY <2>3, <2>4, ModemAssumption DEF Received, LineSet, Finals
  <2>6. ASSUME mon # "off"
        PROVE  Lone(atq', rx', tps)
    <3>1. Lone(atq, rx, tps) /\ Lone(atq, Append(rx, told), tps)
      BY <1>b, <1>c, <2>5, <2>6, LoneHears
    <3>2. \/ rx \o Preamble(Head(atq.tx), res) = rx
          \/ rx \o Preamble(Head(atq.tx), res) = Append(rx, told)
      <4>1. rx \o <<>> = rx /\ rx \o <<told>> = Append(rx, told)
        BY <1>b, <2>5, ConcatEmptySeq
      <4> QED BY <2>4, <4>1, Zenon DEF Preamble
    <3>3. Append(rx, told) \in Seq(LineSet)
      BY <1>b, <2>5, AppendProperties
    <3>4. PICK r \in Seq(LineSet) : Lone(atq, r, tps) /\ rx' = Append(r, line)
      BY <1>b, <2>1, <2>4, <2>6, <3>1, <3>2, <3>3
    <3> QED BY <2>2, <2>3, <2>5, <3>4, LoneAnswers
  <2> QED BY <1>c, <1>d, <2>2, <2>6
<1>18. CASE ModemIgnores
  BY <1>18 DEF ModemIgnores
<1>19. CASE ModemTalks
  <2>1. PICK res \in Chatter : rx' = Append(rx, Received(res, "none"))
    BY <1>19 DEF ModemTalks
  <2>2. PICK line : line = Received(res, "none")
    OBVIOUS
  <2>3. line \in LineSet /\ line.res \notin Finals
    BY <2>2, ModemAssumption DEF Received, LineSet, Finals
  <2>4. UNCHANGED <<atq, tps, expired>> /\ mon # "off"
    BY <1>19 DEF ModemTalks
  <2>5. Lone(atq, rx', tps)
    BY <1>b, <1>c, <2>1, <2>2, <2>3, <2>4, LoneHears
  <2> QED BY <1>c, <1>d, <2>4, <2>5
<1>20. CASE TimePasses
  BY <1>20 DEF TimePasses
<1>21. CASE UNCHANGED vars
  <2>1. UNCHANGED <<atq, rx, tps, mon, expired>>
    BY <1>21 DEF vars
  <2> QED BY <1>c, <1>d, <2>1
<1> QED
  BY <1>1, <1>2, <1>3, <1>4, <1>5, <1>6, <1>7, <1>8, <1>9, <1>11, <1>12, <1>13, <1>14, <1>15,
     <1>16, <1>17, <1>18, <1>19, <1>20, <1>21, Zenon
  DEF Next, CallerOnline, CallerConnected, Serializer, Monitor, Environment, MonTerminate, MonLost

(* What the invariant says, counted.                                       *)
LEMMA LoneIsHalfDuplex == LinkInv => HalfDuplex
<1> SUFFICES ASSUME LinkInv, mon # "off"
             PROVE  /\ Len(atq.tx) + Cardinality(FinalLines) + Cardinality(FinalJobs) <= 1
                    /\ \A i \in DOMAIN atq.tx : HeadSent(atq) /\ atq.tx[i] = HeadLine(atq)
                    /\ \A i \in FinalLines : HeadSent(atq) /\ rx[i].cmd = HeadLine(atq)
                    /\ \A i \in FinalJobs : HeadSent(atq) /\ tps[i].line.cmd = HeadLine(atq)
  BY DEF HalfDuplex
<1>1. Lone(atq, rx, tps)
  BY DEF LinkInv
<1>2. /\ FinalLines = {i \in DOMAIN rx : rx[i].res \in Finals}
      /\ FinalJobs = {i \in DOMAIN tps : FinalJob(tps[i])}
  BY DEF FinalLines, FinalJobs, FinalJob
<1>3. Cardinality({}) = 0 /\ \A i : Cardinality({i}) = 1
  BY FS_EmptySet, FS_Singleton
<1>4. CASE atq.tx # <<>>
  <2>1. HeadSent(atq) /\ atq.tx = <<HeadLine(atq)>>
    BY <1>1, <1>4 DEF Lone
  <2>2. FinalLines = {} /\ FinalJobs = {}
    BY <1>1, <1>2, <1>4, Zenon DEF Lone
  <2>3. Len(atq.tx) = 1 /\ DOMAIN atq.tx = {1} /\ atq.tx[1] = HeadLine(atq)
    BY <2>1
  <2> QED BY <1>3, <2>1, <2>2, <2>3
<1>5. CASE atq.tx = <<>> /\ FinalLines # {}
  <2>1. PICK i \in FinalLines : TRUE
    BY <1>5
  <2>2. FinalLines = {i} /\ FinalJobs = {} /\ HeadSent(atq) /\ rx[i].cmd = HeadLine(atq)
    BY <1>1, <1>2, <2>1, Zenon DEF Lone
  <2>3. Len(atq.tx) = 0 /\ DOMAIN atq.tx = {}
    BY <1>5
  <2>4. Cardinality(FinalLines) = 1 /\ Cardinality(FinalJobs) = 0
    BY <1>3, <2>2, Zenon
  <2>5. /\ \A j \in DOMAIN atq.tx : HeadSent(atq) /\ atq.tx[j] = HeadLine(atq)
        /\ \A j \in FinalLines : HeadSent(atq) /\ rx[j].cmd = HeadLine(atq)
        /\ \A j \in FinalJobs : HeadSent(atq) /\ tps[j].line.cmd = HeadLine(atq)
    BY <2>2, <2>3, Zenon
  <2> QED BY <2>3, <2>4, <2>5
<1>6. CASE atq.tx = <<>> /\ FinalLines = {} /\ FinalJobs # {}
  <2>1. PICK i \in FinalJobs : TRUE
    BY <1>6
  <2>2. FinalJobs = {i} /\ HeadSent(atq) /\ tps[i].line.cmd = HeadLine(atq)
    BY <1>1, <1>2, <2>1, Zenon DEF Lone
  <2>3. Len(atq.tx) = 0 /\ DOMAIN atq.tx = {}
    BY <1>6
  <2>4. Cardinality(FinalLines) = 0 /\ Cardinality(FinalJobs) = 1
    BY <1>3, <1>6, <2>2, Zenon
  <2>5. /\ \A j \in DOMAIN atq.tx : HeadSent(atq) /\ atq.tx[j] = HeadLine(atq)
        /\ \A j \in FinalLines : HeadSent(atq) /\ rx[j].cmd = HeadLine(atq)
        /\ \A j \in FinalJobs : HeadSent(atq) /\ tps[j].line.cmd = HeadLine(atq)
    BY <1>6, <2>2, <2>3, Zenon
  <2> QED BY <2>3, <2>4, <2>5
<1>7. CASE atq.tx = <<>> /\ FinalLines = {} /\ FinalJobs = {}
  <2>1. Len(atq.tx) = 0 /\ DOMAIN atq.tx = {}
    BY <1>7
  <2> QED BY <1>3, <1>7, <2>1
<1> QED BY <1>4, <1>5, <1>6, <1>7

(* While no command outlives its timeout, one command at most is between   *)
(* its write and the handling of its result, and it is the head: the       *)
(* handlers, which credit a result to the head without looking, are right. *)
(* Writes may fail, and callers, pings and unsolicited lines may enqueue   *)
(* whatever they like.                                                     *)
THEOREM OneCommandAtATime ==
  ASSUME ~Timeouts, ~Restarts
  PROVE  Spec => []HalfDuplex
<1>1. LinkInv /\ [Next]_vars => LinkInv'
  BY NextLink
<1> QED BY InitLink, <1>1, LoneIsHalfDuplex, PTL DEF Spec

-----------------------------------------------------------------------------
(* Commands counted and none skipped, as long as no write fails either.    *)

(* The inductive invariant.  The queue is whole; a head task that is still *)
(* owed a result has had none; and a device that is off stays off, so that *)
(* no handler runs the queue with its ports closed.                        *)
CountInv ==
  /\ LinkInv
  /\ mon = "off" => terminate
  /\ mon = "starting" => tps = <<>>
  /\ Counted(atq)
  /\ mon # "off" => Whole(atq) /\ (OnWay(atq, rx, tps) => Unresolved(atq))

(* No write fails while the ports are open.                                *)
LEMMA WritesSucceed ==
  ASSUME ~WriteFaults, mon # "off", NEW ok \in WriteResults
  PROVE  ok = TRUE
BY DEF WriteResults

(* What is on its way stays owed.                                          *)
LEMMA OnWayKept ==
  ASSUME NEW s, NEW t, KeepsWhole(s, t), NEW r, NEW p, OnWay(s, r, p) => Unresolved(s)
  PROVE  OnWay(t, r, p) => Unresolved(t)
BY Zenon DEF KeepsWhole, OnWay

(* Enqueueing up to four tasks.                                            *)
LEMMA Insert4Whole ==
  ASSUME NEW s, Sound(s), Whole(s), NEW tasks \in Tasks4Set
  PROVE  KeepsWhole(s, Insert4(s, tasks, TRUE))
<1>1. tasks.t1 \in KindSet /\ tasks.t2 \in KindSet /\ tasks.t3 \in KindSet /\ tasks.t4 \in KindSet
  BY DEF Tasks4Set
<1>2. PICK s1 : s1 = at_queue_insert(s, tasks.t1, TRUE)
  OBVIOUS
<1>3. PICK s2 : s2 = at_queue_insert(s1, tasks.t2, TRUE)
  OBVIOUS
<1>4. PICK s3 : s3 = at_queue_insert(s2, tasks.t3, TRUE)
  OBVIOUS
<1>5. PICK s4 : s4 = at_queue_insert(s3, tasks.t4, TRUE)
  OBVIOUS
<1>a. ASSUME NEW u, Sound(u), Whole(u), NEW kind \in KindSet,
             NEW v, v = at_queue_insert(u, kind, TRUE)
      PROVE  Sound(v) /\ KeepsWhole(u, v) /\ Whole(v)
  <2>1. KeepsWhole(u, v)
    BY <1>a, InsertWhole
  <2>2. Sound(v)
    BY <1>a, InsertSound
  <2> QED BY <2>1, <2>2 DEF KeepsWhole
<1>6. Sound(s1) /\ KeepsWhole(s, s1) /\ Whole(s1)
  BY <1>1, <1>2, <1>a, Zenon
<1>7. Sound(s2) /\ KeepsWhole(s1, s2) /\ Whole(s2)
  BY <1>1, <1>3, <1>6, <1>a, Zenon
<1>8. Sound(s3) /\ KeepsWhole(s2, s3) /\ Whole(s3)
  BY <1>1, <1>4, <1>7, <1>a, Zenon
<1>9. KeepsWhole(s3, s4)
  BY <1>1, <1>5, <1>8, <1>a, Zenon
<1>10. KeepsWhole(s, s4)
  BY <1>6, <1>7, <1>8, <1>9, KeepsWholeTwice
<1> QED BY <1>2, <1>3, <1>4, <1>5, <1>10, Zenon DEF Insert4

(* A result is credited to the command it answers.                         *)
LEMMA ResultWhole ==
  ASSUME Sound(atq), Whole(atq), HeadSent(atq), Unresolved(atq), NEW res \in Finals,
         NEW tasks \in Tasks4Set
  PROVE  Whole(at_response(res, tasks, TRUE))
<1>1. ASSUME NEW s, Sound(s), KeepsWhole(atq, s), WritesOnce(atq, s), s.tx = atq.tx
      PROVE  \A r : Whole(at_queue_remove_cmd(s, r))
  <2>1. Counted(s) /\ Unskipped(s) /\ Unresolved(s) /\ HeadSent(s)
    BY <1>1, Zenon DEF KeepsWhole, Whole, WritesOnce
  <2> QED BY <1>1, <2>1, RemoveCmdWhole, Zenon
<1>2. ASSUME NEW s, WritesOnce(atq, s)
      PROVE  s.tx = atq.tx
  BY <1>2 DEF WritesOnce
<1>3. PICK s : s = Insert4(atq, tasks, TRUE)
  OBVIOUS
<1>4. Sound(s) /\ KeepsWhole(atq, s) /\ WritesOnce(atq, s)
  BY <1>3, Insert4Sound, Insert4Whole, Insert4WritesOnce
<1>5. \A r : Whole(at_queue_remove_cmd(s, r))
  BY <1>1, <1>2, <1>4
<1>6. Whole(at_response_ok(tasks, TRUE)) /\ Whole(at_response_error(res, tasks, TRUE))
  BY <1>3, <1>5, Zenon DEF at_response_ok, at_response_error
<1>7. Whole(at_response_sms_prompt(TRUE))
  <2>1. PICK u : u = at_queue_insert(atq, at_enqueue_escape, TRUE)
    OBVIOUS
  <2>2. at_enqueue_escape \in KindSet
    BY HandlerKinds
  <2>3. Sound(u) /\ KeepsWhole(atq, u) /\ WritesOnce(atq, u)
    BY <2>1, <2>2, InsertSound, InsertWhole, InsertWritesOnce
  <2>4. \A r : Whole(at_queue_remove_cmd(u, r))
    BY <1>1, <1>2, <2>3
  <2>5. \A r : Whole(at_queue_remove_cmd(atq, r))
    BY RemoveCmdWhole, Zenon DEF Whole
  <2> QED BY <2>1, <2>4, <2>5, Zenon DEF at_response_sms_prompt
<1>8. res = "OK" \/ res \in {"ERROR", "TIMEOUT"} \/ res = "PROMPT"
  BY DEF Finals
<1> QED BY <1>6, <1>7, <1>8, Zenon DEF at_response

(* Handling a line and running the queue.                                  *)
LEMMA ResponseWhole ==
  ASSUME IInv, Lone(atq, rx, tps), tps # <<>>, Head(tps).job = "response",
         Whole(atq), OnWay(atq, rx, tps) => Unresolved(atq), ~WriteFaults, mon # "off",
         NEW handled \in Handled(Head(tps).line.res), NEW t, t = at_queue_run(handled, TRUE)
  PROVE  Whole(t) /\ (OnWay(t, rx, Tail(tps)) => Unresolved(t))
<1>1. Sound(atq) /\ tps \in Seq(JobSet)
  BY DEF IInv, Typed
<1>2. Head(tps) \in JobSet
  BY <1>1, JobTypes
<1>3. Sound(handled)
  BY <1>1, HandledSound
<1>4. PICK tasks \in HandlerTasks(Head(tps).line.res), ok \in WriteResults :
        handled = at_response(Head(tps).line.res, tasks, ok)
  BY DEF Handled
<1>5. tasks \in Tasks4Set /\ ok = TRUE
  BY HandlerTasksType, WritesSucceed
<1>6. ASSUME Whole(handled), OnWay(handled, rx, Tail(tps)) => Unresolved(handled)
      PROVE  Whole(t) /\ (OnWay(t, rx, Tail(tps)) => Unresolved(t))
  <2>1. KeepsWhole(handled, t)
    BY <1>3, <1>6, RunWhole
  <2>2. Whole(t)
    BY <2>1 DEF KeepsWhole
  <2>3. OnWay(t, rx, Tail(tps)) => Unresolved(t)
    BY <1>6, <2>1, OnWayKept, Zenon
  <2> QED BY <2>2, <2>3
<1>7. CASE Head(tps).line.res \in Finals
  <2>1. FinalJob(Head(tps))
    BY <1>7 DEF FinalJob
  <2>2. /\ HeadSent(atq) /\ atq.tx = <<>> /\ OnWay(atq, rx, tps)
        /\ \A i \in DOMAIN rx : rx[i].res \notin Finals
        /\ \A i \in DOMAIN Tail(tps) : ~FinalJob(Tail(tps)[i])
    BY <1>1, <2>1, LoneTakes
  <2>3. handled.tx = <<>>
    BY <1>1, <1>7, <2>2, ResultWritesNothing
  <2>4. ~OnWay(handled, rx, Tail(tps))
    BY <2>2, <2>3, Zenon DEF OnWay
  <2>5. Whole(handled)
    BY <1>1, <1>4, <1>5, <1>7, <2>2, ResultWhole
  <2> QED BY <1>6, <2>4, <2>5
<1>8. CASE Head(tps).line.res \notin Finals
  <2>1. Head(tps).line.res \in {"URC", "UNKNOWN"}
    BY <1>2, <1>8 DEF JobSet, LineSet
  <2>2. handled = Insert4(atq, tasks, TRUE)
    BY <1>4, <1>5, <2>1 DEF at_response
  <2>3. KeepsWhole(atq, handled)
    BY <1>1, <1>5, <2>2, Insert4Whole
  <2>4. OnWay(atq, rx, Tail(tps)) => Unresolved(atq)
    BY <1>1, LoneTakes
  <2>5. OnWay(handled, rx, Tail(tps)) => Unresolved(handled)
    BY <2>3, <2>4, OnWayKept
  <2>6. Whole(handled)
    BY <2>3 DEF KeepsWhole
  <2> QED BY <1>6, <2>5, <2>6
<1> QED BY <1>7, <1>8

(* A disconnection discounts what it drops.                                *)
LEMMA DroppedCounted ==
  ASSUME Sound(atq), Whole(atq)
  PROVE  \A s \in Dropped : Counted(s)
<1> DEFINE Gone(tasks, ok) == at_queue_flush(LastWords(Insert4(atq, tasks, TRUE), ok))
<1>1. ASSUME NEW tasks \in Farewells, NEW ok \in WriteResults
      PROVE  Counted(Gone(tasks, ok))
  <2>1. PICK s : s = Insert4(atq, tasks, TRUE)
    OBVIOUS
  <2>2. Sound(s) /\ Counted(s)
    BY <2>1, KindsAssumption, Insert4Sound, Insert4Whole DEF KeepsWhole, Whole
  <2>3. Sound(at_queue_run_immediately(s, ok)) /\ Counted(at_queue_run_immediately(s, ok))
    BY <2>2, RunImmediatelySound, RunImmediatelyCounted
  <2>4. Sound(LastWords(s, ok)) /\ Counted(LastWords(s, ok))
    BY <2>2, <2>3, Zenon DEF LastWords
  <2>5. Counted(at_queue_flush(LastWords(s, ok)))
    BY <2>4, FlushCounted
  <2> QED BY <2>1, <2>5
<1>2. Dropped = {Gone(tasks, ok) : tasks \in Farewells, ok \in WriteResults}
  BY DEF Dropped
<1> HIDE DEF Gone
<1> QED BY <1>1, <1>2

(* It holds at first.                                                      *)
LEMMA InitCount == Init => CountInv
<1> SUFFICES ASSUME Init PROVE CountInv
  OBVIOUS
<1>1. LinkInv
  BY InitLink
<1>2. mon # "off" /\ tps = <<>>
  BY DEF Init
<1>3. atq.queue = <<>> /\ atq.at_cmds = 0
  BY DEF Init, EmptyQueue
<1>4. Counted(atq)
  <2>1. 0 % UintValues = 0
    BY UintAssumption
  <2> QED BY <1>3, <2>1, RemainingNone DEF Counted
<1>5. Whole(atq) /\ Unresolved(atq)
  BY <1>3, <1>4, Zenon DEF Whole, Unskipped, Unresolved
<1> QED BY <1>1, <1>2, <1>4, <1>5, Zenon DEF CountInv

(* Every step keeps it.                                                    *)
LEMMA NextCount ==
  ASSUME ~Timeouts, ~Restarts, ~WriteFaults, CountInv, [Next]_vars
  PROVE  CountInv'
<1>a. LinkInv /\ LinkInv' /\ IInv
  BY NextLink DEF CountInv, LinkInv
<1>b. Sound(atq) /\ rx \in Seq(LineSet) /\ tps \in Seq(JobSet) /\ ~expired /\ NoTimeoutJobs(tps)
  BY <1>a DEF LinkInv, IInv, Typed
<1>c. /\ mon = "off" => terminate
      /\ mon = "starting" => tps = <<>>
      /\ Counted(atq)
      /\ mon # "off" =>
           Lone(atq, rx, tps) /\ Whole(atq) /\ (OnWay(atq, rx, tps) => Unresolved(atq))
  BY <1>a, Zenon DEF CountInv, LinkInv
<1>d. ASSUME mon' # "off", mon' = "starting" => tps' = <<>>,
             Whole(atq'), OnWay(atq', rx', tps') => Unresolved(atq')
      PROVE  CountInv'
  BY <1>a, <1>d, Zenon DEF CountInv, Whole
<1>e. ASSUME mon' = "off", terminate', Counted(atq')
      PROVE  CountInv'
  BY <1>a, <1>e DEF CountInv
<1>f. ASSUME tps # <<>>
      PROVE  /\ mon # "starting" /\ Head(tps).job # "timeout"
             /\ mon # "off" => (OnWay(atq, rx, Tail(tps)) => Unresolved(atq))
  <2>1. Head(tps).job # "timeout"
    BY <1>b, <1>f, TimeoutJobs
  <2>2. mon # "off" => (OnWay(atq, rx, Tail(tps)) => OnWay(atq, rx, tps))
    BY <1>b, <1>c, <1>f, LoneTakes
  <2> QED BY <1>c, <1>f, <2>1, <2>2
<1>g. ASSUME NEW kind \in KindSet, NEW s \in Inserted(kind), mon # "off"
      PROVE  KeepsWhole(atq, s)
  <2>1. PICK ok \in WriteResults : s = at_queue_insert(atq, kind, ok)
    BY <1>g DEF Inserted
  <2>2. s = at_queue_insert(atq, kind, TRUE)
    BY <1>g, <2>1, WritesSucceed
  <2> QED BY <1>b, <1>c, <1>g, <2>2, InsertWhole
<1>h. ASSUME NEW s, KeepsWhole(atq, s), NEW r, NEW p, OnWay(atq, r, p) => Unresolved(atq)
      PROVE  Whole(s) /\ (OnWay(s, r, p) => Unresolved(s))
  <2>1. Whole(s)
    BY <1>h DEF KeepsWhole
  <2> QED BY <1>h, <2>1, OnWayKept
<1>i. ASSUME NEW s, SetQueue(s)
      PROVE  atq' = s
  BY <1>i DEF SetQueue
<1>1. ASSUME NEW kind \in CallerKinds \cup OfflineKinds, Enqueue(kind)
      PROVE  CountInv'
  <2>1. PICK s \in Inserted(kind) : SetQueue(s)
    BY <1>1 DEF Enqueue
  <2>2. mon # "off" /\ rx' = rx /\ tps' = tps /\ mon' = mon
    BY <1>1 DEF Enqueue
  <2>3. KeepsWhole(atq, s)
    BY <1>g, <2>2, KindsAssumption
  <2>4. Whole(s) /\ (OnWay(s, rx, tps) => Unresolved(s))
    BY <1>c, <1>h, <2>2, <2>3
  <2> QED BY <1>c, <1>d, <1>i, <2>1, <2>2, <2>4
<1>2. CASE TaskSkipped
  <2>1. tps # <<>> /\ tps' = Tail(tps) /\ UNCHANGED <<atq, rx, mon, terminate>>
    BY <1>2 DEF TaskSkipped
  <2> QED BY <1>c, <1>d, <1>e, <1>f, <2>1
<1>3. CASE TaskResponse
  <2>1. PICK handled \in Handled(Head(tps).line.res), ok \in WriteResults :
          SetQueue(at_queue_run(handled, ok))
    BY <1>3 DEF TaskResponse
  <2>2. /\ tps # <<>> /\ Head(tps).job = "response" /\ tps' = Tail(tps) /\ rx' = rx /\ mon' = mon
        /\ ~terminate
    BY <1>3 DEF TaskResponse, NextJob
  <2>3. mon # "off" /\ ok = TRUE
    BY <1>c, <2>2, WritesSucceed
  <2>4. PICK t : t = at_queue_run(handled, TRUE)
    OBVIOUS
  <2>5. Whole(t) /\ (OnWay(t, rx, Tail(tps)) => Unresolved(t))
    BY <1>a, <1>c, <2>2, <2>3, <2>4, ResponseWhole
  <2>6. atq' = t
    BY <1>i, <2>1, <2>3, <2>4
  <2> QED BY <1>d, <1>f, <2>2, <2>3, <2>5, <2>6
<1>4. CASE TaskTimeout
  BY <1>4, <1>f DEF TaskTimeout, NextJob
<1>5. CASE TaskPing
  <2>1. PICK kind \in PingKinds : \E s \in Inserted(kind) : SetQueue(s)
    BY <1>5 DEF TaskPing
  <2>2. PICK s \in Inserted(kind) : SetQueue(s)
    BY <2>1
  <2>3. tps # <<>> /\ tps' = Tail(tps) /\ rx' = rx /\ mon' = mon /\ ~terminate
    BY <1>5 DEF TaskPing, NextJob
  <2>4. mon # "off"
    BY <1>c, <2>3
  <2>5. KeepsWhole(atq, s)
    BY <1>g, <2>4, KindsAssumption
  <2>6. Whole(s) /\ (OnWay(s, rx, Tail(tps)) => Unresolved(s))
    BY <1>f, <1>h, <2>3, <2>4, <2>5
  <2> QED BY <1>d, <1>f, <1>i, <2>2, <2>3, <2>4, <2>6
<1>6. CASE TaskRestart
  <2>1. tps # <<>> /\ UNCHANGED <<atq, rx, mon>> /\ tps' = Tail(tps) /\ terminate'
    BY <1>6 DEF TaskRestart, NextJob
  <2> QED BY <1>c, <1>d, <1>e, <1>f, <2>1
<1>7. CASE MonLoop \/ MonBusy \/ MonLate
  <2>1. UNCHANGED <<atq, rx, tps>> /\ mon # "off" /\ mon' # "off" /\ mon' # "starting"
    BY <1>7, <1>b DEF MonLoop, MonBusy, MonLate
  <2> QED BY <1>c, <1>d, <2>1
<1>8. CASE MonTerminate
  <2>1. PICK s \in Dropped : SetQueue(s)
    BY <1>8 DEF MonTerminate, pvt_disconnect
  <2>2. mon # "off" /\ mon' = "off" /\ terminate'
    BY <1>8 DEF MonTerminate, pvt_disconnect
  <2>3. Counted(s)
    BY <1>b, <1>c, <2>2, DroppedCounted
  <2> QED BY <1>e, <1>i, <2>1, <2>2, <2>3
<1>9. CASE MonLost
  BY <1>9 DEF MonLost
<1>10. CASE MonRead
  <2>1. PICK n \in 1 .. Len(rx) :
          /\ PushAll(ResponseJobs(SubSeq(rx, 1, n)))
          /\ rx' = SubSeq(rx, n + 1, Len(rx))
    BY <1>10 DEF MonRead
  <2>2. PICK q : q = ResponseJobs(SubSeq(rx, 1, n))
    OBVIOUS
  <2>3. q \in Seq(JobSet)
    BY <1>b, <2>2, LinesAreJobs
  <2>4. tps' = tps \o q /\ atq' = atq /\ mon # "off" /\ mon' = "loop"
    BY <1>10, <2>1, <2>2 DEF MonRead, PushAll, Waiting
  <2>5. PICK t : t = SubSeq(rx, n + 1, Len(rx)) /\ rx' = t
    BY <2>1
  <2>6. OnWay(atq, t, tps \o q) => OnWay(atq, rx, tps)
    <3>1. Lone(atq, rx, tps)
      BY <1>c, <2>4
    <3>2. t = SubSeq(rx, n + 1, Len(rx))
      BY <2>5
    <3> QED BY <1>b, <2>2, <2>3, <3>1, <3>2, LoneReads
  <2> QED BY <1>c, <1>d, <2>4, <2>5, <2>6
<1>11. CASE MonTimeout
  BY <1>11 DEF MonTimeout
<1>12. CASE MonIdle
  <2>1. PICK q : tps' = tps \o q /\ (q = Guarded("ping") \/ q = <<Job("ping", NoLine)>>)
    BY <1>12 DEF MonIdle, PushAll
  <2>2. q \in Seq(JobSet) /\ \A i \in DOMAIN q : ~FinalJob(q[i])
    BY <2>1, PingJobs
  <2>3. UNCHANGED <<atq, rx>> /\ mon # "off" /\ mon' = "loop"
    BY <1>12 DEF MonIdle
  <2>4. OnWay(atq, rx, tps \o q) => OnWay(atq, rx, tps)
    BY <1>b, <1>c, <2>2, <2>3, LonePushes
  <2> QED BY <1>c, <1>d, <2>1, <2>3, <2>4
<1>13. CASE MonStart
  <2>1. mon = "starting" /\ tps = <<>>
    BY <1>13, <1>c DEF MonStart
  <2>2. PICK kind \in InitKinds, ok \in WriteResults :
          \/ ~ok
          \/ SetQueue(at_queue_run(at_queue_add(atq, kind), ok)) /\ mon' = "loop"
    BY <1>13, <2>1 DEF MonStart
  <2>3. ok = TRUE
    BY <2>1, WritesSucceed
  <2>4. rx' = <<>> /\ tps' = tps
    BY <1>13, <2>1 DEF MonStart
  <2>5. PICK s : s = at_queue_add(atq, kind)
    OBVIOUS
  <2>6. PICK t : t = at_queue_run(s, TRUE)
    OBVIOUS
  <2>7. Sound(s) /\ KeepsWhole(atq, s) /\ Whole(s)
    BY <1>b, <1>c, <2>1, <2>5, KindsAssumption, AddSound, AddWhole DEF KeepsWhole
  <2>8. KeepsWhole(atq, t)
    BY <2>6, <2>7, RunWhole, KeepsWholeTwice
  <2>9. OnWay(atq, <<>>, tps) => OnWay(atq, rx, tps)
    <3>1. DOMAIN <<>> = {}
      OBVIOUS
    <3> QED BY <3>1, Zenon DEF OnWay
  <2>10. Whole(t) /\ (OnWay(t, <<>>, tps) => Unresolved(t))
    BY <1>c, <1>h, <2>1, <2>8, <2>9
  <2>11. atq' = t /\ mon' = "loop"
    BY <1>i, <2>2, <2>3, <2>5, <2>6
  <2> QED BY <1>d, <2>4, <2>10, <2>11
<1>14. CASE DeviceManager
  BY <1>14 DEF DeviceManager, pvt_start, StopRequest, StopJoined
<1>15. CASE ModemAnswer
  <2>1. /\ atq.tx # <<>> /\ atq' = [atq EXCEPT !.tx = Tail(@)]
        /\ tps' = tps /\ mon' = mon /\ terminate' = terminate
    BY <1>15 DEF ModemAnswer
  <2>2. atq'.queue = atq.queue /\ atq'.at_cmds = atq.at_cmds
    BY <1>b, <2>1 DEF Sound, QueueSet
  <2>3. Counted(atq')
    BY <1>c, <2>2 DEF Counted
  <2>4. mon # "off" => Whole(atq') /\ Unresolved(atq')
    <3>1. OnWay(atq, rx, tps)
      BY <2>1, Zenon DEF OnWay
    <3> QED BY <1>c, <2>2, <2>3, <3>1 DEF Whole, Unskipped, Unresolved, HeadSent
  <2> QED BY <1>c, <1>d, <1>e, <2>1, <2>3, <2>4
<1>16. CASE ModemIgnores
  BY <1>16 DEF ModemIgnores
<1>17. CASE ModemTalks
  <2>1. PICK res \in Chatter : rx' = Append(rx, Received(res, "none"))
    BY <1>17 DEF ModemTalks
  <2>2. PICK line : line = Received(res, "none")
    OBVIOUS
  <2>3. line \in LineSet /\ line.res \notin Finals
    BY <2>2, ModemAssumption DEF Received, LineSet, Finals
  <2>4. UNCHANGED <<atq, tps, mon>> /\ mon # "off"
    BY <1>17 DEF ModemTalks
  <2>5. OnWay(atq, rx', tps) => OnWay(atq, rx, tps)
    BY <1>b, <1>c, <2>1, <2>2, <2>3, <2>4, LoneHears
  <2> QED BY <1>c, <1>d, <2>4, <2>5
<1>18. CASE TimePasses
  BY <1>18 DEF TimePasses
<1>19. CASE UNCHANGED vars
  <2>1. UNCHANGED <<atq, rx, tps, mon, terminate>>
    BY <1>19 DEF vars
  <2> QED BY <1>c, <1>d, <1>e, <2>1
<1> QED
  BY <1>1, <1>2, <1>3, <1>4, <1>5, <1>6, <1>7, <1>8, <1>9, <1>10, <1>11, <1>12, <1>13, <1>14,
     <1>15, <1>16, <1>17, <1>18, <1>19, Zenon
  DEF Next, CallerOnline, CallerConnected, Serializer, Monitor, Environment

(* While no command outlives its timeout and no write falls short,         *)
(* PVT_STATE at_cmds is the number of commands still to be resolved,       *)
(* through every insertion, result and disconnection.                      *)
THEOREM CommandsAreCounted ==
  ASSUME ~Timeouts, ~Restarts, ~WriteFaults
  PROVE  Spec => []CommandsCounted
<1>1. CountInv /\ [Next]_vars => CountInv'
  BY NextCount
<1>2. CountInv => CommandsCounted
  BY DEF CountInv, Counted, CommandsCounted
<1> QED BY InitCount, <1>1, <1>2, PTL DEF Spec

(* Under the same assumptions no result moves a task past a command that   *)
(* was not written.                                                        *)
THEOREM NoCommandSkipped ==
  ASSUME ~Timeouts, ~Restarts, ~WriteFaults
  PROVE  Spec => []NothingSkipped
<1>1. CountInv /\ [Next]_vars => CountInv'
  BY NextCount
<1>2. CountInv => NothingSkipped
  BY Zenon DEF CountInv, Whole, Unskipped, NothingSkipped
<1> QED BY InitCount, <1>1, <1>2, PTL DEF Spec

-----------------------------------------------------------------------------
(* The prompt.                                                             *)

(* The task that answers a prompt nobody asked for.                        *)
Escape(task) == ~task.at_once /\ task.cmds = <<Cmd("ESC")>>

(* Every task is proper, but for an escape at the head.                    *)
Plain(s) == \A i \in DOMAIN s.queue : Proper(s.queue[i]) \/ (i = 1 /\ Escape(s.queue[i]))

(* The head command is message text.                                       *)
Texting(s) == s.queue # <<>> /\ HeadLine(s) \in MessageText

(* The modem waits for text exactly when text is the next line it reads:   *)
(* the one on the wire or, if the head command is not written yet, that.   *)
Mannered(s, pr) == s.tx # <<>> \/ ~HeadSent(s) => (pr <=> Texting(s))

(* A result on its way is a prompt exactly when the modem waits for text,  *)
(* and only two commands get a prompt.                                     *)
Told(line, pr) ==
  line.res \in Finals =>
    /\ line.res = "PROMPT" <=> pr
    /\ line.res = "PROMPT" => line.cmd \in {"CMGS", "CNMA"}

Owed(r, p, pr) ==
  /\ \A i \in DOMAIN r : Told(r[i], pr)
  /\ \A i \in DOMAIN p : p[i].job = "response" => Told(p[i].line, pr)

(* The inductive invariant.                                                *)
PromptInv ==
  /\ CountInv
  /\ mon # "off" => Plain(atq) /\ Mannered(atq, prompt) /\ Owed(rx, tps, prompt)

Proper4(tasks) == Proper(tasks.t1) /\ Proper(tasks.t2) /\ Proper(tasks.t3) /\ Proper(tasks.t4)

(* The first command of a proper task is no text.                          *)
LEMMA ProperStart ==
  ASSUME NEW task \in TaskSet, Proper(task), InBounds(task), task.cindex = 0
  PROVE  Line(task) \notin MessageText
<1>1. 1 \in DOMAIN task.cmds /\ 0 \notin DOMAIN task.cmds /\ CurrentIndex(task) = 1
  BY LenProperties, EmptySeq DEF TaskSet, InBounds, CurrentIndex
<1>2. ProperCommand(task, 1)
  BY <1>1 DEF Proper
<1>3. task.cmds[1].cmd # "ESC" /\ (task.cmds[1].cmd = "SMSTEXT" => 1 - 1 \in DOMAIN task.cmds)
  BY <1>2 DEF ProperCommand
<1>4. 1 - 1 = 0
  OBVIOUS
<1> QED BY <1>1, <1>3, <1>4 DEF Line, at_queue_task_cmd, MessageText

(* What a task is depends on its commands only.                            *)
LEMMA SameCommands ==
  ASSUME NEW a, NEW b, a.cmds = b.cmds, a.at_once = b.at_once
  PROVE  (Proper(a) <=> Proper(b)) /\ (Escape(a) <=> Escape(b))
<1>1. ASSUME NEW i PROVE ProperCommand(a, i) <=> ProperCommand(b, i)
  BY DEF ProperCommand
<1>2. Proper(a) <=> Proper(b)
  BY <1>1, Zenon DEF Proper
<1>3. Escape(a) <=> Escape(b)
  BY DEF Escape
<1> QED BY <1>2, <1>3

(* A task is added behind the head, or alone.                              *)
LEMMA AddedPlaces ==
  ASSUME NEW s, Sound(s), NEW kind \in KindSet, kind.cmds # <<>>, NEW t, t = at_queue_add(s, kind)
  PROVE  \A i \in DOMAIN t.queue :
           \/ t.queue[i] = NewTask(kind)
           \/ \E j \in DOMAIN s.queue : t.queue[i] = s.queue[j] /\ (j = 1 => i = 1)
<1>1. PICK new \in TaskSet : new = NewTask(kind)
  BY NewTaskWaits
<1>2. PICK q : q = s.queue
  OBVIOUS
<1>3. q \in Seq(TaskSet) /\ Len(q) \in Nat /\ DOMAIN q = 1 .. Len(q)
  BY <1>2, LenProperties DEF Sound, QueueSet
<1>4. t.queue = IF kind.prio /\ q # <<>> THEN InsertAfterHead(q, new) ELSE Append(q, new)
  BY <1>1, <1>2 DEF at_queue_add, Sound, QueueSet
<1>5. ASSUME NEW i \in DOMAIN Append(q, new)
      PROVE  \/ Append(q, new)[i] = new
             \/ i \in DOMAIN q /\ Append(q, new)[i] = q[i]
  BY <1>3, <1>5
<1>6. ASSUME NEW i \in DOMAIN InsertAfterHead(q, new), q # <<>>
      PROVE  \/ InsertAfterHead(q, new)[i] = new
             \/ 1 \in DOMAIN q /\ i = 1 /\ InsertAfterHead(q, new)[i] = q[1]
             \/ i - 1 \in DOMAIN q /\ i - 1 # 1 /\ InsertAfterHead(q, new)[i] = q[i - 1]
  <2>1. Len(q) # 0
    BY <1>3, <1>6, EmptySeq
  <2> QED BY <1>3, <1>6, <2>1 DEF InsertAfterHead
<1>7. ASSUME NEW i \in DOMAIN Append(q, new)
      PROVE  \/ Append(q, new)[i] = new
             \/ \E j \in DOMAIN q : Append(q, new)[i] = q[j] /\ (j = 1 => i = 1)
  BY <1>5, Zenon
<1>8. ASSUME NEW i \in DOMAIN InsertAfterHead(q, new), q # <<>>
      PROVE  \/ InsertAfterHead(q, new)[i] = new
             \/ \E j \in DOMAIN q : InsertAfterHead(q, new)[i] = q[j] /\ (j = 1 => i = 1)
  BY <1>6, <1>8, Zenon
<1>9. t.queue = Append(q, new) \/ (q # <<>> /\ t.queue = InsertAfterHead(q, new))
  BY <1>4
<1>10. ASSUME NEW i \in DOMAIN t.queue
       PROVE  \/ t.queue[i] = new
              \/ \E j \in DOMAIN q : t.queue[i] = q[j] /\ (j = 1 => i = 1)
  <2>1. CASE t.queue = Append(q, new)
    BY <1>7, <1>10, <2>1, Zenon
  <2>2. CASE q # <<>> /\ t.queue = InsertAfterHead(q, new)
    BY <1>8, <1>10, <2>2, Zenon
  <2> QED BY <1>9, <2>1, <2>2
<1> QED BY <1>1, <1>2, <1>10

(* ... a proper one keeps the queue plain,                                 *)
LEMMA AddPlain ==
  ASSUME NEW s, Sound(s), Plain(s), NEW kind \in KindSet, Proper(kind),
         NEW t, t = at_queue_add(s, kind)
  PROVE  Plain(t)
<1>1. CASE kind.cmds = <<>>
  BY <1>1 DEF at_queue_add
<1>2. CASE kind.cmds # <<>>
  <2>1. Proper(NewTask(kind))
    <3>1. NewTask(kind).cmds = kind.cmds /\ NewTask(kind).at_once = kind.at_once
      BY DEF NewTask
    <3> QED BY <3>1, SameCommands
  <2>2. \A i \in DOMAIN t.queue :
           \/ t.queue[i] = NewTask(kind)
           \/ \E j \in DOMAIN s.queue : t.queue[i] = s.queue[j] /\ (j = 1 => i = 1)
    BY <1>2, AddedPlaces
  <2> QED BY <2>1, <2>2, Zenon DEF Plain
<1> QED BY <1>1, <1>2

(* ... and the modem waiting for text when the head is text.               *)
LEMMA AddMannered ==
  ASSUME NEW s, Sound(s), NEW pr \in BOOLEAN, Mannered(s, pr), NEW kind \in KindSet, Proper(kind),
         NEW t, t = at_queue_add(s, kind)
  PROVE  Mannered(t, pr)
<1>1. CASE s.queue # <<>>
  BY <1>1, AddKeepsHead, Zenon DEF Mannered, Texting, HeadSent, HeadLine
<1>2. CASE s.queue = <<>> /\ kind.cmds = <<>>
  BY <1>2 DEF at_queue_add
<1>3. CASE s.queue = <<>> /\ kind.cmds # <<>>
  <2>1. ~Texting(s) /\ ~HeadSent(s)
    BY <1>3 DEF Texting, HeadSent
  <2>2. ~pr
    BY <2>1, Zenon DEF Mannered
  <2>3. PICK new \in TaskSet : new = NewTask(kind) /\ InBounds(new)
    BY <1>3, NewTaskWaits DEF Waits
  <2>4. new.cmds = kind.cmds /\ new.at_once = kind.at_once /\ new.cindex = 0
    BY <2>3 DEF NewTask
  <2>5. Line(new) \notin MessageText
    BY <2>3, <2>4, ProperStart, SameCommands
  <2>6. t.queue = Append(s.queue, new)
    BY <1>3, <2>3 DEF at_queue_add, Sound, QueueSet
  <2>7. Head(t.queue) = new
    BY <1>3, <2>6
  <2>8. ~Texting(t)
    BY <2>5, <2>7, Zenon DEF Texting, HeadLine
  <2> QED BY <2>2, <2>8 DEF Mannered
<1> QED BY <1>1, <1>2, <1>3

(* Running the queue changes neither the commands nor the place.           *)
LEMMA RunSame ==
  ASSUME NEW s, Sound(s), NEW t, t = at_queue_run(s, TRUE)
  PROVE  (Texting(t) <=> Texting(s)) /\ (Plain(s) => Plain(t))
<1>1. CASE ~RunWrites(s)
  BY <1>1 DEF at_queue_run
<1>2. CASE RunWrites(s)
  <2>1. s.queue # <<>>
    BY <1>2, RunsWhenUnsent
  <2>2. PICK head : head = Head(s.queue)
    OBVIOUS
  <2>3. /\ head \in TaskSet /\ head.cindex \in Nat /\ s.queue \in Seq(TaskSet)
        /\ DOMAIN head.cmds = 1 .. Len(head.cmds) /\ Len(head.cmds) \in Nat \ {0}
    BY <2>1, <2>2, HeadFacts, LenProperties DEF TaskSet, Sound, QueueSet
  <2>4. PICK done : done = IF head.at_once THEN DOMAIN head.cmds ELSE head.sent \cup {head.cindex + 1}
    OBVIOUS
  <2>5. PICK task : task = [head EXCEPT !.sent = done]
    OBVIOUS
  <2>6. task.cmds = head.cmds /\ task.at_once = head.at_once /\ task.cindex = head.cindex
    BY <2>3, <2>5 DEF TaskSet
  <2>7. PICK queue : queue = [s.queue EXCEPT ![1] = task]
    OBVIOUS
  <2>8. t.queue = queue
    <3>1. PICK next : next = WithHead(s, task)
      OBVIOUS
    <3>2. next = [s EXCEPT !.queue = queue]
      BY <2>7, <3>1 DEF WithHead
    <3>3. t = [next EXCEPT !.tx = Append(@, Line(head))]
      BY <1>2, <2>2, <2>4, <2>5, <3>1 DEF at_queue_run
    <3> QED BY <3>2, <3>3 DEF Sound, QueueSet
  <2>9. /\ DOMAIN queue = DOMAIN s.queue /\ 1 \in DOMAIN s.queue /\ queue[1] = task
        /\ s.queue[1] = head /\ \A i \in DOMAIN s.queue : i # 1 => queue[i] = s.queue[i]
    BY <2>1, <2>2, <2>3, <2>7, LenProperties, EmptySeq
  <2>10. queue # <<>> /\ Head(queue) = task
    BY <2>3, <2>7, <2>9
  <2>11. Line(task) = Line(head)
    BY <2>6 DEF Line, at_queue_task_cmd, CurrentIndex
  <2>12. Texting(t) <=> Texting(s)
    BY <2>1, <2>2, <2>8, <2>10, <2>11 DEF Texting, HeadLine
  <2>13. (Proper(task) <=> Proper(head)) /\ (Escape(task) <=> Escape(head))
    BY <2>6, SameCommands
  <2>14. Plain(s) => Plain(t)
    BY <2>8, <2>9, <2>13, Zenon DEF Plain
  <2> QED BY <2>12, <2>14
<1> QED BY <1>1, <1>2

(* ... so it writes text exactly when the modem waits for text.            *)
LEMMA RunMannered ==
  ASSUME NEW s, Sound(s), NEW pr \in BOOLEAN, Mannered(s, pr), NEW t, t = at_queue_run(s, TRUE)
  PROVE  Mannered(t, pr)
<1>1. CASE ~RunWrites(s)
  BY <1>1 DEF at_queue_run
<1>2. CASE RunWrites(s)
  <2>1. ~HeadSent(s)
    BY <1>2, RunsWhenUnsent
  <2> QED BY <2>1, RunSame, Zenon DEF Mannered
<1> QED BY <1>1, <1>2

(* Enqueueing a proper task.                                               *)
LEMMA InsertMannered ==
  ASSUME NEW s, Sound(s), Plain(s), NEW pr \in BOOLEAN, Mannered(s, pr),
         NEW kind \in KindSet, Proper(kind), NEW t, t = at_queue_insert(s, kind, TRUE)
  PROVE  Plain(t) /\ Mannered(t, pr)
<1>1. PICK u : u = at_queue_add(s, kind)
  OBVIOUS
<1>2. Sound(u) /\ Plain(u) /\ Mannered(u, pr)
  BY <1>1, AddSound, AddPlain, AddMannered
<1>3. PICK v : v = at_queue_run(u, TRUE)
  OBVIOUS
<1>4. Plain(v) /\ Mannered(v, pr)
  BY <1>2, <1>3, RunSame, RunMannered
<1>5. t = u \/ t = v
  BY <1>1, <1>3 DEF at_queue_insert
<1> QED BY <1>2, <1>4, <1>5

(* ... and up to four.                                                     *)
LEMMA Insert4Mannered ==
  ASSUME NEW s, Sound(s), Plain(s), NEW pr \in BOOLEAN, Mannered(s, pr),
         NEW tasks \in Tasks4Set, Proper4(tasks), NEW t, t = Insert4(s, tasks, TRUE)
  PROVE  Plain(t) /\ Mannered(t, pr)
<1>1. tasks.t1 \in KindSet /\ tasks.t2 \in KindSet /\ tasks.t3 \in KindSet /\ tasks.t4 \in KindSet
  BY DEF Tasks4Set
<1>2. PICK s1 : s1 = at_queue_insert(s, tasks.t1, TRUE)
  OBVIOUS
<1>3. PICK s2 : s2 = at_queue_insert(s1, tasks.t2, TRUE)
  OBVIOUS
<1>4. PICK s3 : s3 = at_queue_insert(s2, tasks.t3, TRUE)
  OBVIOUS
<1>5. PICK s4 : s4 = at_queue_insert(s3, tasks.t4, TRUE)
  OBVIOUS
<1>a. ASSUME NEW u, Sound(u), Plain(u), Mannered(u, pr), NEW kind \in KindSet, Proper(kind),
             NEW v, v = at_queue_insert(u, kind, TRUE)
      PROVE  Sound(v) /\ Plain(v) /\ Mannered(v, pr)
  <2>1. Sound(v)
    BY <1>a, InsertSound
  <2>2. Plain(v) /\ Mannered(v, pr)
    BY <1>a, InsertMannered
  <2> QED BY <2>1, <2>2
<1>b. Proper(tasks.t1) /\ Proper(tasks.t2) /\ Proper(tasks.t3) /\ Proper(tasks.t4)
  BY DEF Proper4
<1>6. Sound(s1) /\ Plain(s1) /\ Mannered(s1, pr)
  BY <1>1, <1>2, <1>a, <1>b, Zenon
<1>7. Sound(s2) /\ Plain(s2) /\ Mannered(s2, pr)
  BY <1>1, <1>3, <1>6, <1>a, <1>b, Zenon
<1>8. Sound(s3) /\ Plain(s3) /\ Mannered(s3, pr)
  BY <1>1, <1>4, <1>7, <1>a, <1>b, Zenon
<1>9. Plain(s4) /\ Mannered(s4, pr)
  BY <1>1, <1>5, <1>8, <1>a, <1>b, Zenon
<1> QED BY <1>2, <1>3, <1>4, <1>5, <1>9, Zenon DEF Insert4

-----------------------------------------------------------------------------
(* A result moves the head on.                                             *)

(* The task leaves: what follows has not begun, and is no text.            *)
LEMMA RemovePlain ==
  ASSUME NEW s, TailSound(s), s.queue # <<>>, NEW t, t = at_queue_remove(s),
         \A i \in DOMAIN s.queue : i # 1 => Proper(s.queue[i])
  PROVE  Plain(t) /\ ~Texting(t)
<1>1. PICK q \in Seq(TaskSet) : q = s.queue /\ \A i \in 2 .. Len(q) : Waits(q[i])
  BY DEF TailSound, QueueSet
<1>2. t.queue = Tail(q)
  BY <1>1 DEF at_queue_remove, TailSound, QueueSet
<1>3. /\ Len(q) \in Nat \ {0} /\ DOMAIN q = 1 .. Len(q)
      /\ Tail(q) \in Seq(TaskSet) /\ Len(Tail(q)) = Len(q) - 1
      /\ \A i \in 1 .. Len(Tail(q)) : Tail(q)[i] = q[i + 1]
  BY <1>1, HeadTailProperties, LenProperties, EmptySeq
<1>4. PICK u \in Seq(TaskSet) : u = Tail(q) /\ DOMAIN u = 1 .. Len(q) - 1
  BY <1>3, LenProperties
<1>5. \A i \in DOMAIN u : u[i] = q[i + 1] /\ i + 1 \in DOMAIN q /\ i + 1 \in 2 .. Len(q) /\ i + 1 # 1
  BY <1>3, <1>4
<1>6. \A i \in DOMAIN u : Proper(u[i]) /\ Waits(u[i])
  BY <1>1, <1>5
<1>7. Plain(t)
  BY <1>2, <1>4, <1>6, Zenon DEF Plain
<1>8. ~Texting(t)
  <2> SUFFICES ASSUME u # <<>> PROVE Line(Head(u)) \notin MessageText
    BY <1>2, <1>4 DEF Texting, HeadLine
  <2>1. 1 \in DOMAIN u /\ Head(u) = u[1] /\ u[1] \in TaskSet
    BY <1>4, LenProperties, EmptySeq
  <2>2. Proper(u[1]) /\ InBounds(u[1]) /\ u[1].cindex = 0
    BY <1>6, <2>1 DEF Waits, Untouched
  <2> QED BY <2>1, <2>2, ProperStart
<1> QED BY <1>7, <1>8

(* The task stays, further on.                                             *)
LEMMA AdvancePlain ==
  ASSUME NEW s, Sound(s), s.queue # <<>>, NEW n \in Nat, NEW t, t = Advance(s, n)
  PROVE  /\ TailSound(t) /\ t.queue # <<>> /\ DOMAIN t.queue = DOMAIN s.queue
         /\ Head(t.queue) = t.queue[1] /\ t.queue[1] \in TaskSet
         /\ t.queue[1].cmds = s.queue[1].cmds /\ t.queue[1].at_once = s.queue[1].at_once
         /\ t.queue[1].cindex = IF s.queue[1].at_once THEN n ELSE s.queue[1].cindex + n
         /\ \A i \in DOMAIN s.queue : i # 1 => t.queue[i] = s.queue[i]
<1>1. TailSound(t)
  BY AdvanceSound
<1>2. PICK q \in Seq(TaskSet) : q = s.queue /\ Len(q) \in Nat \ {0} /\ DOMAIN q = 1 .. Len(q)
  BY LenProperties, EmptySeq DEF Sound, QueueSet
<1>3. PICK head \in TaskSet : head = q[1] /\ Head(s.queue) = head
  BY <1>2
<1>a. PICK c \in Nat : c = IF head.at_once THEN n ELSE head.cindex + n
  BY <1>3 DEF TaskSet
<1>4. PICK task : task = [head EXCEPT !.cindex = c]
  OBVIOUS
<1>5. task.cmds = head.cmds /\ task.at_once = head.at_once /\ task.cindex = c /\ task \in TaskSet
  BY <1>3, <1>4 DEF TaskSet
<1>6. PICK next : next = WithHead(s, task)
  OBVIOUS
<1>7. next = [s EXCEPT !.queue = [q EXCEPT ![1] = task]]
  BY <1>2, <1>6 DEF WithHead
<1>8. t = [next EXCEPT !.at_cmds = UintSub(@, n)]
  BY <1>3, <1>4, <1>6, <1>a DEF Advance
<1>9. t.queue = [q EXCEPT ![1] = task]
  BY <1>7, <1>8 DEF Sound, QueueSet
<1>10. DOMAIN t.queue = DOMAIN q /\ t.queue[1] = task /\ \A i \in DOMAIN q : i # 1 => t.queue[i] = q[i]
  BY <1>2, <1>9
<1>11. t.queue \in Seq(TaskSet) /\ t.queue # <<>> /\ Head(t.queue) = t.queue[1]
  <2>1. t.queue \in Seq(TaskSet)
    BY <1>1 DEF TailSound, QueueSet
  <2>2. Len(t.queue) = Len(q)
    BY <1>2, <1>10, <2>1, LenProperties
  <2> QED BY <1>2, <2>1, <2>2
<1> QED BY <1>1, <1>2, <1>3, <1>5, <1>10, <1>11, <1>a

(* The commands around the one a task is at.                               *)
LEMMA AtCommand ==
  ASSUME NEW s, Sound(s), s.queue # <<>>, Proper(Head(s.queue)), NEW task, task = Head(s.queue)
  PROVE  /\ task.at_once => Line(task) \notin {"CMGS", "SMSTEXT", "CNMA", "ESC"}
         /\ ~task.at_once => ProperCommand(task, task.cindex + 1)
         /\ Line(task) # "ESC"
<1>1. /\ task \in TaskSet /\ InBounds(task) /\ Len(task.cmds) \in Nat \ {0}
      /\ DOMAIN task.cmds = 1 .. Len(task.cmds) /\ task.cindex \in Nat
  BY HeadFacts, LenProperties DEF TaskSet
<1>2. CurrentIndex(task) \in DOMAIN task.cmds
  BY <1>1 DEF InBounds, CurrentIndex
<1>3. ProperCommand(task, CurrentIndex(task))
  BY <1>2 DEF Proper
<1>4. /\ Line(task) # "ESC"
      /\ Line(task) \in {"CMGS", "SMSTEXT", "CNMA"} => ~task.at_once
  BY <1>3 DEF ProperCommand, Line, at_queue_task_cmd
<1>5. ~task.at_once => CurrentIndex(task) = task.cindex + 1
  BY DEF CurrentIndex
<1> QED BY <1>3, <1>4, <1>5

(* After a result the next command is text only if the result was the      *)
(* prompt that AT+CMGS waits for, and then it is.                          *)
LEMMA RemoveCmdTurn ==
  ASSUME NEW s, Sound(s), Plain(s), s.queue # <<>>, NEW res \in Finals,
         NEW t, t = at_queue_remove_cmd(s, res)
  PROVE  Plain(t) /\ (Texting(t) <=> HeadLine(s) = "CMGS" /\ res = "PROMPT")
<1>1. PICK head : head = Head(s.queue)
  OBVIOUS
<1>2. /\ head \in TaskSet /\ InBounds(head) /\ Len(head.cmds) \in Nat \ {0} /\ head.cindex \in Nat
      /\ DOMAIN head.cmds = 1 .. Len(head.cmds)
      /\ s.queue \in Seq(TaskSet)
  BY <1>1, HeadFacts, LenProperties DEF TaskSet, Sound, QueueSet
<1>3. 1 \in DOMAIN s.queue /\ s.queue[1] = head
  BY <1>1, <1>2, LenProperties, EmptySeq
<1>4. /\ \A i \in DOMAIN s.queue : i # 1 => Proper(s.queue[i])
      /\ Proper(head) \/ Escape(head)
  BY <1>3, Zenon DEF Plain
<1>5. ASSUME NEW n \in Nat, NEW u, u = Advance(s, n)
      PROVE  /\ Plain(at_queue_remove(u)) /\ ~Texting(at_queue_remove(u))
             /\ Plain(u) /\ u.queue # <<>>
             /\ Head(u.queue).cmds = head.cmds /\ Head(u.queue).at_once = head.at_once
             /\ Head(u.queue).cindex = IF head.at_once THEN n ELSE head.cindex + n
  <2>1. /\ TailSound(u) /\ u.queue # <<>> /\ DOMAIN u.queue = DOMAIN s.queue
        /\ Head(u.queue) = u.queue[1] /\ u.queue[1].cmds = head.cmds
        /\ u.queue[1].at_once = head.at_once
        /\ u.queue[1].cindex = IF head.at_once THEN n ELSE head.cindex + n
        /\ \A i \in DOMAIN s.queue : i # 1 => u.queue[i] = s.queue[i]
    BY <1>3, <1>5, AdvancePlain
  <2>2. \A i \in DOMAIN u.queue : i # 1 => Proper(u.queue[i])
    BY <1>4, <2>1
  <2>3. Proper(u.queue[1]) \/ Escape(u.queue[1])
    BY <1>4, <2>1, SameCommands
  <2>4. Plain(u)
    BY <2>2, <2>3, Zenon DEF Plain
  <2>5. Plain(at_queue_remove(u)) /\ ~Texting(at_queue_remove(u))
    BY <2>1, <2>2, RemovePlain
  <2> QED BY <2>1, <2>4, <2>5
<1>6. CASE head.at_once
  <2>1. Proper(head) /\ Line(head) \notin {"CMGS", "SMSTEXT", "CNMA", "ESC"}
    BY <1>1, <1>4, <1>6, AtCommand DEF Escape
  <2>2. HeadLine(s) # "CMGS"
    BY <1>1, <2>1 DEF HeadLine
  <2>3. PICK u : u = Advance(s, Len(head.cmds))
    OBVIOUS
  <2>4. /\ Plain(at_queue_remove(u)) /\ ~Texting(at_queue_remove(u)) /\ Plain(u)
        /\ Head(u.queue).cmds = head.cmds /\ Head(u.queue).at_once = head.at_once
    BY <1>2, <1>5, <2>3
  <2>5. Line(Head(u.queue)) = Line(head)
    BY <1>6, <2>4 DEF Line, at_queue_task_cmd, CurrentIndex
  <2>6. ~Texting(u)
    BY <2>1, <2>5 DEF Texting, HeadLine, MessageText
  <2>7. t = at_queue_remove(u) \/ t = u
    BY <1>1, <1>6, <2>3 DEF at_queue_remove_cmd, RemoveCmdAtOnce
  <2> QED BY <2>2, <2>4, <2>6, <2>7
<1>7. CASE ~head.at_once
  <2>1. HeadLine(s) = head.cmds[head.cindex + 1].cmd
    BY <1>1, <1>7 DEF HeadLine, Line, at_queue_task_cmd, CurrentIndex
  <2>2. PICK u : u = Advance(s, 1)
    OBVIOUS
  <2>3. /\ Plain(at_queue_remove(u)) /\ ~Texting(at_queue_remove(u)) /\ Plain(u) /\ u.queue # <<>>
        /\ Head(u.queue).cmds = head.cmds /\ ~Head(u.queue).at_once
        /\ Head(u.queue).cindex = head.cindex + 1
    BY <1>5, <1>7, <2>2
  <2>4. res # "TIMEOUT"
    BY DEF Finals
  <2>5. t = IF \/ head.cindex + 1 >= Len(head.cmds)
               \/ head.cmds[head.cindex + 1].res # res /\ ~head.cmds[head.cindex + 1].ignore
            THEN at_queue_remove(u) ELSE u
    BY <1>1, <1>7, <2>2, <2>4 DEF at_queue_remove_cmd, RemoveCmdInOrder
  <2>6. HeadLine(u) = head.cmds[head.cindex + 2].cmd
    BY <1>2, <2>3 DEF HeadLine, Line, at_queue_task_cmd, CurrentIndex
  <2>7. CASE Escape(head)
    <3>1. Len(head.cmds) = 1 /\ head.cmds[1].cmd = "ESC"
      BY <2>7 DEF Escape, Cmd, Command
    <3>2. head.cindex = 0
      BY <1>2, <1>7, <3>1 DEF InBounds
    <3>3. t = at_queue_remove(u) /\ HeadLine(s) = "ESC"
      BY <2>1, <2>5, <3>1, <3>2
    <3> QED BY <2>3, <3>3
  <2>8. CASE Proper(head)
    <3>1. ProperCommand(head, head.cindex + 1)
      BY <1>1, <1>7, <2>8, AtCommand
    <3>2. CASE HeadLine(s) = "CMGS"
      <4>1. /\ head.cmds[head.cindex + 1].res = "PROMPT" /\ ~head.cmds[head.cindex + 1].ignore
            /\ head.cindex + 1 + 1 \in DOMAIN head.cmds
            /\ head.cmds[head.cindex + 1 + 1].cmd = "SMSTEXT"
        BY <2>1, <3>1, <3>2 DEF ProperCommand
      <4>2. head.cindex + 1 + 1 = head.cindex + 2 /\ ~(head.cindex + 1 >= Len(head.cmds))
        BY <1>2, <4>1
      <4>3. CASE res = "PROMPT"
        <5>1. t = u /\ HeadLine(u) = "SMSTEXT"
          BY <2>5, <2>6, <4>1, <4>2, <4>3
        <5> QED BY <2>3, <3>2, <4>3, <5>1 DEF Texting, MessageText
      <4>4. CASE res # "PROMPT"
        BY <2>3, <2>5, <4>1, <4>4
      <4> QED BY <4>3, <4>4
    <3>3. CASE HeadLine(s) # "CMGS"
      <4>1. CASE head.cindex + 1 >= Len(head.cmds)
        BY <2>3, <2>5, <3>3, <4>1
      <4>2. CASE head.cindex + 1 < Len(head.cmds)
        <5>1. PICK k \in DOMAIN head.cmds : k = head.cindex + 2 /\ k - 1 = head.cindex + 1
          BY <1>2, <4>2
        <5>2. ProperCommand(head, k)
          BY <2>8, <5>1 DEF Proper
        <5>3. head.cmds[k].cmd \notin MessageText
          <6>1. /\ head.cmds[k].cmd # "ESC"
                /\ head.cmds[k].cmd = "SMSTEXT" => head.cmds[k - 1].cmd = "CMGS"
            BY <5>2 DEF ProperCommand
          <6>2. head.cmds[k - 1].cmd # "CMGS"
            BY <2>1, <3>3, <5>1
          <6> QED BY <6>1, <6>2 DEF MessageText
        <5>4. ~Texting(u)
          BY <2>6, <5>1, <5>3 DEF Texting
        <5> QED BY <2>3, <2>5, <3>3, <5>4
      <4> QED BY <1>2, <4>1, <4>2
    <3> QED BY <3>2, <3>3
  <2> QED BY <1>4, <2>7, <2>8
<1> QED BY <1>6, <1>7

(* The escape comes right after the acknowledgement it cancels.            *)
LEMMA EscapeTurn ==
  ASSUME NEW s, Sound(s), Plain(s), HeadSent(s), HeadLine(s) = "CNMA",
         NEW t, t = at_queue_remove_cmd(at_queue_insert(s, at_enqueue_escape, TRUE), "OK")
  PROVE  Plain(t) /\ Texting(t)
<1>1. PICK q \in Seq(TaskSet) : q = s.queue /\ q # <<>> /\ Len(q) \in Nat \ {0} /\ DOMAIN q = 1 .. Len(q)
  BY LenProperties, EmptySeq DEF Sound, QueueSet, HeadSent
<1>1a. Len(q) \in Nat /\ Len(q) >= 1
  BY <1>1
<1>2. PICK head \in TaskSet : head = q[1] /\ head = Head(s.queue)
  BY <1>1
<1>3. Proper(head)
  <2>1. Proper(head) \/ Escape(head)
    BY <1>1, <1>2 DEF Plain
  <2>2. ASSUME Escape(head) PROVE FALSE
    <3>1. Len(head.cmds) = 1 /\ head.cmds[1].cmd = "ESC" /\ ~head.at_once
      BY <2>2 DEF Escape, Cmd, Command
    <3>2. head.cindex = 0
      <4>1. InBounds(head) /\ head.cindex \in Nat
        BY <1>1, <1>2, HeadFacts DEF TaskSet
      <4> QED BY <3>1, <4>1 DEF InBounds
    <3>3. HeadLine(s) = "ESC"
      BY <1>2, <3>1, <3>2 DEF HeadLine, Line, at_queue_task_cmd, CurrentIndex
    <3> QED BY <3>3
  <2> QED BY <2>1, <2>2
<1>4. ~head.at_once /\ ProperCommand(head, head.cindex + 1) /\ head.cindex \in Nat
  BY <1>1, <1>2, <1>3, AtCommand DEF HeadLine, TaskSet
<1>5. head.cindex + 1 = Len(head.cmds)
  BY <1>2, <1>4 DEF ProperCommand, HeadLine, Line, at_queue_task_cmd, CurrentIndex
<1>6. PICK new \in TaskSet : new = NewTask(at_enqueue_escape)
  BY HandlerKinds, NewTaskWaits DEF at_enqueue_escape, AfterHead, Kind
<1>7. Escape(new) /\ new.cindex = 0
  BY <1>6 DEF NewTask, Escape, at_enqueue_escape, AfterHead, Kind
<1>8. PICK a : a = at_queue_add(s, at_enqueue_escape)
  OBVIOUS
<1>9. Sound(a) /\ a.queue = InsertAfterHead(q, new) /\ HeadSent(a)
  <2>1. at_enqueue_escape.prio = TRUE /\ at_enqueue_escape.cmds # <<>>
    BY DEF at_enqueue_escape, AfterHead, Kind
  <2>2. a.queue = InsertAfterHead(q, new)
    BY <1>1, <1>6, <1>8, <2>1 DEF at_queue_add, Sound, QueueSet
  <2>3. Sound(a) /\ Head(a.queue) = Head(s.queue) /\ a.queue # <<>>
    BY <1>1, <1>8, HandlerKinds, AddSound, AddKeepsHead
  <2> QED BY <2>2, <2>3 DEF HeadSent
<1>10. at_queue_insert(s, at_enqueue_escape, TRUE) = a
  <2>1. at_queue_run(a, TRUE) = a
    BY <1>9, RunsWhenUnsent DEF at_queue_run
  <2> QED BY <1>8, <2>1 DEF at_queue_insert
<1>11. /\ a.queue # <<>> /\ DOMAIN a.queue = 1 .. Len(q) + 1
       /\ a.queue[1] = head /\ a.queue[2] = new
       /\ \A i \in 3 .. Len(q) + 1 : a.queue[i] = q[i - 1]
  BY <1>1, <1>2, <1>9 DEF InsertAfterHead, HeadSent
<1>12. Head(a.queue) = head
  BY <1>9, <1>11 DEF Sound, QueueSet
<1>13. PICK u : u = Advance(a, 1)
  OBVIOUS
<1>14. /\ TailSound(u) /\ u.queue # <<>> /\ DOMAIN u.queue = 1 .. Len(q) + 1
       /\ u.queue[2] = new /\ \A i \in 3 .. Len(q) + 1 : u.queue[i] = q[i - 1]
  <2>1. /\ TailSound(u) /\ u.queue # <<>> /\ DOMAIN u.queue = DOMAIN a.queue
        /\ \A i \in DOMAIN a.queue : i # 1 => u.queue[i] = a.queue[i]
    BY <1>9, <1>11, <1>13, AdvancePlain
  <2>2. 2 \in DOMAIN a.queue /\ \A i \in 3 .. Len(q) + 1 : i \in DOMAIN a.queue /\ i # 1
    BY <1>11, <1>1a
  <2> QED BY <1>11, <2>1, <2>2
<1>15. t = at_queue_remove(u)
  <2>1. head.cindex + 1 >= Len(head.cmds)
    BY <1>4, <1>5
  <2>2. t = RemoveCmdInOrder(a, "OK")
    BY <1>4, <1>10, <1>11, <1>12 DEF at_queue_remove_cmd
  <2> QED BY <1>12, <1>13, <2>1, <2>2 DEF RemoveCmdInOrder
<1>16. u.queue \in Seq(TaskSet) /\ t.queue = Tail(u.queue)
  BY <1>14, <1>15 DEF at_queue_remove, TailSound, QueueSet
<1>17. /\ t.queue \in Seq(TaskSet) /\ Len(t.queue) = Len(q) /\ DOMAIN t.queue = 1 .. Len(q)
       /\ t.queue[1] = new /\ \A i \in 2 .. Len(q) : t.queue[i] = q[i]
  <2>1. Len(u.queue) = Len(q) + 1
    BY <1>1, <1>14, <1>16, LenProperties
  <2>2. /\ t.queue \in Seq(TaskSet) /\ Len(t.queue) = Len(q)
        /\ \A i \in 1 .. Len(q) : t.queue[i] = u.queue[i + 1]
    <3>1. /\ Tail(u.queue) \in Seq(TaskSet) /\ Len(Tail(u.queue)) = Len(u.queue) - 1
          /\ \A i \in 1 .. Len(Tail(u.queue)) : Tail(u.queue)[i] = u.queue[i + 1]
      BY <1>14, <1>16, HeadTailProperties
    <3>2. Len(Tail(u.queue)) = Len(q)
      BY <1>1a, <2>1, <3>1
    <3> QED BY <1>16, <3>1, <3>2
  <2>3. DOMAIN t.queue = 1 .. Len(q)
    BY <2>2, LenProperties
  <2>4. \A i \in 2 .. Len(q) : i + 1 \in 3 .. Len(q) + 1 /\ i + 1 - 1 = i
    BY <1>1a
  <2>5. t.queue[1] = new
    <3>1. 1 \in 1 .. Len(q) /\ 1 + 1 = 2
      BY <1>1a
    <3> QED BY <1>14, <2>2, <3>1
  <2>6. \A i \in 2 .. Len(q) : t.queue[i] = q[i]
    <3>1. \A i \in 2 .. Len(q) : i \in 1 .. Len(q)
      BY <1>1a
    <3>2. ASSUME NEW i \in 2 .. Len(q) PROVE t.queue[i] = q[i]
      <4>1. t.queue[i] = u.queue[i + 1]
        BY <2>2, <3>1, <3>2
      <4>2. u.queue[i + 1] = q[i + 1 - 1]
        BY <1>14, <2>4, <3>2
      <4>3. i + 1 - 1 = i
        BY <2>4, <3>2
      <4> QED BY <4>1, <4>2, <4>3
    <3> QED BY <3>2
  <2> QED BY <2>2, <2>3, <2>5, <2>6
<1>18. Plain(t)
  <2>1. \A i \in 2 .. Len(q) : Proper(q[i])
    BY <1>1 DEF Plain
  <2>2. \A i \in DOMAIN t.queue : i = 1 \/ i \in 2 .. Len(q)
    <3>1. \A i \in 1 .. Len(q) : i = 1 \/ i \in 2 .. Len(q)
      BY <1>1a
    <3> QED BY <1>17, <3>1
  <2> QED BY <1>7, <1>17, <2>1, <2>2, Zenon DEF Plain
<1>19. Texting(t)
  <2>1. t.queue # <<>> /\ Head(t.queue) = new
    <3>1. PICK w \in Seq(TaskSet) : w = t.queue /\ Len(w) = Len(q) /\ w[1] = new
      BY <1>17
    <3>2. w # <<>>
      <4>1. PICK n \in Nat : n = Len(q) /\ n # 0
        BY <1>1a
      <4> QED BY <3>1, <4>1, EmptySeq
    <3>3. Head(w) = w[1]
      BY <3>1, <3>2
    <3> QED BY <3>1, <3>2, <3>3
  <2>2. Line(new) = "ESC"
    BY <1>7 DEF Escape, Line, at_queue_task_cmd, CurrentIndex, Cmd, Command
  <2> QED BY <2>1, <2>2 DEF Texting, HeadLine, MessageText
<1> QED BY <1>18, <1>19

-----------------------------------------------------------------------------
(* What the handlers enqueue is proper.                                    *)

(* An ordinary command is proper wherever it stands.                       *)
LEMMA OrdinaryCommand ==
  ASSUME NEW task, NEW i, NEW cmd \in at_cmd_t \ {"CMGS", "SMSTEXT", "CNMA", "ESC"},
         task.cmds[i] = Cmd(cmd) \/ task.cmds[i] = CmdI(cmd)
  PROVE  ProperCommand(task, i)
<1>1. task.cmds[i].cmd = cmd /\ task.cmds[i].res = "OK"
  BY DEF Cmd, CmdI, Command
<1> QED BY <1>1 DEF ProperCommand

(* One of them is a proper task, and so are two.                           *)
LEMMA OrdinaryTask ==
  ASSUME NEW task,
         NEW c \in at_cmd_t \ {"CMGS", "SMSTEXT", "CNMA", "ESC"},
         NEW d \in at_cmd_t \ {"CMGS", "SMSTEXT", "CNMA", "ESC"},
         \/ task.cmds = <<Cmd(c)>>
         \/ task.cmds = <<CmdI(c)>>
         \/ task.cmds = <<Cmd(c), Cmd(d)>>
         \/ task.cmds = <<>>
  PROVE  Proper(task)
<1>1. ASSUME NEW i \in DOMAIN task.cmds
      PROVE  \/ task.cmds[i] = Cmd(c) \/ task.cmds[i] = CmdI(c)
             \/ task.cmds[i] = Cmd(d) \/ task.cmds[i] = CmdI(d)
  BY <1>1
<1>2. ASSUME NEW i \in DOMAIN task.cmds PROVE ProperCommand(task, i)
  BY <1>1, <1>2, OrdinaryCommand
<1> QED BY <1>2 DEF Proper

(* So is every task a handler of a result enqueues.                        *)
LEMMA HandlersProper ==
  /\ Proper(NoTask)
  /\ Proper(at_enqueue_list_messages) /\ Proper(at_enqueue_csq)
  /\ Proper(at_enqueue_enable_uac) /\ Proper(at_enqueue_enable_tty)
  /\ Proper(at_enqueue_cpcmfrm(FALSE))
  /\ \A on \in BOOLEAN : Proper(at_enqueue_cpcmreg(on))
  /\ Proper(at_enqueue_query_cgains) /\ Proper(at_enqueue_query_qgains)
  /\ Proper(at_enqueue_delete_sms(FALSE)) /\ Proper(at_enqueue_hangup(FALSE, TRUE))
  /\ \A gains \in BOOLEAN :
       Proper(at_enqueue_cgains(gains, gains)) /\ Proper(at_enqueue_qgains(gains, gains))
<1> DEFINE Plainly == at_cmd_t \ {"CMGS", "SMSTEXT", "CNMA", "ESC"}
<1>0. {"CMGL", "CSQ", "QPCMV_UAC", "QPCMV_TTY", "CPCMFRM_8K", "CPCMREG0", "CPCMREG1",
       "COUTGAIN", "CMICGAIN", "QMIC", "QRXGAIN", "CMGD", "QHUP"} \subseteq Plainly
  BY DEF at_cmd_t
<1> HIDE DEF Plainly
<1>1. ASSUME NEW task, NEW c \in Plainly, task.cmds = <<Cmd(c)>> \/ task.cmds = <<CmdI(c)>>
      PROVE  Proper(task)
  BY <1>1, OrdinaryTask DEF Plainly
<1>2. ASSUME NEW task, NEW c \in Plainly, NEW d \in Plainly, task.cmds = <<Cmd(c), Cmd(d)>>
      PROVE  Proper(task)
  BY <1>2, OrdinaryTask DEF Plainly
<1>3. \A cmds : /\ AtTail(cmds).cmds = cmds /\ AfterHead(cmds).cmds = cmds
                /\ AtOnce(cmds).cmds = cmds /\ AddOnly(cmds).cmds = cmds
  BY DEF AtTail, AfterHead, AtOnce, AddOnly, Kind
<1>4. Proper(NoTask)
  <2>1. NoTask.cmds = <<>>
    BY <1>3 DEF NoTask
  <2> QED BY <2>1 DEF Proper
<1>5. Proper(at_enqueue_list_messages) /\ Proper(at_enqueue_csq)
  BY <1>0, <1>1, <1>3 DEF at_enqueue_list_messages, at_enqueue_csq
<1>6. Proper(at_enqueue_enable_uac) /\ Proper(at_enqueue_enable_tty)
  BY <1>0, <1>1, <1>3 DEF at_enqueue_enable_uac, at_enqueue_enable_tty
<1>7. Proper(at_enqueue_cpcmfrm(FALSE))
  <2>1. at_enqueue_cpcmfrm(FALSE).cmds = <<Cmd("CPCMFRM_8K")>>
    BY <1>3 DEF at_enqueue_cpcmfrm
  <2> QED BY <1>0, <1>1, <2>1
<1>8. \A on \in BOOLEAN : Proper(at_enqueue_cpcmreg(on))
  <2>1. Proper(AfterHead(<<Cmd("CPCMREG1")>>)) /\ Proper(AfterHead(<<Cmd("CPCMREG0")>>))
    BY <1>0, <1>1, <1>3
  <2> QED BY <2>1 DEF at_enqueue_cpcmreg
<1>9. Proper(at_enqueue_query_cgains) /\ Proper(at_enqueue_query_qgains)
  BY <1>0, <1>2, <1>3 DEF at_enqueue_query_cgains, at_enqueue_query_qgains
<1>10. Proper(at_enqueue_delete_sms(FALSE))
  <2>1. <<CmdI("CMGD")>> \in Seq(CommandSet)
    BY CommandTypes DEF at_cmd_t
  <2>2. <<>> \o <<CmdI("CMGD")>> = <<CmdI("CMGD")>>
    BY <2>1, ConcatEmptySeq
  <2>3. at_enqueue_delete_sms(FALSE).cmds = <<CmdI("CMGD")>>
    BY <1>3, <2>2 DEF at_enqueue_delete_sms, If
  <2> QED BY <1>0, <1>1, <2>3
<1>11. Proper(at_enqueue_hangup(FALSE, TRUE))
  BY <1>0, <1>1, <1>3 DEF at_enqueue_hangup, at_enqueue_qhup
<1>12. ASSUME NEW gains \in BOOLEAN, NEW c \in Plainly, NEW d \in Plainly
       PROVE  Proper(AddOnly(If(gains, <<Cmd(c)>>) \o If(gains, <<Cmd(d)>>)))
  <2>1. CASE gains
    <3>1. <<Cmd(c)>> \in Seq({Cmd(c), Cmd(d)}) /\ <<Cmd(d)>> \in Seq({Cmd(c), Cmd(d)})
      OBVIOUS
    <3>2. PICK r \in Seq({Cmd(c), Cmd(d)}) : r = <<Cmd(c)>> \o <<Cmd(d)>>
      BY <3>1, ConcatProperties
    <3>3. \A i \in DOMAIN r : r[i] = Cmd(c) \/ r[i] = Cmd(d)
      BY <3>2
    <3>4. PICK task : task = AddOnly(r)
      OBVIOUS
    <3>5. task.cmds = r
      BY <1>3, <3>4
    <3>6. ASSUME NEW i \in DOMAIN task.cmds PROVE ProperCommand(task, i)
      BY <3>3, <3>5, <3>6, OrdinaryCommand DEF Plainly
    <3>7. Proper(task)
      BY <3>6 DEF Proper
    <3> QED BY <2>1, <3>2, <3>4, <3>7 DEF If
  <2>2. CASE ~gains
    <3>1. <<>> \o <<>> = <<>>
      OBVIOUS
    <3> QED BY <1>4, <2>2, <3>1 DEF If, NoTask
  <2> QED BY <2>1, <2>2
<1>13. ASSUME NEW gains \in BOOLEAN
       PROVE  Proper(at_enqueue_cgains(gains, gains)) /\ Proper(at_enqueue_qgains(gains, gains))
  BY <1>0, <1>12 DEF at_enqueue_cgains, at_enqueue_qgains
<1> QED BY <1>4, <1>5, <1>6, <1>7, <1>8, <1>9, <1>10, <1>11, <1>13

(* A text message of any number of parts is one: the prompts and the texts *)
(* alternate.                                                              *)
LEMMA MessagesProper ==
  ASSUME NEW parts \in Nat
  PROVE  Proper(at_enqueue_sms(parts))
<1>1. PICK cmds : cmds = [i \in 1 .. 2 * parts |->
                            IF i % 2 = 1 THEN Command("CMGS", "PROMPT", FALSE) ELSE Cmd("SMSTEXT")]
  OBVIOUS
<1>2. PICK task : task = at_enqueue_sms(parts)
  OBVIOUS
<1>3. task.cmds = cmds /\ ~task.at_once
  BY <1>1, <1>2 DEF at_enqueue_sms, AtTail, Kind
<1>4. DOMAIN cmds = 1 .. 2 * parts
  BY <1>1
<1>5. ASSUME NEW i \in DOMAIN cmds
      PROVE  /\ i % 2 = 1 => /\ cmds[i].cmd = "CMGS" /\ cmds[i].res = "PROMPT" /\ ~cmds[i].ignore
             /\ i % 2 # 1 => cmds[i].cmd = "SMSTEXT" /\ cmds[i].res = "OK"
  BY <1>1, <1>5 DEF Cmd, Command
<1>6. ASSUME NEW i \in DOMAIN cmds
      PROVE  /\ i % 2 = 1 => i + 1 \in DOMAIN cmds /\ (i + 1) % 2 # 1
             /\ i % 2 # 1 => i - 1 \in DOMAIN cmds /\ (i - 1) % 2 = 1
  BY <1>4, <1>6
<1>7. ASSUME NEW i \in DOMAIN task.cmds PROVE ProperCommand(task, i)
  <2>1. CASE i % 2 = 1
    <3>1. /\ cmds[i].cmd = "CMGS" /\ cmds[i].res = "PROMPT" /\ ~cmds[i].ignore
          /\ i + 1 \in DOMAIN cmds /\ cmds[i + 1].cmd = "SMSTEXT"
      BY <1>3, <1>5, <1>6, <1>7, <2>1
    <3> QED BY <1>3, <3>1 DEF ProperCommand
  <2>2. CASE i % 2 # 1
    <3>1. /\ cmds[i].cmd = "SMSTEXT" /\ cmds[i].res = "OK"
          /\ i - 1 \in DOMAIN cmds /\ cmds[i - 1].cmd = "CMGS"
      BY <1>3, <1>5, <1>6, <1>7, <2>2
    <3> QED BY <1>3, <3>1 DEF ProperCommand
  <2> QED BY <2>1, <2>2
<1> QED BY <1>2, <1>7 DEF Proper

(* Whatever line or result they handle.                                    *)
LEMMA HandlerTasksProper ==
  ASSUME WellBuilt, NEW res, NEW tasks \in HandlerTasks(res)
  PROVE  Proper4(tasks)
<1>1. ASSUME NEW a, NEW b, NEW c, NEW d, Proper(a), Proper(b), Proper(c), Proper(d)
      PROVE  Proper4(Tasks4(a, b, c, d))
  <2>1. /\ Tasks4(a, b, c, d).t1 = a /\ Tasks4(a, b, c, d).t2 = b
        /\ Tasks4(a, b, c, d).t3 = c /\ Tasks4(a, b, c, d).t4 = d
    BY DEF Tasks4
  <2> QED BY <1>1, <2>1 DEF Proper4
<1>2. ASSUME NEW a, Proper(a) PROVE Proper4(Tasks1(a))
  BY <1>1, <1>2, HandlersProper DEF Tasks1
<1>3. Proper4(Tasks0)
  BY <1>2, HandlersProper DEF Tasks0
<1>4. /\ Proper4(Tasks4(at_enqueue_list_messages, at_enqueue_csq, NoTask, NoTask))
      /\ Proper4(Tasks1(at_enqueue_csq))
      /\ Proper4(Tasks1(at_enqueue_enable_uac)) /\ Proper4(Tasks1(at_enqueue_enable_tty))
      /\ Proper4(Tasks1(at_enqueue_delete_sms(FALSE)))
      /\ Proper4(Tasks1(at_enqueue_hangup(FALSE, TRUE)))
      /\ Proper4(Tasks1(at_enqueue_cpcmreg(TRUE)))
  BY <1>1, <1>2, HandlersProper
<1>5. ASSUME NEW gains \in BOOLEAN
      PROVE  /\ Proper4(Tasks4(at_enqueue_cpcmfrm(FALSE), at_enqueue_cpcmreg(FALSE),
                               at_enqueue_cgains(gains, gains), at_enqueue_query_cgains))
             /\ Proper4(Tasks4(at_enqueue_qgains(gains, gains), at_enqueue_query_qgains,
                               NoTask, NoTask))
  BY <1>1, HandlersProper
<1>6. \A cmd : \A t \in OkTasks(cmd) : Proper4(t)
  BY <1>3, <1>4, <1>5, Zenon DEF OkTasks
<1>7. \A cmd : \A t \in ErrorTasks(cmd) : Proper4(t)
  BY <1>3, <1>4, Zenon DEF ErrorTasks
<1>8. \A t \in UnknownTasks : Proper4(t)
  <2>1. \A k \in MakerKinds \cup ModelKinds : Proper4(Tasks1(k))
    BY <1>2 DEF WellBuilt
  <2> QED BY <1>3, <2>1, Zenon DEF UnknownTasks
<1>9. \A t \in UrcTasks : Proper4(t)
  BY DEF WellBuilt, Proper4
<1>10. ASSUME NEW set, \A t \in set : Proper4(t)
       PROVE  \A t \in Capped(set) : Proper4(t)
  BY <1>3, <1>10, Zenon DEF Capped, Bounded
<1>11. /\ \A t \in Capped(UnknownTasks) : Proper4(t)
       /\ \A t \in Capped(UrcTasks) : Proper4(t)
  BY <1>8, <1>9, <1>10
<1> QED BY <1>3, <1>6, <1>7, <1>11, Zenon DEF HandlerTasks

-----------------------------------------------------------------------------
(* The steps of a session and the prompt.                                  *)

(* The handler of a result: text comes next exactly after a prompt.        *)
LEMMA ResultTurn ==
  ASSUME WellBuilt, Sound(atq), Plain(atq), HeadSent(atq), NEW pr \in BOOLEAN,
         NEW line, line.res \in Finals, Told(line, pr), line.cmd = HeadLine(atq),
         NEW tasks \in HandlerTasks(line.res), NEW t, t = at_response(line.res, tasks, TRUE)
  PROVE  Plain(t) /\ (HeadSent(t) \/ (pr <=> Texting(t)))
<1>1. PICK res \in Finals : res = line.res
  OBVIOUS
<1>2. atq.queue # <<>>
  BY DEF HeadSent
<1>3. PICK head \in TaskSet : head = Head(atq.queue)
  BY <1>2, HeadFacts
<1>4. (pr <=> res = "PROMPT") /\ (res = "PROMPT" => HeadLine(atq) \in {"CMGS", "CNMA"})
  BY <1>1 DEF Told
<1>5. HeadCmd = HeadLine(atq)
  BY <1>2 DEF HeadCmd, HeadLine, Line, at_queue_head_cmd
<1>6. CASE res = "OK" \/ res = "ERROR"
  <2>1. PICK s : s = Insert4(atq, tasks, TRUE)
    OBVIOUS
  <2>2. tasks \in Tasks4Set /\ Proper4(tasks)
    BY HandlerTasksType, HandlerTasksProper
  <2>3. Sound(s) /\ WritesOnce(atq, s)
    BY <2>1, <2>2, Insert4Sound, Insert4WritesOnce
  <2>4. HeadSent(s)
    BY <2>3 DEF WritesOnce
  <2>5. Plain(s)
    <3>1. PICK texting \in BOOLEAN : texting <=> Texting(atq)
      BY Zenon
    <3>2. Mannered(atq, texting)
      BY <3>1, Zenon DEF Mannered
    <3> QED BY <2>1, <2>2, <3>2, Insert4Mannered
  <2>6. s.queue # <<>>
    BY <2>4 DEF HeadSent
  <2>7. PICK u : u = at_queue_remove_cmd(s, res)
    OBVIOUS
  <2>8. Plain(u) /\ ~Texting(u)
    BY <1>6, <2>3, <2>5, <2>6, <2>7, RemoveCmdTurn
  <2>9. t = u \/ t = atq
    <3>1. CASE res = "OK"
      BY <1>1, <2>1, <2>7, <3>1 DEF at_response, at_response_ok
    <3>2. CASE res = "ERROR"
      BY <1>1, <2>1, <2>7, <3>2 DEF at_response, at_response_error
    <3> QED BY <1>6, <3>1, <3>2
  <2> QED BY <1>4, <1>6, <2>8, <2>9
<1>7. CASE res = "PROMPT"
  <2>1. t = at_response_sms_prompt(TRUE)
    BY <1>1, <1>7 DEF at_response
  <2>2. PICK i : i = CurrentIndex(head)
    OBVIOUS
  <2>3. HeadLine(atq) = head.cmds[i].cmd /\ \A r : HeadExpects(r) <=> head.cmds[i].res = r
    BY <1>2, <1>3, <2>2
       DEF HeadLine, Line, at_queue_task_cmd, HeadExpects, at_queue_head_cmd
  <2>4. Proper(head) \/ Escape(head)
    <3>1. 1 \in DOMAIN atq.queue /\ head = atq.queue[1]
      BY <1>2, <1>3, LenProperties, EmptySeq DEF Sound, QueueSet
    <3> QED BY <3>1, Zenon DEF Plain
  <2>5. Proper(head)
    <3>1. ASSUME Escape(head) PROVE FALSE
      <4>1. Len(head.cmds) = 1 /\ head.cmds[1].cmd = "ESC" /\ ~head.at_once
        BY <3>1 DEF Escape, Cmd, Command
      <4>2. InBounds(head) /\ head.cindex \in Nat
        BY <1>2, <1>3, HeadFacts DEF TaskSet
      <4>3. i = 1
        BY <2>2, <4>1, <4>2 DEF InBounds, CurrentIndex
      <4> QED BY <1>4, <1>7, <2>3, <4>1, <4>3
    <3> QED BY <2>4, <3>1
  <2>6. ProperCommand(head, i)
    <3>1. Line(head) \in {"CMGS", "CNMA"}
      BY <1>3, <1>4, <1>7 DEF HeadLine
    <3>2. ~head.at_once
      BY <1>2, <1>3, <2>5, <3>1, AtCommand
    <3>3. i = head.cindex + 1
      BY <2>2, <3>2 DEF CurrentIndex
    <3> QED BY <1>2, <1>3, <2>5, <3>2, <3>3, AtCommand
  <2>7. CASE HeadLine(atq) = "CMGS"
    <3>1. head.cmds[i].res = "PROMPT"
      BY <2>3, <2>6, <2>7 DEF ProperCommand
    <3>2. HeadExpects("PROMPT") /\ HeadCmd # "CNMA"
      BY <1>5, <2>3, <2>7, <3>1
    <3>3. t = at_queue_remove_cmd(atq, "PROMPT")
      BY <2>1, <3>2 DEF at_response_sms_prompt
    <3>4. Plain(t) /\ Texting(t)
      BY <1>1, <1>2, <1>7, <2>7, <3>3, RemoveCmdTurn
    <3> QED BY <1>4, <1>7, <3>4
  <2>8. CASE HeadLine(atq) = "CNMA"
    <3>1. head.cmds[i].res # "PROMPT" /\ i \in DOMAIN head.cmds
      <4>1. head.cmds[i].res # "PROMPT"
        BY <2>3, <2>6, <2>8 DEF ProperCommand
      <4>2. i \in DOMAIN head.cmds
        <5>1. InBounds(head) /\ head.cindex \in Nat /\ Len(head.cmds) \in Nat \ {0}
              /\ DOMAIN head.cmds = 1 .. Len(head.cmds)
          BY <1>2, <1>3, HeadFacts, LenProperties DEF TaskSet
        <5> QED BY <2>2, <5>1 DEF InBounds, CurrentIndex
      <4> QED BY <4>1, <4>2
    <3>2. head.cmds[i].res = "OK"
      <4>1. head.cmds[i] \in CommandSet
        BY <1>3, <3>1 DEF TaskSet
      <4> QED BY <3>1, <4>1 DEF CommandSet, Expected
    <3>3. HeadCmd = "CNMA" /\ HeadExpects("OK") /\ ~HeadExpects("PROMPT")
      BY <1>5, <2>3, <2>8, <3>2
    <3>4. t = at_queue_remove_cmd(at_queue_insert(atq, at_enqueue_escape, TRUE), "OK")
      BY <2>1, <3>3 DEF at_response_sms_prompt
    <3>5. Plain(t) /\ Texting(t)
      BY <2>8, <3>4, EscapeTurn
    <3> QED BY <1>4, <1>7, <3>5
  <2> QED BY <1>4, <1>7, <2>7, <2>8
<1> QED BY <1>6, <1>7 DEF Finals

(* What is owed while a job is taken,                                      *)
LEMMA OwedTakes ==
  ASSUME NEW r, NEW p \in Seq(JobSet), p # <<>>, NEW pr, Owed(r, p, pr)
  PROVE  /\ Owed(r, Tail(p), pr)
         /\ Head(p).job = "response" => Told(Head(p).line, pr)
<1>1. /\ Len(p) \in Nat \ {0} /\ DOMAIN p = 1 .. Len(p) /\ Head(p) = p[1]
      /\ Tail(p) \in Seq(JobSet) /\ Len(Tail(p)) = Len(p) - 1
      /\ \A i \in 1 .. Len(Tail(p)) : Tail(p)[i] = p[i + 1]
  BY HeadTailProperties, LenProperties, EmptySeq
<1>2. PICK q : q = Tail(p)
  OBVIOUS
<1>3. DOMAIN q = 1 .. Len(p) - 1
  BY <1>1, <1>2, LenProperties
<1>4. \A i \in DOMAIN q : q[i] = p[i + 1] /\ i + 1 \in DOMAIN p
  BY <1>1, <1>2, <1>3
<1>5. 1 \in DOMAIN p
  BY <1>1
<1>6. Owed(r, q, pr) /\ (p[1].job = "response" => Told(p[1].line, pr))
  BY <1>4, <1>5, Zenon DEF Owed
<1> QED BY <1>1, <1>2, <1>6

(* ... while jobs join,                                                    *)
LEMMA OwedPushes ==
  ASSUME NEW r, NEW p \in Seq(JobSet), NEW q \in Seq(JobSet), NEW pr, Owed(r, p, pr),
         \A i \in DOMAIN q : q[i].job = "response" => Told(q[i].line, pr)
  PROVE  Owed(r, p \o q, pr)
<1>1. /\ Len(p) \in Nat /\ DOMAIN p = 1 .. Len(p) /\ Len(q) \in Nat /\ DOMAIN q = 1 .. Len(q)
      /\ p \o q \in Seq(JobSet) /\ Len(p \o q) = Len(p) + Len(q)
      /\ \A i \in 1 .. Len(p) + Len(q) :
           (p \o q)[i] = IF i <= Len(p) THEN p[i] ELSE q[i - Len(p)]
  BY ConcatProperties, LenProperties
<1>2. PICK s : s = p \o q
  OBVIOUS
<1>3. DOMAIN s = 1 .. Len(p) + Len(q)
  BY <1>1, <1>2, LenProperties
<1>4. \A i \in DOMAIN s : \/ i \in DOMAIN p /\ s[i] = p[i]
                          \/ i - Len(p) \in DOMAIN q /\ s[i] = q[i - Len(p)]
  BY <1>1, <1>2, <1>3
<1>5. Owed(r, s, pr)
  BY <1>4, Zenon DEF Owed
<1> QED BY <1>2, <1>5

(* ... while lines become jobs,                                            *)
LEMMA OwedReads ==
  ASSUME NEW r \in Seq(LineSet), NEW p \in Seq(JobSet), NEW pr, Owed(r, p, pr),
         NEW n \in 1 .. Len(r), NEW q \in Seq(JobSet), q = ResponseJobs(SubSeq(r, 1, n)),
         NEW t, t = SubSeq(r, n + 1, Len(r))
  PROVE  Owed(t, p \o q, pr)
<1>1. Len(r) \in Nat /\ DOMAIN r = 1 .. Len(r) /\ n \in Nat
  BY LenProperties
<1>2. PICK f : f = SubSeq(r, 1, n)
  OBVIOUS
<1>3. DOMAIN f = 1 .. n /\ \A i \in 1 .. n : f[i] = r[i]
  BY <1>1, <1>2
<1>4. DOMAIN t = 1 .. Len(r) - n /\ \A i \in 1 .. Len(r) - n : t[i] = r[n + i]
  BY <1>1
<1>5. DOMAIN q = 1 .. n /\ \A i \in 1 .. n : q[i] = Job("response", r[i])
  BY <1>2, <1>3 DEF ResponseJobs
<1>6. \A i \in DOMAIN q : i \in DOMAIN r /\ q[i].line = r[i]
  <2>1. \A x : Job("response", x).line = x
    BY DEF Job
  <2>2. \A i \in 1 .. n : i \in DOMAIN r
    BY <1>1
  <2> QED BY <1>5, <2>1, <2>2, Zenon
<1>7. \A i \in DOMAIN t : n + i \in DOMAIN r /\ t[i] = r[n + i]
  BY <1>1, <1>4
<1>8. \A i \in DOMAIN q : Told(q[i].line, pr)
  BY <1>6, Zenon DEF Owed
<1>9. Owed(t, p, pr)
  BY <1>7, Zenon DEF Owed
<1> QED BY <1>8, <1>9, OwedPushes

(* ... and while a line arrives.                                           *)
LEMMA OwedHears ==
  ASSUME NEW r \in Seq(LineSet), NEW p, NEW pr, Owed(r, p, pr), NEW line \in LineSet, Told(line, pr)
  PROVE  Owed(Append(r, line), p, pr)
<1>1. PICK t : t = Append(r, line)
  OBVIOUS
<1>2. /\ Len(r) \in Nat /\ DOMAIN r = 1 .. Len(r) /\ DOMAIN t = 1 .. Len(r) + 1
      /\ \A i \in 1 .. Len(r) : t[i] = r[i]
      /\ t[Len(r) + 1] = line
  BY <1>1, AppendProperties, LenProperties
<1>3. \A i \in DOMAIN t : t[i] = line \/ (i \in DOMAIN r /\ t[i] = r[i])
  BY <1>2
<1>4. Owed(t, p, pr)
  BY <1>3, Zenon DEF Owed
<1> QED BY <1>1, <1>4

(* When a command is on the wire nothing else is owed, whatever the modem  *)
(* makes of it.                                                            *)
LEMMA OwedNothing ==
  ASSUME NEW a, NEW r, NEW p, Lone(a, r, p), a.tx # <<>>, NEW pr
  PROVE  Owed(r, p, pr)
<1>1. /\ \A i \in DOMAIN r : r[i].res \notin Finals
      /\ \A i \in DOMAIN p : ~FinalJob(p[i])
  BY Zenon DEF Lone
<1> QED BY <1>1, Zenon DEF Owed, Told, FinalJob

(* It holds at first.                                                      *)
LEMMA InitPrompt == Init => PromptInv
<1> SUFFICES ASSUME Init PROVE PromptInv
  OBVIOUS
<1>1. CountInv
  BY InitCount
<1>2. atq.queue = <<>> /\ rx = <<>> /\ tps = <<>> /\ prompt = FALSE
  BY DEF Init, EmptyQueue
<1>3. Plain(atq) /\ Mannered(atq, prompt)
  BY <1>2 DEF Plain, Mannered, Texting
<1>4. Owed(rx, tps, prompt)
  BY <1>2 DEF Owed
<1> QED BY <1>1, <1>3, <1>4 DEF PromptInv

(* Handling a line and running the queue.                                  *)
LEMMA ResponseTurn ==
  ASSUME WellBuilt, IInv, Lone(atq, rx, tps), tps # <<>>, Head(tps).job = "response",
         Plain(atq), Mannered(atq, prompt), Owed(rx, tps, prompt), ~WriteFaults, mon # "off",
         NEW handled \in Handled(Head(tps).line.res), NEW t, t = at_queue_run(handled, TRUE)
  PROVE  Plain(t) /\ Mannered(t, prompt)
<1>1. Sound(atq) /\ tps \in Seq(JobSet) /\ prompt \in BOOLEAN
  BY DEF IInv, Typed
<1>2. PICK line : line = Head(tps).line
  OBVIOUS
<1>3. Head(tps) \in JobSet /\ line \in LineSet
  BY <1>1, <1>2, JobTypes DEF JobSet
<1>4. PICK tasks \in HandlerTasks(line.res), ok \in WriteResults :
        handled = at_response(line.res, tasks, ok)
  BY <1>2 DEF Handled
<1>5. tasks \in Tasks4Set /\ Proper4(tasks) /\ handled = at_response(line.res, tasks, TRUE)
  BY <1>4, HandlerTasksType, HandlerTasksProper, WritesSucceed
<1>6. Sound(handled)
  BY <1>1, HandledSound
<1>7. Told(line, prompt)
  BY <1>1, <1>2, OwedTakes
<1>8. CASE line.res \in Finals
  <2>1. FinalJob(Head(tps))
    BY <1>2, <1>8 DEF FinalJob
  <2>2. HeadSent(atq) /\ atq.tx = <<>>
    BY <1>1, <2>1, LoneTakes
  <2>3. line.cmd = HeadLine(atq)
    <3>1. 1 \in DOMAIN tps /\ Head(tps) = tps[1]
      BY <1>1, LenProperties, EmptySeq
    <3> QED BY <1>2, <2>1, <3>1, Zenon DEF Lone
  <2>4. handled.tx = <<>>
    BY <1>1, <1>2, <1>8, <2>2, ResultWritesNothing
  <2>5. Plain(handled) /\ (HeadSent(handled) \/ (prompt <=> Texting(handled)))
    BY <1>1, <1>5, <1>7, <1>8, <2>2, <2>3, ResultTurn
  <2>6. Mannered(handled, prompt)
    BY <2>4, <2>5, Zenon DEF Mannered
  <2> QED BY <1>1, <1>6, <2>5, <2>6, RunSame, RunMannered
<1>9. CASE line.res \notin Finals
  <2>1. line.res \in {"URC", "UNKNOWN"}
    BY <1>3, <1>9 DEF LineSet
  <2>2. handled = Insert4(atq, tasks, TRUE)
    BY <1>5, <2>1 DEF at_response
  <2>3. Plain(handled) /\ Mannered(handled, prompt)
    BY <1>1, <1>5, <2>2, Insert4Mannered
  <2> QED BY <1>1, <1>6, <2>3, RunSame, RunMannered
<1> QED BY <1>8, <1>9

(* Every step keeps it.                                                    *)
LEMMA NextPrompt ==
  ASSUME ~Timeouts, ~Restarts, ~WriteFaults, WellBuilt, PromptInv, [Next]_vars
  PROVE  PromptInv'
<1>a. CountInv /\ CountInv' /\ LinkInv /\ IInv
  BY NextCount DEF PromptInv, CountInv, LinkInv
<1>b. /\ Sound(atq) /\ rx \in Seq(LineSet) /\ tps \in Seq(JobSet) /\ NoTimeoutJobs(tps)
      /\ prompt \in BOOLEAN
  BY <1>a DEF LinkInv, IInv, Typed
<1>c. /\ mon = "off" => terminate
      /\ mon = "starting" => tps = <<>>
      /\ mon # "off" => /\ Lone(atq, rx, tps)
                        /\ Plain(atq) /\ Mannered(atq, prompt) /\ Owed(rx, tps, prompt)
  BY <1>a, Zenon DEF CountInv, LinkInv, PromptInv
<1>d. ASSUME mon' # "off" => Plain(atq') /\ Mannered(atq', prompt') /\ Owed(rx', tps', prompt')
      PROVE  PromptInv'
  BY <1>a, <1>d DEF PromptInv
<1>e. ASSUME tps # <<>>, mon # "off"
      PROVE  /\ Head(tps).job # "timeout"
             /\ Owed(rx, Tail(tps), prompt)
  BY <1>b, <1>c, <1>e, TimeoutJobs, OwedTakes
<1>f. ASSUME NEW kind \in KindSet, Proper(kind), NEW s \in Inserted(kind), mon # "off"
      PROVE  Plain(s) /\ Mannered(s, prompt)
  <2>1. PICK ok \in WriteResults : s = at_queue_insert(atq, kind, ok)
    BY <1>f DEF Inserted
  <2>2. s = at_queue_insert(atq, kind, TRUE)
    BY <1>f, <2>1, WritesSucceed
  <2> QED BY <1>b, <1>c, <1>f, <2>2, InsertMannered
<1>g. ASSUME NEW s, SetQueue(s)
      PROVE  atq' = s
  BY <1>g DEF SetQueue
<1>h. \A kind \in CallerKinds \cup OfflineKinds \cup InitKinds \cup PingKinds :
        kind \in KindSet /\ Proper(kind)
  BY KindsAssumption DEF WellBuilt
<1>1. ASSUME NEW kind \in CallerKinds \cup OfflineKinds, Enqueue(kind)
      PROVE  PromptInv'
  <2>1. PICK s \in Inserted(kind) : SetQueue(s)
    BY <1>1 DEF Enqueue
  <2>2. mon # "off" /\ rx' = rx /\ tps' = tps /\ prompt' = prompt
    BY <1>1 DEF Enqueue
  <2>3. Plain(s) /\ Mannered(s, prompt)
    BY <1>f, <1>h, <2>2
  <2> QED BY <1>c, <1>d, <1>g, <2>1, <2>2, <2>3
<1>2. CASE TaskSkipped
  <2>1. tps # <<>> /\ tps' = Tail(tps) /\ UNCHANGED <<atq, rx, mon, prompt>>
    BY <1>2 DEF TaskSkipped
  <2> QED BY <1>c, <1>d, <1>e, <2>1
<1>3. CASE TaskResponse
  <2>1. PICK handled \in Handled(Head(tps).line.res), ok \in WriteResults :
          SetQueue(at_queue_run(handled, ok))
    BY <1>3 DEF TaskResponse
  <2>2. /\ tps # <<>> /\ Head(tps).job = "response" /\ tps' = Tail(tps) /\ rx' = rx /\ mon' = mon
        /\ ~terminate /\ prompt' = prompt
    BY <1>3 DEF TaskResponse, NextJob
  <2>3. mon # "off" /\ ok = TRUE
    BY <1>c, <2>2, WritesSucceed
  <2>4. PICK t : t = at_queue_run(handled, TRUE)
    OBVIOUS
  <2>5. Plain(t) /\ Mannered(t, prompt)
    BY <1>a, <1>c, <2>2, <2>3, <2>4, ResponseTurn
  <2>6. atq' = t
    BY <1>g, <2>1, <2>3, <2>4
  <2> QED BY <1>d, <1>e, <2>2, <2>3, <2>5, <2>6
<1>4. CASE TaskTimeout
  <2>1. tps # <<>> /\ Head(tps).job = "timeout"
    BY <1>4 DEF TaskTimeout, NextJob
  <2> QED BY <1>b, <2>1, TimeoutJobs
<1>5. CASE TaskPing
  <2>1. PICK kind \in PingKinds : \E s \in Inserted(kind) : SetQueue(s)
    BY <1>5 DEF TaskPing
  <2>2. PICK s \in Inserted(kind) : SetQueue(s)
    BY <2>1
  <2>3. tps # <<>> /\ tps' = Tail(tps) /\ rx' = rx /\ prompt' = prompt /\ ~terminate
    BY <1>5 DEF TaskPing, NextJob
  <2>4. mon # "off"
    BY <1>c, <2>3
  <2>5. Plain(s) /\ Mannered(s, prompt)
    BY <1>f, <1>h, <2>4
  <2> QED BY <1>d, <1>e, <1>g, <2>2, <2>3, <2>4, <2>5
<1>6. CASE TaskRestart
  <2>1. tps # <<>> /\ UNCHANGED <<atq, rx, mon, prompt>> /\ tps' = Tail(tps)
    BY <1>6 DEF TaskRestart, NextJob
  <2> QED BY <1>c, <1>d, <1>e, <2>1
<1>7. CASE MonLoop \/ MonBusy \/ MonLate
  <2>1. UNCHANGED <<atq, rx, tps, prompt>> /\ mon # "off"
    BY <1>7, <1>a DEF MonLoop, MonBusy, MonLate, LinkInv
  <2> QED BY <1>c, <1>d, <2>1
<1>8. CASE MonTerminate
  <2>1. mon' = "off"
    BY <1>8 DEF MonTerminate, pvt_disconnect
  <2> QED BY <1>d, <2>1
<1>9. CASE MonLost
  BY <1>9 DEF MonLost
<1>10. CASE MonRead
  <2>1. PICK n \in 1 .. Len(rx) :
          /\ PushAll(ResponseJobs(SubSeq(rx, 1, n)))
          /\ rx' = SubSeq(rx, n + 1, Len(rx))
    BY <1>10 DEF MonRead
  <2>2. PICK q : q = ResponseJobs(SubSeq(rx, 1, n))
    OBVIOUS
  <2>3. q \in Seq(JobSet)
    BY <1>b, <2>2, LinesAreJobs
  <2>4. tps' = tps \o q /\ atq' = atq /\ prompt' = prompt /\ mon # "off"
    BY <1>10, <2>1, <2>2 DEF MonRead, PushAll, Waiting
  <2>5. PICK t : t = SubSeq(rx, n + 1, Len(rx)) /\ rx' = t
    BY <2>1
  <2>6. Owed(t, tps \o q, prompt)
    <3>1. Owed(rx, tps, prompt)
      BY <1>c, <2>4
    <3>2. t = SubSeq(rx, n + 1, Len(rx))
      BY <2>5
    <3> QED BY <1>b, <2>2, <2>3, <3>1, <3>2, OwedReads
  <2> QED BY <1>c, <1>d, <2>4, <2>5, <2>6
<1>11. CASE MonTimeout
  BY <1>11 DEF MonTimeout
<1>12. CASE MonIdle
  <2>1. PICK q : tps' = tps \o q /\ (q = Guarded("ping") \/ q = <<Job("ping", NoLine)>>)
    BY <1>12 DEF MonIdle, PushAll
  <2>2. q \in Seq(JobSet) /\ \A i \in DOMAIN q : ~FinalJob(q[i])
    BY <2>1, PingJobs
  <2>3. \A i \in DOMAIN q : q[i].job = "response" => Told(q[i].line, prompt)
    BY <2>2, Zenon DEF FinalJob, Told
  <2>4. UNCHANGED <<atq, rx, prompt>> /\ mon # "off"
    BY <1>12 DEF MonIdle
  <2>5. Owed(rx, tps \o q, prompt)
    BY <1>b, <1>c, <2>2, <2>3, <2>4, OwedPushes
  <2> QED BY <1>c, <1>d, <2>1, <2>4, <2>5
<1>13. CASE MonStart
  <2>1. mon = "starting" /\ tps = <<>>
    BY <1>13, <1>c DEF MonStart
  <2>2. PICK kind \in InitKinds, ok \in WriteResults :
          \/ ~ok
          \/ SetQueue(at_queue_run(at_queue_add(atq, kind), ok)) /\ mon' = "loop"
    BY <1>13, <2>1 DEF MonStart
  <2>3. ok = TRUE
    BY <2>1, WritesSucceed
  <2>4. rx' = <<>> /\ tps' = tps /\ prompt' = prompt
    BY <1>13, <2>1 DEF MonStart
  <2>5. PICK s : s = at_queue_add(atq, kind)
    OBVIOUS
  <2>6. PICK t : t = at_queue_run(s, TRUE)
    OBVIOUS
  <2>7. kind \in KindSet /\ Proper(kind) /\ Plain(atq) /\ Mannered(atq, prompt)
    BY <1>c, <1>h, <2>1
  <2>8. Sound(s) /\ Plain(s) /\ Mannered(s, prompt)
    BY <1>b, <2>5, <2>7, AddSound, AddPlain, AddMannered
  <2>9. Plain(t) /\ Mannered(t, prompt)
    BY <1>b, <2>6, <2>8, RunSame, RunMannered
  <2>10. Owed(<<>>, tps, prompt)
    BY <2>1 DEF Owed
  <2>11. atq' = t
    BY <1>g, <2>2, <2>3, <2>5, <2>6
  <2> QED BY <1>d, <2>4, <2>9, <2>10, <2>11
<1>14. CASE DeviceManager
  BY <1>14 DEF DeviceManager, pvt_start, StopRequest, StopJoined
<1>15. CASE ModemAnswer
  <2> SUFFICES ASSUME mon' # "off"
               PROVE  Plain(atq') /\ Mannered(atq', prompt') /\ Owed(rx', tps', prompt')
    BY <1>d
  <2>1. /\ atq.tx # <<>> /\ atq' = [atq EXCEPT !.tx = Tail(@)]
        /\ tps' = tps /\ mon' = mon
    BY <1>15 DEF ModemAnswer
  <2>2. atq'.queue = atq.queue /\ atq'.tx = Tail(atq.tx)
    BY <1>b, <2>1 DEF Sound, QueueSet
  <2>3. PICK res \in Answers(Head(atq.tx)) \cap ModemResults :
          /\ rx' = Append(rx \o Preamble(Head(atq.tx), res), Received(res, Head(atq.tx)))
          /\ prompt' = (res = "PROMPT")
    BY <1>15, <2>1 DEF ModemAnswer
  <2>4. Plain(atq')
    BY <1>c, <2>1, <2>2 DEF Plain
  <2>5. HeadSent(atq') /\ atq'.tx = <<>>
    <3>1. HeadSent(atq) /\ atq.tx = <<HeadLine(atq)>>
      BY <1>c, <2>1 DEF Lone
    <3> QED BY <2>2, <3>1 DEF HeadSent
  <2>6. Mannered(atq', prompt')
    BY <2>5 DEF Mannered
  <2>7. PICK q : q = rx \o Preamble(Head(atq.tx), res)
    OBVIOUS
  <2>8. PICK line : line = Received(res, Head(atq.tx))
    OBVIOUS
  <2>9. line.res = res /\ line.cmd = Head(atq.tx)
    BY <2>8 DEF Received
  <2>10. Head(atq.tx) \in at_cmd_t /\ res \in Finals
    BY <1>b, <2>1, <2>3, HeadTailProperties, ModemAssumption DEF Sound, QueueSet
  <2>11. line \in LineSet
    BY <2>8, <2>10 DEF Received, LineSet
  <2>12. Told(line, prompt')
    BY <2>3, <2>9 DEF Told, Answers
  <2>13. q \in Seq(LineSet) /\ Owed(q, tps, prompt')
    <3>1. Owed(rx, tps, prompt')
      BY <1>c, <2>1, OwedNothing
    <3>2. CASE Preamble(Head(atq.tx), res) = <<>>
      <4>1. q = rx
        BY <1>b, <2>7, <3>2, ConcatEmptySeq
      <4> QED BY <1>b, <3>1, <4>1
    <3>3. CASE Preamble(Head(atq.tx), res) = <<Received("UNKNOWN", "none")>>
      <4>1. PICK other : other = Received("UNKNOWN", "none")
        OBVIOUS
      <4>2. other \in LineSet /\ Told(other, prompt')
        BY <4>1 DEF Received, LineSet, Told, Finals
      <4>3. q = Append(rx, other)
        <5>1. rx \o <<other>> = Append(rx, other)
          BY <1>b, <4>2
        <5> QED BY <2>7, <3>3, <4>1, <5>1, Zenon
      <4> QED BY <1>b, <3>1, <4>2, <4>3, OwedHears, AppendProperties
    <3> QED BY <3>2, <3>3 DEF Preamble
  <2>14. Owed(rx', tps', prompt')
    BY <2>1, <2>3, <2>7, <2>8, <2>11, <2>12, <2>13, OwedHears
  <2> QED BY <2>4, <2>6, <2>14
<1>16. CASE ModemIgnores
  BY <1>16 DEF ModemIgnores
<1>17. CASE ModemTalks
  <2>1. PICK res \in Chatter : rx' = Append(rx, Received(res, "none"))
    BY <1>17 DEF ModemTalks
  <2>2. PICK line : line = Received(res, "none")
    OBVIOUS
  <2>3. line \in LineSet /\ line.res \notin Finals
    BY <2>2, ModemAssumption DEF Received, LineSet, Finals
  <2>4. UNCHANGED <<atq, tps, prompt>> /\ mon # "off"
    BY <1>17 DEF ModemTalks
  <2>5. Told(line, prompt)
    BY <2>3 DEF Told
  <2>6. Owed(rx', tps, prompt)
    BY <1>b, <1>c, <2>1, <2>2, <2>3, <2>4, <2>5, OwedHears
  <2> QED BY <1>c, <1>d, <2>4, <2>6
<1>18. CASE TimePasses
  BY <1>18 DEF TimePasses
<1>19. CASE UNCHANGED vars
  <2>1. UNCHANGED <<atq, rx, tps, mon, prompt>>
    BY <1>19 DEF vars
  <2> QED BY <1>c, <1>d, <2>1
<1> QED
  BY <1>1, <1>2, <1>3, <1>4, <1>5, <1>6, <1>7, <1>8, <1>9, <1>10, <1>11, <1>12, <1>13, <1>14,
     <1>15, <1>16, <1>17, <1>18, <1>19, Zenon
  DEF Next, CallerOnline, CallerConnected, Serializer, Monitor, Environment

(* While no command outlives its timeout and no write falls short, and the *)
(* builders put messages together as they do, the modem reads message text *)
(* (or the escape) exactly when it has prompted for it: whatever callers,  *)
(* pings and handlers put on the queue in between, no command goes out as  *)
(* the text of a message and no text as a command.                         *)
THEOREM TextAnswersPrompt ==
  ASSUME ~Timeouts, ~Restarts, ~WriteFaults, WellBuilt
  PROVE  Spec => []PromptDiscipline
<1>1. PromptInv /\ [Next]_vars => PromptInv'
  BY NextPrompt
<1>2. PromptInv => PromptDiscipline
  <2> SUFFICES ASSUME PromptInv, mon # "off", atq.tx # <<>>
               PROVE  prompt <=> Head(atq.tx) \in MessageText
    BY DEF PromptDiscipline
  <2>1. Lone(atq, rx, tps) /\ Mannered(atq, prompt)
    BY DEF PromptInv, CountInv, LinkInv
  <2>2. HeadSent(atq) /\ atq.tx = <<HeadLine(atq)>>
    BY <2>1 DEF Lone
  <2>3. Head(atq.tx) = HeadLine(atq) /\ atq.queue # <<>>
    BY <2>2 DEF HeadSent
  <2> QED BY <2>1, <2>3 DEF Mannered, Texting
<1> QED BY InitPrompt, <1>1, <1>2, PTL DEF Spec
=============================================================================
