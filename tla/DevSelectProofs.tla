-------------------------- MODULE DevSelectProofs ---------------------------
(***************************************************************************)
(* The choice of a device, for any number of devices and any set of        *)
(* threads: a search leaves no lock behind, the device it returns is fit   *)
(* when the call is made on it, and a search that finds nothing has tried  *)
(* all there is room for.                                                  *)
(***************************************************************************)
EXTENDS DevSelect, FunctionTheorems, FiniteSetTheorems, TLAPS

-----------------------------------------------------------------------------
(* The inductive invariant.                                                *)

Pcs == {"idle", "scan", "search", "first", "found", "none"}

SearchSet ==
  [pc : Pcs, kind : {"first", "robin"}, use : {"dial", "hold", "status", "statusex"},
   at : Nat, list : Seq(Devs), from : Nat, tried : SUBSET Devs, exists : BOOLEAN, found : Nat]

TypeInv ==
  /\ call \in [Devs -> {"none", "init", "active", "off"}]
  /\ lock \in [Devs -> Threads \union {NoLock}]
  /\ last_used \in [Devs -> BOOLEAN]
  /\ th \in [Threads -> SearchSet]

(* What a search has found is a device, and is locked.                     *)
FoundIsLocked ==
  \A t \in Threads : th[t].pc = "found" => th[t].found \in Devs /\ lock[th[t].found] = t

(* The position of the i-th device tried in turn.                          *)
Slot(s, i) == (s.from + 1 + i) % Len(s.list)

(* The list has members only, in the order of the devices.                 *)
InOrder(s) ==
  /\ \A i \in 1 .. Len(s.list) : s.list[i] \in Members
  /\ \A i, j \in 1 .. Len(s.list) : i < j => s.list[i] < s.list[j]

IsListed(s, d) == \E i \in 1 .. Len(s.list) : s.list[i] = d

(* A member that is not listed found no room and is behind all that are.   *)
LeftOut(s, d) ==
  Len(s.list) = MaxListed /\ \A i \in 1 .. Len(s.list) : s.list[i] < d

Scanned(s) ==
  /\ s.at \in 1 .. N + 1 /\ s.kind = "robin" /\ Len(s.list) <= MaxListed
  /\ \A d \in Members : d < s.at => IsListed(s, d)
  /\ InOrder(s)
  /\ \A i \in 1 .. Len(s.list) : s.list[i] < s.at
  /\ s.from <= Len(s.list) /\ (Len(s.list) # 0 => s.from < Len(s.list))
  /\ s.tried = {} /\ s.exists = FALSE

Searched(s) ==
  /\ s.at \in 0 .. Len(s.list) /\ s.kind = "robin"
  /\ \A d \in Members : IsListed(s, d) \/ LeftOut(s, d)
  /\ InOrder(s)
  /\ s.from <= Len(s.list) /\ (Len(s.list) # 0 => s.from < Len(s.list))
  /\ \A i \in Nat : i < s.at => s.list[Slot(s, i) + 1] \in s.tried
  /\ \A d \in s.tried : IsListed(s, d)
  /\ s.exists <=> s.tried # {}

WalkedTo(s) ==
  /\ s.at \in 1 .. N + 1
  /\ \A d \in Members : d < s.at <=> d \in s.tried
  /\ s.tried \subseteq Members
  /\ s.exists <=> s.tried # {}

Missed(s) ==
  /\ s.tried \subseteq Members
  /\ \A d \in Members \ s.tried : /\ s.kind = "robin" /\ Cardinality(s.tried) = MaxListed
                                  /\ \A e \in s.tried : e < d
  /\ s.exists <=> Members # {}

(* How far a search has come, and what it has tried on the way.            *)
Progress(s) ==
  /\ s.pc = "scan" => Scanned(s)
  /\ s.pc = "search" => Searched(s)
  /\ s.pc = "first" => WalkedTo(s)
  /\ s.pc = "none" => Missed(s)

IInv ==
  /\ TypeInv /\ NoLockLeft /\ FoundIsLocked /\ BookedIsFit
  /\ \A t \in Threads : Progress(th[t])

-----------------------------------------------------------------------------
(* Going once around from anywhere visits every position.                  *)
LEMMA Around ==
  ASSUME NEW c \in Nat \ {0}, NEW f \in 0 .. c - 1, NEW k \in 1 .. c
  PROVE  \E i \in 0 .. c - 1 : ((f + 1 + i) % c) + 1 = k
<1>1. CASE k - 1 >= f + 1
  <2>1. PICK i \in 0 .. c - 1 : f + 1 + i = k - 1
    BY <1>1
  <2>2. (k - 1) % c = k - 1
    OBVIOUS
  <2>3. ((f + 1 + i) % c) + 1 = k
    BY <2>1, <2>2
  <2> QED BY <2>3
<1>2. CASE k - 1 < f + 1
  <2>1. PICK i \in 0 .. c - 1 : f + 1 + i = k - 1 + c
    BY <1>2
  <2>2. (k - 1 + c) % c = k - 1
    OBVIOUS
  <2>3. ((f + 1 + i) % c) + 1 = k
    BY <2>1, <2>2
  <2> QED BY <2>3
<1> QED BY <1>1, <1>2

(* What is listed is a number.                                             *)
LEMMA ListedIsNat ==
  ASSUME NEW s \in SearchSet, NEW i \in 1 .. Len(s.list)
  PROVE  s.list[i] \in Nat
<1>1. s.list \in Seq(Devs)
  BY DEF SearchSet
<1>2. s.list[i] \in Devs
  BY <1>1
<1> QED BY <1>2 DEF Devs

(* A position in turn is one of the list.                                  *)
LEMMA SlotInList ==
  ASSUME NEW s \in SearchSet, Len(s.list) # 0, NEW i \in Nat
  PROVE  Slot(s, i) + 1 \in 1 .. Len(s.list)
<1>1. s.from \in Nat /\ Len(s.list) \in Nat \ {0}
  BY DEF SearchSet
<1>2. \A x \in Nat, c \in Nat \ {0} : (x % c) \in 0 .. c - 1
  OBVIOUS
<1>3. s.from + 1 + i \in Nat
  BY <1>1
<1>4. (s.from + 1 + i) % Len(s.list) \in 0 .. Len(s.list) - 1
  BY <1>1, <1>2, <1>3
<1> QED BY <1>1, <1>4 DEF Slot

(* A search in turn that has come around has tried what is listed, and as  *)
(* many devices as that.                                                   *)
LEMMA AroundTriesAll ==
  ASSUME NEW s \in SearchSet, Searched(s), s.at = Len(s.list)
  PROVE  Missed(s)
<1>0. Len(s.list) \in Nat /\ s.list \in Seq(Devs) /\ s.list \in [1 .. Len(s.list) -> Devs]
  BY DEF SearchSet
<1>1. ASSUME NEW d, IsListed(s, d)
      PROVE  d \in s.tried /\ d \in Members
  <2>1. PICK k \in 1 .. Len(s.list) : s.list[k] = d
    BY <1>1 DEF IsListed
  <2>2. Len(s.list) \in Nat \ {0} /\ s.from \in 0 .. Len(s.list) - 1
    BY <2>1 DEF Searched, SearchSet
  <2>3. PICK i \in 0 .. Len(s.list) - 1 : ((s.from + 1 + i) % Len(s.list)) + 1 = k
    BY <2>1, <2>2, Around
  <2>4. i \in Nat /\ i < s.at /\ Slot(s, i) + 1 = k
    BY <2>2, <2>3 DEF Slot
  <2> QED BY <2>1, <2>4 DEF Searched, InOrder
<1>2. \A d \in s.tried : IsListed(s, d)
  BY DEF Searched
<1>3. Cardinality(s.tried) = Len(s.list)
  <2>1. \A i \in 1 .. Len(s.list) : s.list[i] \in s.tried
    BY <1>1 DEF IsListed
  <2>2. s.list \in [1 .. Len(s.list) -> s.tried]
    BY <1>0, <2>1
  <2>3. \A i, j \in 1 .. Len(s.list) : s.list[i] = s.list[j] => i = j
    <3> SUFFICES ASSUME NEW i \in 1 .. Len(s.list), NEW j \in 1 .. Len(s.list), i # j
                 PROVE  s.list[i] # s.list[j]
      OBVIOUS
    <3>1. s.list[i] \in Nat /\ s.list[j] \in Nat
      BY <1>0 DEF Devs
    <3>2. i < j \/ j < i
      OBVIOUS
    <3> QED BY <3>1, <3>2 DEF Searched, InOrder
  <2>4. \A d \in s.tried : \E i \in 1 .. Len(s.list) : s.list[i] = d
    BY <1>2 DEF IsListed
  <2>5. s.list \in Bijection(1 .. Len(s.list), s.tried)
    BY <2>2, <2>3, <2>4, Fun_IsBij
  <2>6. IsFiniteSet(1 .. Len(s.list)) /\ Cardinality(1 .. Len(s.list)) = Len(s.list)
    BY <1>0, FS_Interval
  <2>7. ExistsBijection(1 .. Len(s.list), s.tried)
    BY <2>5 DEF ExistsBijection
  <2> QED BY <2>6, <2>7, FS_Bijection
<1>4. s.tried \subseteq Members
  BY <1>1, <1>2
<1>5. ASSUME NEW d \in Members \ s.tried
      PROVE  s.kind = "robin" /\ Cardinality(s.tried) = MaxListed /\ \A e \in s.tried : e < d
  <2>1. LeftOut(s, d)
    BY <1>1 DEF Searched
  <2> QED BY <1>2, <1>3, <2>1 DEF Searched, LeftOut, IsListed
<1>6. s.exists <=> Members # {}
  <2>1. ASSUME NEW d \in Members PROVE s.tried # {}
    <3>1. CASE IsListed(s, d)
      BY <1>1, <3>1
    <3>2. CASE LeftOut(s, d)
      <4>1. 1 \in 1 .. Len(s.list)
        BY <1>0, <3>2, DevSelectAssumption DEF LeftOut
      <4> QED BY <1>1, <4>1 DEF IsListed
    <3> QED BY <3>1, <3>2 DEF Searched
  <2> QED BY <1>4, <2>1 DEF Searched
<1> QED BY <1>4, <1>5, <1>6 DEF Missed

-----------------------------------------------------------------------------
(* No thread searches at first.                                            *)
LEMMA InitOk ==
  Init => IInv
<1> SUFFICES ASSUME Init PROVE IInv
  OBVIOUS
<1>1. Idle \in SearchSet /\ Idle.pc = "idle"
  BY DEF Idle, SearchSet, Pcs
<1>2. TypeInv
  BY <1>1 DEF Init, TypeInv
<1>3. NoLockLeft
  BY DEF Init, NoLockLeft
<1>4. \A t \in Threads : th[t].pc = "idle"
  BY <1>1 DEF Init
<1> QED BY <1>2, <1>3, <1>4 DEF IInv, FoundIsLocked, BookedIsFit, Progress

(* A step of one thread that touches no call and no lock, and does not     *)
(* come out of finding a device.                                           *)
LEMMA QuietStep ==
  ASSUME IInv, NEW t \in Threads, NEW s \in SearchSet, th' = [th EXCEPT ![t] = s],
         th[t].pc # "found", s.pc # "found", Progress(s),
         UNCHANGED <<call, lock>>, last_used' \in [Devs -> BOOLEAN]
  PROVE  IInv'
<1> USE DEF IInv
<1>1. TypeInv'
  BY DEF TypeInv
<1>2. NoLockLeft'
  BY DEF NoLockLeft, TypeInv, NoLock
<1>3. FoundIsLocked'
  BY DEF FoundIsLocked, TypeInv
<1>4. BookedIsFit'
  BY DEF BookedIsFit, test_fn, TypeInv
<1>5. ASSUME NEW u \in Threads PROVE Progress(th[u])'
  <2>1. th'[u] = IF u = t THEN s ELSE th[u]
    BY DEF TypeInv
  <2>2. Progress(th'[u])
    BY <2>1
  <2> QED BY <2>2 DEF Progress, Scanned, Searched, WalkedTo, Missed, Slot, InOrder,
              IsListed, LeftOut
<1> QED BY <1>1, <1>2, <1>3, <1>4, <1>5

(* Testing a device: it is returned locked, or left and counted as tried.  *)
LEMMA TestOk ==
  ASSUME IInv, NEW t \in Threads, NEW d \in Members, NEW mark \in BOOLEAN,
         TestDevice(t, d, mark), UNCHANGED call,
         th[t].pc \in {"search", "first"},
         ~test_fn(d, th[t].use) =>
           Progress([th[t] EXCEPT !.at = @ + 1, !.exists = TRUE, !.tried = @ \cup {d}])
  PROVE  IInv'
<1> USE DEF IInv
<1>0. d \in Devs /\ lock[d] = NoLock /\ th[t] \in SearchSet /\ NoLock \notin Threads
  BY DevSelectAssumption DEF TestDevice, TypeInv, Devs, NoLock
<1>1. CASE test_fn(d, th[t].use)
  <2> DEFINE s == [th[t] EXCEPT !.pc = "found", !.found = d, !.exists = TRUE, !.tried = @ \cup {d}]
  <2>1. /\ th' = [th EXCEPT ![t] = s]
        /\ lock' = [lock EXCEPT ![d] = t]
        /\ last_used' = [last_used EXCEPT ![d] = @ \/ mark]
    BY <1>1 DEF TestDevice
  <2>2. s \in SearchSet /\ s.pc = "found" /\ s.found = d /\ s.use = th[t].use
    <3>1. th[t].tried \cup {d} \in SUBSET Devs /\ d \in Nat /\ TRUE \in BOOLEAN /\ "found" \in Pcs
      BY <1>0 DEF SearchSet, Pcs, Devs
    <3>2. s \in SearchSet
      BY <1>0, <3>1, Zenon DEF SearchSet
    <3> QED BY <1>0, <3>2 DEF SearchSet
  <2>3. (last_used[d] \/ mark) \in BOOLEAN
    BY <1>0 DEF TypeInv
  <2>4. TypeInv'
    BY <1>0, <2>1, <2>2, <2>3 DEF TypeInv
  <2> HIDE DEF s
  <2>5. \A u \in Threads : th'[u] = IF u = t THEN s ELSE th[u]
    BY <2>1 DEF TypeInv
  <2>6. \A e \in Devs : lock'[e] = IF e = d THEN t ELSE lock[e]
    BY <2>1 DEF TypeInv
  <2>7. NoLockLeft'
    BY <1>0, <2>2, <2>5, <2>6 DEF NoLockLeft, TypeInv
  <2>8. FoundIsLocked'
    BY <1>0, <2>2, <2>5, <2>6 DEF FoundIsLocked
  <2>9. BookedIsFit'
    BY <1>1, <2>2, <2>5 DEF BookedIsFit, test_fn
  <2>10. ASSUME NEW u \in Threads PROVE Progress(th[u])'
    <3>1. Progress(s)
      BY <2>2 DEF Progress
    <3>2. Progress(th'[u])
      BY <2>5, <3>1
    <3> QED BY <3>2 DEF Progress, Scanned, Searched, WalkedTo, Missed, Slot, InOrder,
              IsListed, LeftOut
  <2> QED BY <2>4, <2>7, <2>8, <2>9, <2>10
<1>2. CASE ~test_fn(d, th[t].use)
  <2> DEFINE s == [th[t] EXCEPT !.at = @ + 1, !.exists = TRUE, !.tried = @ \cup {d}]
  <2>1. th' = [th EXCEPT ![t] = s] /\ UNCHANGED <<lock, last_used>>
    BY <1>2 DEF TestDevice
  <2>2. s \in SearchSet /\ s.pc = th[t].pc
    <3>1. th[t].tried \cup {d} \in SUBSET Devs /\ th[t].at + 1 \in Nat /\ TRUE \in BOOLEAN
      BY <1>0 DEF SearchSet
    <3>2. s \in SearchSet
      BY <1>0, <3>1, Zenon DEF SearchSet
    <3> QED BY <1>0, <3>2 DEF SearchSet
  <2>3. Progress(s)
    BY <1>2
  <2> HIDE DEF s
  <2> QED BY <2>1, <2>2, <2>3, QuietStep DEF TypeInv
<1> QED BY <1>1, <1>2

(* A search begins with nothing tried and no lock.                         *)
LEMMA BeginOk ==
  ASSUME IInv, NEW t \in Threads, NEW kind \in Kinds, NEW use \in Uses, Begin(t, kind, use)
  PROVE  IInv'
<1> DEFINE s == [Idle EXCEPT !.pc = IF kind = "robin" THEN "scan" ELSE "first",
                             !.kind = kind, !.use = use, !.at = 1]
<1>1. th' = [th EXCEPT ![t] = s] /\ UNCHANGED <<call, lock, last_used>> /\ th[t].pc = "idle"
  BY DEF Begin
<1>2. s \in SearchSet
  <2>1. /\ kind \in {"first", "robin"} /\ use \in {"dial", "hold", "status", "statusex"}
        /\ 1 \in Nat /\ (IF kind = "robin" THEN "scan" ELSE "first") \in Pcs
    BY DevSelectAssumption DEF Pcs
  <2>2. Idle \in SearchSet
    BY DEF Idle, SearchSet, Pcs
  <2> QED BY <2>1, <2>2, Zenon DEF SearchSet
<1>3. s.pc \in {"scan", "first"} /\ s.at = 1 /\ s.list = <<>> /\ s.from = 0 /\ s.tried = {}
      /\ s.exists = FALSE /\ s.kind = kind /\ (s.pc = "scan" => kind = "robin")
  BY DEF Idle
<1>4. \A d \in Members : ~(d < 1)
  BY DevSelectAssumption
<1> HIDE DEF s
<1>5. s.pc = "scan" => Scanned(s)
  BY <1>3, <1>4, DevSelectAssumption DEF Scanned, InOrder
<1>6. WalkedTo(s)
  BY <1>3, <1>4, DevSelectAssumption DEF WalkedTo
<1>7. Progress(s)
  BY <1>3, <1>5, <1>6 DEF Progress
<1> QED BY <1>1, <1>2, <1>3, <1>7, QuietStep DEF IInv, TypeInv

(* One more device is listed, and its mark may say where to begin.         *)
LEMMA ScanOk ==
  ASSUME IInv, NEW t \in Threads, Scan(t)
  PROVE  IInv'
<1> DEFINE s == th[t]
<1>1. s \in SearchSet /\ Scanned(s) /\ s.pc = "scan" /\ UNCHANGED <<call, lock>>
  BY DEF IInv, TypeInv, Progress, Scan
<1>2. CASE s.at > N \/ Len(s.list) = MaxListed
  <2> DEFINE r == [s EXCEPT !.pc = "search", !.at = 0]
  <2>1. th' = [th EXCEPT ![t] = r] /\ UNCHANGED last_used
    BY <1>2 DEF Scan
  <2>2. r \in SearchSet
    <3>1. "search" \in Pcs /\ 0 \in Nat
      BY DEF Pcs
    <3> HIDE DEF s
    <3> QED BY <1>1, <3>1, Zenon DEF SearchSet
  <2>3. /\ r.pc = "search" /\ r.at = 0 /\ r.list = s.list /\ r.from = s.from
        /\ r.tried = {} /\ r.exists = FALSE /\ r.kind = "robin"
    BY <1>1 DEF SearchSet, Scanned
  <2> HIDE DEF r, s
  <2>4. \A d \in Members : IsListed(r, d) \/ LeftOut(r, d)
    <3> SUFFICES ASSUME NEW d \in Members PROVE IsListed(r, d) \/ LeftOut(r, d)
      OBVIOUS
    <3>1. s.at \in Nat /\ d \in Nat /\ d <= N /\ N \in Nat
      BY <1>1, DevSelectAssumption DEF SearchSet
    <3>2. CASE d < s.at
      BY <1>1, <2>3, <3>2 DEF Scanned, IsListed
    <3>3. CASE ~(d < s.at)
      <4>1. Len(r.list) = MaxListed
        BY <1>2, <2>3, <3>1, <3>3
      <4>2. ASSUME NEW i \in 1 .. Len(r.list) PROVE r.list[i] < d
        <5>1. r.list[i] \in Nat
          BY <2>2, ListedIsNat
        <5>2. r.list[i] < s.at
          BY <1>1, <2>3 DEF Scanned
        <5> QED BY <3>1, <3>3, <5>1, <5>2
      <4> QED BY <4>1, <4>2 DEF LeftOut
    <3> QED BY <3>2, <3>3
  <2>5. Searched(r)
    BY <1>1, <2>2, <2>3, <2>4 DEF Scanned, Searched, SearchSet, InOrder
  <2>6. Progress(r)
    BY <2>3, <2>5 DEF Progress
  <2> USE DEF s
  <2> QED BY <1>1, <2>1, <2>2, <2>3, <2>6, QuietStep DEF IInv, TypeInv
<1>3. CASE ~(s.at > N \/ Len(s.list) = MaxListed) /\ s.at \notin Members
  <2> DEFINE r == [s EXCEPT !.at = s.at + 1]
  <2>1. th' = [th EXCEPT ![t] = r] /\ UNCHANGED last_used
    BY <1>3 DEF Scan
  <2>2. r \in SearchSet
    BY <1>1 DEF SearchSet
  <2>3. /\ r.pc = "scan" /\ r.at = s.at + 1 /\ r.list = s.list /\ r.from = s.from
        /\ r.tried = s.tried /\ r.exists = s.exists /\ r.kind = s.kind
    BY <1>1 DEF SearchSet
  <2>4. \A d \in Members : d < s.at + 1 => d < s.at
    <3>1. s.at \in Nat
      BY <1>1 DEF SearchSet
    <3>2. \A d \in Members : d \in Nat /\ d # s.at
      BY <1>3, DevSelectAssumption
    <3> HIDE DEF s
    <3> QED BY <3>1, <3>2
  <2>5. s.at + 1 \in 1 .. N + 1
    BY <1>1, <1>3, DevSelectAssumption DEF SearchSet, Scanned
  <2> HIDE DEF r, s
  <2>6. Scanned(r)
    <3>1. ASSUME NEW i \in 1 .. Len(r.list) PROVE r.list[i] < r.at
      <4>1. r.list[i] \in Nat
        BY <2>2, ListedIsNat
      <4>2. s.at \in Nat /\ r.list[i] < s.at
        BY <1>1, <2>3 DEF SearchSet, Scanned
      <4> QED BY <2>3, <4>1, <4>2
    <3>2. InOrder(r) /\ \A d \in Members : d < r.at => IsListed(r, d)
      BY <1>1, <2>3, <2>4 DEF Scanned, InOrder, IsListed
    <3> QED BY <1>1, <2>3, <2>5, <3>1, <3>2 DEF Scanned
  <2>7. Progress(r)
    BY <2>3, <2>6 DEF Progress
  <2> USE DEF s
  <2> QED BY <1>1, <2>1, <2>2, <2>3, <2>7, QuietStep DEF IInv, TypeInv
<1>4. CASE ~(s.at > N \/ Len(s.list) = MaxListed) /\ s.at \in Members
  <2> DEFINE f == IF last_used[s.at] THEN Len(s.list) ELSE s.from
             r == [s EXCEPT !.at = s.at + 1, !.list = Append(s.list, s.at), !.from = f]
  <2>1. th' = [th EXCEPT ![t] = r] /\ last_used' = [last_used EXCEPT ![s.at] = FALSE]
    BY <1>4 DEF Scan
  <2>2. /\ s.at + 1 \in 1 .. N + 1 /\ s.at \in Devs /\ s.list \in Seq(Devs) /\ Len(s.list) \in Nat
        /\ f \in Nat /\ f <= Len(s.list)
    BY <1>1, <1>4, DevSelectAssumption DEF SearchSet, Scanned, Devs
  <2>3. Append(s.list, s.at) \in Seq(Devs) /\ s.at + 1 \in Nat
    BY <2>2, DevSelectAssumption
  <2>4. r \in SearchSet
    <3> HIDE DEF s, f
    <3> QED BY <1>1, <2>2, <2>3, Zenon DEF SearchSet
  <2>5. /\ r.pc = "scan" /\ r.at = s.at + 1 /\ r.list = Append(s.list, s.at) /\ r.from = f
        /\ r.tried = s.tried /\ r.exists = s.exists /\ r.kind = s.kind
    BY <1>1 DEF SearchSet
  <2> HIDE DEF r, s, f
  <2>6. \A d \in Members : d < s.at + 1 => d < s.at \/ d = s.at
    <3>1. s.at \in Nat /\ \A d \in Members : d \in Nat
      BY <2>2, DevSelectAssumption DEF Devs
    <3> QED BY <3>1
  <2>7. /\ Len(r.list) = Len(s.list) + 1
        /\ \A i \in 1 .. Len(s.list) : r.list[i] = s.list[i]
        /\ r.list[Len(s.list) + 1] = s.at
    BY <2>2, <2>5
  <2>8. Scanned(r)
    <3>1. ASSUME NEW d \in Members, d < r.at
          PROVE  IsListed(r, d)
      <4>1. CASE d = s.at
        BY <2>2, <2>7, <4>1 DEF IsListed
      <4>2. CASE d < s.at
        <5>1. PICK i \in 1 .. Len(s.list) : s.list[i] = d
          BY <1>1, <4>2 DEF Scanned, IsListed
        <5> QED BY <2>2, <2>7, <5>1 DEF IsListed
      <4> QED BY <2>5, <2>6, <3>1, <4>1, <4>2
    <3>2. ASSUME NEW i \in 1 .. Len(r.list)
          PROVE  r.list[i] \in Members
      <4>1. i \in 1 .. Len(s.list) \/ i = Len(s.list) + 1
        BY <2>2, <2>7
      <4> QED BY <1>1, <1>4, <2>7, <4>1 DEF Scanned, InOrder
    <3>3. r.from <= Len(r.list) /\ r.from < Len(r.list)
      BY <2>2, <2>5, <2>7
    <3>4. ASSUME NEW i \in 1 .. Len(s.list) PROVE s.list[i] < s.at /\ s.list[i] \in Nat
      BY <1>1, ListedIsNat DEF Scanned
    <3>5. ASSUME NEW i \in 1 .. Len(r.list) PROVE r.list[i] < r.at
      <4>1. s.at \in Nat /\ (i \in 1 .. Len(s.list) \/ i = Len(s.list) + 1)
        BY <2>2, <2>7 DEF Devs
      <4>2. r.list[i] \in Nat /\ r.list[i] <= s.at
        BY <2>7, <3>4, <4>1
      <4> QED BY <2>5, <4>1, <4>2
    <3>6. ASSUME NEW i \in 1 .. Len(r.list), NEW j \in 1 .. Len(r.list), i < j
          PROVE  r.list[i] < r.list[j]
      <4>1. i \in 1 .. Len(s.list)
        BY <2>2, <2>7, <3>6
      <4>2. CASE j \in 1 .. Len(s.list)
        BY <1>1, <2>7, <3>6, <4>1, <4>2 DEF Scanned, InOrder
      <4>3. CASE j = Len(s.list) + 1
        BY <2>7, <3>4, <4>1, <4>3
      <4> QED BY <2>2, <2>7, <4>2, <4>3
    <3>7. Len(r.list) <= MaxListed
      BY <1>1, <1>4, <2>2, <2>7, DevSelectAssumption DEF Scanned
    <3>8. InOrder(r)
      BY <3>2, <3>6 DEF InOrder
    <3> QED BY <1>1, <2>2, <2>5, <3>1, <3>3, <3>5, <3>7, <3>8 DEF Scanned
  <2>9. Progress(r)
    BY <2>5, <2>8 DEF Progress
  <2>10. last_used' \in [Devs -> BOOLEAN]
    BY <2>1 DEF IInv, TypeInv
  <2> USE DEF s
  <2> QED BY <1>1, <2>1, <2>4, <2>5, <2>9, <2>10, QuietStep
<1> QED BY <1>2, <1>3, <1>4

(* The next device in turn.                                                *)
LEMMA SearchOk ==
  ASSUME IInv, NEW t \in Threads, Search(t)
  PROVE  IInv'
<1> DEFINE s == th[t]
<1>1. s \in SearchSet /\ Searched(s) /\ s.pc = "search" /\ UNCHANGED call
  BY DEF IInv, TypeInv, Progress, Search
<1>2. CASE s.at = Len(s.list)
  <2> DEFINE r == [s EXCEPT !.pc = "none"]
  <2>1. th' = [th EXCEPT ![t] = r] /\ UNCHANGED <<lock, last_used>>
    BY <1>2 DEF Search
  <2>2. r \in SearchSet
    BY <1>1 DEF SearchSet, Pcs
  <2>3. r.pc = "none" /\ r.tried = s.tried /\ r.exists = s.exists /\ r.kind = s.kind
    BY <1>1 DEF SearchSet
  <2> HIDE DEF r, s
  <2>4. Missed(s)
    BY <1>1, <1>2, AroundTriesAll
  <2>5. Progress(r)
    BY <2>3, <2>4 DEF Progress, Missed
  <2> USE DEF s
  <2> QED BY <1>1, <2>1, <2>2, <2>3, <2>5, QuietStep DEF IInv, TypeInv
<1>3. CASE s.at # Len(s.list)
  <2> DEFINE d == s.list[Slot(s, s.at) + 1]
             r == [s EXCEPT !.at = @ + 1, !.exists = TRUE, !.tried = @ \cup {d}]
  <2>1. TestDevice(t, d, TRUE)
    BY <1>3 DEF Search, Slot
  <2>2. s.at \in Nat /\ Len(s.list) \in Nat /\ s.at < Len(s.list) /\ s.list \in Seq(Devs)
    BY <1>1, <1>3 DEF Searched, SearchSet
  <2>3. Slot(s, s.at) + 1 \in 1 .. Len(s.list)
    <3> HIDE DEF s
    <3> QED BY <1>1, <2>2, SlotInList
  <2>4. d \in Members /\ IsListed(s, d)
    BY <1>1, <2>3 DEF Searched, InOrder, IsListed
  <2>5. /\ r.pc = "search" /\ r.at = s.at + 1 /\ r.list = s.list /\ r.from = s.from
        /\ r.tried = s.tried \cup {d} /\ r.exists = TRUE /\ r.kind = s.kind
    BY <1>1 DEF SearchSet
  <2> HIDE DEF r, s
  <2>6. Searched(r)
    <3>1. ASSUME NEW i \in Nat, i < r.at
          PROVE  r.list[Slot(r, i) + 1] \in r.tried
      <4>1. Slot(r, i) = Slot(s, i)
        BY <2>5 DEF Slot
      <4>2. i < s.at \/ i = s.at
        BY <2>2, <2>5, <3>1
      <4> QED BY <1>1, <2>5, <4>1, <4>2 DEF Searched
    <3>2. r.at \in 0 .. Len(r.list)
      BY <2>2, <2>5
    <3>3. (\A e \in r.tried : IsListed(r, e)) /\ (r.exists <=> r.tried # {})
      <4>1. \A e : IsListed(r, e) <=> IsListed(s, e)
        BY <2>5 DEF IsListed
      <4>2. \A e \in s.tried : IsListed(s, e)
        BY <1>1 DEF Searched
      <4> QED BY <2>4, <2>5, <4>1, <4>2
    <3>4. InOrder(r) /\ \A e \in Members : IsListed(r, e) \/ LeftOut(r, e)
      BY <1>1, <2>5 DEF Searched, InOrder, IsListed, LeftOut
    <3> QED BY <1>1, <2>5, <3>1, <3>2, <3>3, <3>4 DEF Searched
  <2>7. Progress(r)
    BY <2>5, <2>6 DEF Progress
  <2> HIDE DEF d
  <2> USE DEF r, s
  <2> QED BY <1>1, <2>1, <2>4, <2>7, TestOk
<1> QED BY <1>2, <1>3

(* The next device down the list.                                          *)
LEMMA SearchFirstOk ==
  ASSUME IInv, NEW t \in Threads, SearchFirst(t)
  PROVE  IInv'
<1> DEFINE s == th[t]
<1>1. s \in SearchSet /\ WalkedTo(s) /\ s.pc = "first" /\ UNCHANGED call
  BY DEF IInv, TypeInv, Progress, SearchFirst
<1>0. s.at \in Nat /\ \A d \in Members : d \in 1 .. N
  BY <1>1, DevSelectAssumption DEF SearchSet
<1>2. CASE s.at > N
  <2> DEFINE r == [s EXCEPT !.pc = "none"]
  <2>1. th' = [th EXCEPT ![t] = r] /\ UNCHANGED <<lock, last_used>>
    BY <1>2 DEF SearchFirst
  <2>2. r \in SearchSet
    BY <1>1 DEF SearchSet, Pcs
  <2>3. r.pc = "none" /\ r.tried = s.tried /\ r.exists = s.exists
    BY <1>1 DEF SearchSet
  <2> HIDE DEF r, s
  <2>4. \A d \in Members : d < s.at
    BY <1>0, <1>2, DevSelectAssumption
  <2>5. s.tried = Members
    BY <1>1, <2>4 DEF WalkedTo
  <2>6. Progress(r)
    BY <1>1, <2>3, <2>5 DEF Progress, Missed, WalkedTo
  <2> USE DEF s
  <2> QED BY <1>1, <2>1, <2>2, <2>3, <2>6, QuietStep DEF IInv, TypeInv
<1>3. CASE ~(s.at > N) /\ s.at \notin Members
  <2> DEFINE r == [s EXCEPT !.at = s.at + 1]
  <2>1. th' = [th EXCEPT ![t] = r] /\ UNCHANGED <<lock, last_used>>
    BY <1>3 DEF SearchFirst
  <2>2. r \in SearchSet
    BY <1>1 DEF SearchSet
  <2>3. r.pc = "first" /\ r.at = s.at + 1 /\ r.tried = s.tried /\ r.exists = s.exists
    BY <1>1 DEF SearchSet
  <2> HIDE DEF r, s
  <2>4. \A d \in Members : d < s.at + 1 <=> d < s.at
    BY <1>0, <1>3, DevSelectAssumption
  <2>5. s.at + 1 \in 1 .. N + 1
    BY <1>0, <1>1, <1>3, DevSelectAssumption DEF WalkedTo
  <2>6. WalkedTo(r)
    BY <1>1, <2>3, <2>4, <2>5 DEF WalkedTo
  <2>7. Progress(r)
    BY <2>3, <2>6 DEF Progress
  <2> USE DEF s
  <2> QED BY <1>1, <2>1, <2>2, <2>3, <2>7, QuietStep DEF IInv, TypeInv
<1>4. CASE ~(s.at > N) /\ s.at \in Members
  <2> DEFINE d == s.at
             r == [s EXCEPT !.at = @ + 1, !.exists = TRUE, !.tried = @ \cup {d}]
  <2>1. TestDevice(t, d, FALSE)
    BY <1>4 DEF SearchFirst
  <2>2. /\ r.pc = "first" /\ r.at = s.at + 1 /\ r.tried = s.tried \cup {s.at} /\ r.exists = TRUE
    BY <1>1 DEF SearchSet
  <2> HIDE DEF r, s
  <2>3. \A e \in Members : e < s.at + 1 <=> (e < s.at \/ e = s.at)
    BY <1>0, DevSelectAssumption
  <2>4. s.at + 1 \in 1 .. N + 1
    BY <1>0, <1>1, <1>4, DevSelectAssumption DEF WalkedTo
  <2>5. WalkedTo(r)
    BY <1>1, <1>4, <2>2, <2>3, <2>4 DEF WalkedTo
  <2>6. Progress(r)
    BY <2>2, <2>5 DEF Progress
  <2> USE DEF r, s
  <2> QED BY <1>1, <1>4, <2>1, <2>6, TestOk
<1> QED BY <1>2, <1>3, <1>4

(* The call is made on the device that was found, which is unlocked.       *)
LEMMA FoundOk ==
  ASSUME IInv, NEW t \in Threads, Found(t)
  PROVE  IInv'
<1> USE DEF IInv
<1> DEFINE d == th[t].found
<1>0. /\ d \in Devs /\ lock[d] = t /\ NoLock \notin Threads
      /\ th' = [th EXCEPT ![t] = Idle] /\ lock' = [lock EXCEPT ![d] = NoLock]
      /\ call' = (IF th[t].use \in {"dial", "hold"} THEN [call EXCEPT ![d] = "init"] ELSE call)
      /\ last_used' = last_used
  BY DevSelectAssumption DEF FoundIsLocked, Found, NoLock
<1>1. Idle \in SearchSet /\ Idle.pc = "idle"
  BY DEF Idle, SearchSet, Pcs
<1>2. TypeInv'
  BY <1>0, <1>1 DEF TypeInv
<1>3. \A u \in Threads : th'[u] = IF u = t THEN Idle ELSE th[u]
  BY <1>0 DEF TypeInv
<1>4. \A e \in Devs : /\ lock'[e] = IF e = d THEN NoLock ELSE lock[e]
                      /\ e # d => call'[e] = call[e]
  BY <1>0 DEF TypeInv
<1>5. NoLockLeft'
  BY <1>0, <1>1, <1>3, <1>4 DEF NoLockLeft, TypeInv
<1>6. FoundIsLocked'
  BY <1>0, <1>1, <1>3, <1>4 DEF FoundIsLocked
<1>7. BookedIsFit'
  BY <1>0, <1>1, <1>3, <1>4 DEF BookedIsFit, FoundIsLocked, test_fn
<1>8. ASSUME NEW u \in Threads PROVE Progress(th[u])'
  <2>1. Progress(th'[u])
    BY <1>1, <1>3 DEF Progress
  <2> QED BY <2>1 DEF Progress, Scanned, Searched, WalkedTo, Missed, Slot, InOrder,
              IsListed, LeftOut
<1> QED BY <1>2, <1>5, <1>6, <1>7, <1>8

(* A device changes only while nobody has it locked.                       *)
LEMMA DeviceOk ==
  ASSUME IInv, NEW d \in Devs, Device(d)
  PROVE  IInv'
<1> USE DEF IInv
<1>0. /\ UNCHANGED <<lock, last_used, th>> /\ lock[d] = NoLock /\ NoLock \notin Threads
      /\ \E x \in {"none", "init", "active", "off"} : call' = [call EXCEPT ![d] = x]
  BY DevSelectAssumption DEF Device, NoLock
<1>1. TypeInv'
  BY <1>0 DEF TypeInv
<1>2. NoLockLeft' /\ FoundIsLocked'
  BY <1>0 DEF NoLockLeft, FoundIsLocked
<1>3. BookedIsFit'
  BY <1>0 DEF BookedIsFit, FoundIsLocked, test_fn, TypeInv
<1>4. ASSUME NEW t \in Threads PROVE Progress(th[t])'
  <2>1. Progress(th'[t])
    BY <1>0
  <2> QED BY <2>1 DEF Progress, Scanned, Searched, WalkedTo, Missed, Slot, InOrder,
              IsListed, LeftOut
<1> QED BY <1>1, <1>2, <1>3, <1>4

(* Every step keeps the invariant.                                         *)
LEMMA NextOk ==
  IInv /\ [Next]_vars => IInv'
<1> SUFFICES ASSUME IInv, [Next]_vars PROVE IInv'
  OBVIOUS
<1>1. CASE \E t \in Threads, kind \in Kinds, use \in Uses : Begin(t, kind, use)
  BY <1>1, BeginOk
<1>2. ASSUME NEW t \in Threads, NotFound(t) PROVE IInv'
  <2>1. th' = [th EXCEPT ![t] = Idle] /\ th[t].pc = "none" /\ UNCHANGED <<call, lock, last_used>>
    BY <1>2 DEF NotFound
  <2>2. Idle \in SearchSet /\ Idle.pc = "idle"
    BY DEF Idle, SearchSet, Pcs
  <2> QED BY <2>1, <2>2, QuietStep DEF IInv, TypeInv, Progress
<1>3. CASE \E t \in Threads : Scan(t) \/ Search(t) \/ SearchFirst(t) \/ Found(t) \/ NotFound(t)
  BY <1>2, <1>3, ScanOk, SearchOk, SearchFirstOk, FoundOk
<1>4. CASE \E d \in Devs : Device(d)
  BY <1>4, DeviceOk
<1>5. CASE UNCHANGED vars
  <2>1. TypeInv' /\ NoLockLeft' /\ FoundIsLocked' /\ BookedIsFit'
    BY <1>5 DEF vars, IInv, TypeInv, NoLockLeft, FoundIsLocked, BookedIsFit, test_fn
  <2>2. ASSUME NEW t \in Threads PROVE Progress(th[t])'
    <3>1. Progress(th'[t])
      BY <1>5 DEF vars, IInv
    <3> QED BY <3>1 DEF Progress, Scanned, Searched, WalkedTo, Missed, Slot, InOrder,
                        IsListed, LeftOut
  <2> QED BY <2>1, <2>2 DEF IInv
<1> QED BY <1>1, <1>3, <1>4, <1>5 DEF Next

(* The invariant holds in every behaviour.                                 *)
LEMMA Inductive ==
  Spec => []IInv
BY InitOk, NextOk, PTL DEF Spec

-----------------------------------------------------------------------------
(* Every way out of pvt_find_by_resource_fn unlocks what it locked, but    *)
(* for the device it returns, and channel_request unlocks that one: with   *)
(* any number of devices and threads.                                      *)
THEOREM LeavesNoLock ==
  Spec => []NoLockLeft
<1>1. IInv => NoLockLeft
  BY DEF IInv
<1> QED BY <1>1, Inductive, PTL

(* The device channel_request was given is still fit for the call when the *)
(* call is made, whatever other threads book and however devices come and  *)
(* go.                                                                     *)
THEOREM BookedStaysFit ==
  Spec => []BookedIsFit
<1>1. IInv => BookedIsFit
  BY DEF IInv
<1> QED BY <1>1, Inductive, PTL

(* A search that gives up has tried every device of the resource, from     *)
(* wherever the round robin began; only one in turn that has tried as many *)
(* as it has room for, MAXQUECTELDEVICES, leaves any out.                  *)
THEOREM GivesUpAfterAll ==
  Spec => []TriesAll
<1>1. IInv => TriesAll
  <2> SUFFICES ASSUME IInv, NEW t \in Threads, th[t].pc = "none"
               PROVE  /\ th[t].tried \subseteq Members
                      /\ \A d \in Members \ th[t].tried :
                           /\ th[t].kind = "robin" /\ Cardinality(th[t].tried) = MaxListed
                           /\ \A e \in th[t].tried : e < d
                      /\ th[t].exists = (Members # {})
    BY DEF TriesAll
  <2>1. Missed(th[t]) /\ th[t].exists \in BOOLEAN
    BY DEF IInv, Progress, TypeInv, SearchSet
  <2> QED BY <2>1 DEF Missed
<1> QED BY <1>1, Inductive, PTL
=============================================================================
