-------------------------- MODULE BraveSearchProofs --------------------------
(***************************************************************************)
(* Proofs about BraveSearch: no number of concurrent searches of a         *)
(* campaign reserves more social queries than its policy allows, nor more  *)
(* queries than the monthly limit while the provider tells no usage.  The  *)
(* advisory lock makes it so: what a search added up stays true until it   *)
(* decides, because nobody else can insert a row meanwhile.  Beyond the    *)
(* limit, the charges are bounded by what the answers that came before it  *)
(* was reached, and are stored after, can still lead the searches to.      *)
(***************************************************************************)
EXTENDS BraveSearch, FiniteSetTheorems, TLAPS

Labels == {"idle", "begin", "wait", "decide", "request", "observe", "load", "store"}

Typed ==
    /\ IsFiniteSet(log)
    /\ pc \in [Processes -> Labels]
    /\ pc[Monitor] \notin {"begin", "wait", "decide"}
    /\ next \in [Searches -> Nat]
    /\ stamp \in [Searches -> Nat]
    /\ begun \in Nat
    /\ seen \in [Searches -> [usage : Nat, social : Nat]]
    /\ synced \in [known : BOOLEAN, queries : Nat, at : Nat]
    /\ header \in [Processes -> Nat]
    /\ observed \in [Processes -> Nat]
    /\ charged \in Nat

\* Rows are dated after the usage of a month nobody told, which is none.
Dated ==
    /\ \A r \in log : r.at > 0
    /\ \A s \in Searches : pc[s] \in {"wait", "decide"} => stamp[s] > 0
    /\ synced.known \/ synced = NeverSynced

\* Only the holder of the lock decides, on what it counted under it.
DecidesUnderLock ==
    \A s \in Searches : pc[s] = "decide" =>
        /\ lock = s
        /\ seen[s].social = SocialQueries
        /\ synced.known \/ seen[s].usage = Cardinality(log)

IInv == Typed /\ Dated /\ DecidesUnderLock /\ WithinSocialLimit /\ HardWithoutHeaders

-----------------------------------------------------------------------------
\* The social queries are a finite set, whose size is a number.
LEMMA SocialIsNat ==
    ASSUME IsFiniteSet(log)
    PROVE  SocialQueries \in Nat
  <1> DEFINE S == {r \in log : r.kind = "social"}
  <1>1. IsFiniteSet(S)
    BY FS_Subset
  <1>2. QED BY <1>1, FS_CardinalityType DEF SocialQueries

\* So is the usage.
LEMMA UsageIsNat ==
    ASSUME IsFiniteSet(log), synced \in [known : BOOLEAN, queries : Nat, at : Nat]
    PROVE  Usage \in Nat
  <1> DEFINE S == {r \in log : r.at > synced.at}
  <1>1. IsFiniteSet(S)
    BY FS_Subset
  <1>2. Cardinality(S) \in Nat
    BY <1>1, FS_CardinalityType
  <1>3. QED BY <1>2 DEF Usage

\* Without an answer of the provider the usage is the log.
LEMMA UsageOfLog ==
    ASSUME IsFiniteSet(log), Dated, ~synced.known
    PROVE  Usage = Cardinality(log)
  <1>1. {r \in log : r.at > synced.at} = log
    BY DEF Dated, NeverSynced
  <1>2. Cardinality(log) \in Nat
    BY FS_CardinalityType
  <1>3. synced.queries = 0
    BY DEF Dated, NeverSynced
  <1>4. QED BY <1>1, <1>2, <1>3 DEF Usage

\* A new row adds at most one query to the log and to the social ones, and none
\* to these if it is of another kind.
LEMMA OneMoreRow ==
    ASSUME IsFiniteSet(log), NEW row, log' = log \cup {row}
    PROVE  /\ IsFiniteSet(log')
           /\ Cardinality(log') <= Cardinality(log) + 1
           /\ SocialQueries' <= SocialQueries + 1
           /\ row.kind # "social" => SocialQueries' = SocialQueries
  <1> DEFINE S == {r \in log : r.kind = "social"}
             T == {r \in log' : r.kind = "social"}
  <1>1. IsFiniteSet(log') /\ Cardinality(log') <= Cardinality(log) + 1
    <2>1. /\ IsFiniteSet(log')
          /\ Cardinality(log') = IF row \in log THEN Cardinality(log) ELSE Cardinality(log) + 1
      BY FS_AddElement
    <2>2. Cardinality(log) \in Nat
      BY FS_CardinalityType
    <2>3. QED BY <2>1, <2>2
  <1>2. IsFiniteSet(S) /\ Cardinality(S) \in Nat
    BY FS_Subset, FS_CardinalityType
  <1>3. CASE row.kind = "social"
    <2>1. T = S \cup {row}
      BY <1>3
    <2>2. Cardinality(T) = IF row \in S THEN Cardinality(S) ELSE Cardinality(S) + 1
      BY <2>1, <1>2, FS_AddElement
    <2>3. Cardinality(T) <= Cardinality(S) + 1
      BY <2>2, <1>2
    <2>4. QED BY <1>1, <1>3, <2>3 DEF SocialQueries
  <1>4. CASE row.kind # "social"
    <2>1. T = S
      BY <1>4
    <2>2. Cardinality(T) <= Cardinality(S) + 1
      BY <2>1, <1>2
    <2>3. QED BY <1>1, <2>1, <2>2 DEF SocialQueries
  <1>5. QED BY <1>3, <1>4

-----------------------------------------------------------------------------
\* The empty log satisfies the invariant.
LEMMA InitInv == Init => IInv
  <1> SUFFICES ASSUME Init PROVE IInv
    OBVIOUS
  <1>1. SocialQueries = 0
    <2>1. {r \in log : r.kind = "social"} = {}
      BY DEF Init
    <2>2. QED BY <2>1, FS_EmptySet DEF SocialQueries
  <1>2. IsFiniteSet(log) /\ Cardinality(log) = 0
    BY FS_EmptySet DEF Init
  <1>3. SocialLimit \in Nat /\ Limit \in Nat
    BY BraveAssumption
  <1>4. Typed
    BY <1>2, BraveAssumption DEF Init, Typed, Labels, Processes, NeverSynced, NothingSeen
  <1>5. Dated /\ DecidesUnderLock
    BY DEF Init, Dated, DecidesUnderLock, Processes
  <1>6. QED
    BY <1>1, <1>2, <1>3, <1>4, <1>5 DEF IInv, WithinSocialLimit, HardWithoutHeaders

\* A step that leaves the log and the processes that decide alone.
LEMMA LogSame ==
    ASSUME IInv, Typed', log' = log, synced'.known \/ synced' = synced,
           \A s \in Searches : pc'[s] \in {"wait", "decide"} => stamp'[s] > 0,
           \A s \in Searches : pc'[s] = "decide" =>
               pc[s] = "decide" /\ seen'[s] = seen[s] /\ lock' = lock
    PROVE  IInv'
  <1>1. SocialQueries' = SocialQueries
    BY DEF SocialQueries
  <1>2. Dated'
    BY DEF IInv, Dated, NeverSynced
  <1>3. DecidesUnderLock'
    BY <1>1 DEF IInv, DecidesUnderLock
  <1>4. QED BY <1>1, <1>2, <1>3 DEF IInv, WithinSocialLimit, HardWithoutHeaders

\* A step of one process to a point where it does not decide.
LEMMA Moves ==
    ASSUME IInv, NEW p \in Processes, NEW label \in Labels \ {"decide"},
           Goto(p, label), Typed', log' = log, synced'.known \/ synced' = synced,
           label = "wait" => stamp'[p] > 0,
           \A s \in Searches : s # p => stamp'[s] = stamp[s],
           \A s \in Searches : s # p /\ pc[s] = "decide" => seen'[s] = seen[s] /\ lock' = lock
    PROVE  IInv'
  <1>1. \A s \in Searches : pc'[s] = "decide" => s # p /\ pc[s] = "decide"
    BY DEF Goto, IInv, Typed, Processes
  <1>2. \A s \in Searches : s # p => pc'[s] = pc[s]
    BY DEF Goto, IInv, Typed, Processes
  <1>3. p \in Searches => pc'[p] = label
    BY DEF Goto, IInv, Typed
  <1>4. \A s \in Searches : pc'[s] \in {"wait", "decide"} => stamp'[s] > 0
    BY <1>2, <1>3 DEF IInv, Dated
  <1>5. QED BY <1>1, <1>4, LogSame

\* Where a search goes after a query.
LEMMA Continues ==
    ASSUME Typed, NEW s \in Searches, Continue(s)
    PROVE  /\ \E label \in {"idle", "begin"} : Goto(s, label)
           /\ next' \in [Searches -> Nat]
  <1>1. CASE next[s] = Len(Plan)
    BY <1>1 DEF Continue, Typed
  <1>2. CASE next[s] # Len(Plan)
    <2>1. Goto(s, "begin") /\ next' = [next EXCEPT ![s] = next[s] + 1]
      BY <1>2 DEF Continue
    <2>2. next[s] + 1 \in Nat
      BY DEF Typed
    <2>3. next' \in [Searches -> Nat]
      BY <2>1, <2>2 DEF Typed
    <2>4. QED BY <2>1, <2>3
  <1>3. QED BY <1>1, <1>2

\* No process leaves its labels.
LEMMA PcTyped ==
    ASSUME Typed, NEW p \in Processes, NEW label \in Labels, Goto(p, label),
           p = Monitor => label \notin {"begin", "wait", "decide"}
    PROVE  /\ pc' \in [Processes -> Labels]
           /\ pc'[Monitor] \notin {"begin", "wait", "decide"}
  BY DEF Goto, Typed, Processes

\* A search begins.
LEMMA SearchInv == ASSUME IInv, NEW s \in Searches, Search(s) PROVE IInv'
  <1>1. s \in Processes /\ s # Monitor /\ Goto(s, "begin")
    BY BraveAssumption DEF Processes, Search
  <1>2. pc' \in [Processes -> Labels] /\ pc'[Monitor] \notin {"begin", "wait", "decide"}
    BY <1>1, PcTyped DEF IInv, Labels
  <1>3. next' \in [Searches -> Nat]
    BY DEF IInv, Typed, Search
  <1>4. Typed'
    BY <1>2, <1>3 DEF IInv, Typed, Search, store, reserving, syncing
  <1>5. QED BY <1>1, <1>4, Moves DEF Search, store, reserving, Labels

\* reserve begins.
LEMMA BeginInv == ASSUME IInv, NEW s \in Searches, Begin(s) PROVE IInv'
  <1>1. Typed'
    BY PcTyped DEF IInv, Typed, Begin, syncing, counters, Labels, Processes
  <1>2. stamp'[s] > 0 /\ \A t \in Searches : t # s => stamp'[t] = stamp[t]
    BY DEF IInv, Typed, Begin
  <1>3. QED BY <1>1, <1>2, Moves DEF Begin, Labels, Processes

\* The lock is granted; nobody else decides then.
LEMMA LockInv == ASSUME IInv, NEW s \in Searches, Lock(s) PROVE IInv'
  <1>1. seen' \in [Searches -> [usage : Nat, social : Nat]]
    BY SocialIsNat, UsageIsNat DEF IInv, Typed, Lock
  <1>2. Typed'
    BY <1>1, PcTyped, BraveAssumption
    DEF IInv, Typed, Lock, syncing, counters, Labels, Processes
  <1>3. \A t \in Searches : pc[t] # "decide"
    BY BraveAssumption DEF IInv, DecidesUnderLock, Lock
  <1>4. \A t \in Searches : pc'[t] = "decide" => t = s
    BY <1>3 DEF Lock, Goto, IInv, Typed, Processes
  <1>5. seen'[s].social = SocialQueries /\ seen'[s].usage = Usage /\ lock' = s
    BY DEF Lock, IInv, Typed
  <1>6. SocialQueries' = SocialQueries
    BY DEF SocialQueries, Lock
  <1>7. synced'.known \/ seen'[s].usage = Cardinality(log')
    BY <1>5, UsageOfLog DEF Lock, IInv, Typed
  <1>8. DecidesUnderLock'
    BY <1>4, <1>5, <1>6, <1>7 DEF DecidesUnderLock
  <1>9. Dated'
    BY DEF Lock, Goto, IInv, Typed, Dated, Processes, NeverSynced
  <1>10. QED BY <1>2, <1>6, <1>8, <1>9 DEF Lock, IInv, WithinSocialLimit, HardWithoutHeaders

\* The decision.  The row it inserts is counted on top of what it saw, and it
\* saw all of them.
LEMMA ReserveInv == ASSUME IInv, NEW s \in Searches, Reserve(s) PROVE IInv'
  <1> USE DEF IInv
  <1>1. /\ lock = s
        /\ seen[s].social = SocialQueries
        /\ synced.known \/ seen[s].usage = Cardinality(log)
    BY DEF Reserve, DecidesUnderLock
  <1>2. seen' \in [Searches -> [usage : Nat, social : Nat]] /\ stamp' \in [Searches -> Nat]
    BY DEF Reserve, Return, Typed, NothingSeen
  <1>3. \A t \in Searches : pc[t] = "decide" => t = s
    BY <1>1 DEF DecidesUnderLock
  <1>4. s \in Processes /\ s # Monitor
    BY BraveAssumption DEF Processes
  <1>5. ASSUME NEW label \in Labels \ {"wait", "decide"}, Goto(s, label), IsFiniteSet(log'),
               next' \in [Searches -> Nat], SocialQueries' <= SocialLimit,
               HardWithoutHeaders', \A r \in log' : r.at > 0
        PROVE  IInv'
    <2>1. Typed'
      BY <1>2, <1>4, <1>5, PcTyped DEF Typed, Reserve, syncing, counters
    <2>2. \A t \in Searches : pc'[t] # "decide"
      BY <1>3, <1>4, <1>5 DEF Goto, Typed, Processes
    <2>3. \A t \in Searches : pc'[t] = "wait" => stamp'[t] > 0
      <3>1. \A t \in Searches : pc'[t] = "wait" => t # s /\ pc[t] = "wait"
        BY <1>4, <1>5 DEF Goto, Typed, Processes
      <3>2. \A t \in Searches : t # s => stamp'[t] = stamp[t]
        BY DEF Reserve, Return, Typed
      <3>3. QED BY <3>1, <3>2 DEF Dated
    <2>4. Dated'
      BY <1>5, <2>2, <2>3 DEF Dated, Reserve, NeverSynced
    <2>5. QED BY <2>1, <2>2, <2>4, <1>5 DEF DecidesUnderLock, WithinSocialLimit
  <1>6. CASE log' = log
    <2>1. SocialQueries' = SocialQueries /\ IsFiniteSet(log')
      BY <1>6 DEF SocialQueries, Typed
    <2> HardWithoutHeaders' /\ \A r \in log' : r.at > 0
      BY <1>6 DEF HardWithoutHeaders, Reserve, Dated
    <2>2. CASE SocialExhausted(s) /\ Continue(s)
      <3>1. PICK label \in {"idle", "begin"} : Goto(s, label)
        BY <2>2, Continues
      <3>2. next' \in [Searches -> Nat]
        BY <2>2, Continues
      <3>3. QED BY <2>1, <3>1, <3>2, <1>5 DEF Labels, WithinSocialLimit
    <2>3. CASE Goto(s, "idle") /\ next' = next
      BY <2>1, <2>3, <1>5 DEF Labels, WithinSocialLimit, Typed
    <2>4. CASE Goto(s, "request") /\ next' = next
      BY <2>1, <2>4, <1>5 DEF Labels, WithinSocialLimit, Typed
    <2>5. QED BY <2>2, <2>3, <2>4 DEF Reserve
  <1>7. CASE log' # log
    <2>1. /\ ~SocialExhausted(s) /\ ~Exhausted(s)
          /\ log' = log \cup {[at |-> stamp[s], kind |-> Plan[next[s]]]}
          /\ Goto(s, "request")
          /\ next' = next
      BY <1>7 DEF Reserve
    <2>2. /\ IsFiniteSet(log')
          /\ Cardinality(log') <= Cardinality(log) + 1
          /\ SocialQueries' <= SocialQueries + 1
          /\ Plan[next[s]] # "social" => SocialQueries' = SocialQueries
      <3> DEFINE row == [at |-> stamp[s], kind |-> Plan[next[s]]]
      <3>1. IsFiniteSet(log) /\ log' = log \cup {row} /\ row.kind = Plan[next[s]]
        BY <2>1 DEF Typed
      <3> HIDE DEF row
      <3>2. QED BY <3>1, OneMoreRow
    <2>3. SocialQueries \in Nat /\ SocialQueries' \in Nat /\ SocialLimit \in Nat
      <3>1. SocialQueries' \in Nat
        <4>1. IsFiniteSet({r \in log' : r.kind = "social"})
          BY <2>2, FS_Subset
        <4>2. QED BY <4>1, FS_CardinalityType DEF SocialQueries
      <3>2. QED BY <3>1, SocialIsNat, BraveAssumption DEF Typed
    <2>4. SocialQueries' <= SocialLimit
      <3>1. CASE Plan[next[s]] = "social"
        BY <3>1, <1>1, <2>1, <2>2, <2>3 DEF SocialExhausted
      <3>2. CASE Plan[next[s]] # "social"
        BY <3>2, <2>2, <2>3 DEF WithinSocialLimit
      <3>3. QED BY <3>1, <3>2
    <2>5. \A r \in log' : r.at > 0
      BY <2>1 DEF Dated, Reserve
    <2>6. Cardinality(log) \in Nat /\ Cardinality(log') \in Nat /\ Limit \in Nat
      BY <2>2, FS_CardinalityType, BraveAssumption DEF Typed
    <2>7. HardWithoutHeaders'
      <3>1. CASE synced.known
        BY <3>1 DEF HardWithoutHeaders, Reserve
      <3>2. CASE ~synced.known
        BY <3>2, <1>1, <2>1, <2>2, <2>6 DEF HardWithoutHeaders, Exhausted
      <3>3. QED BY <3>1, <3>2
    <2>8. QED BY <2>1, <2>2, <2>4, <2>5, <2>7, <1>5 DEF Labels, Typed
  <1>8. QED BY <1>6, <1>7

-----------------------------------------------------------------------------
(* The requests and the reconciliations.  None of them inserts a row.      *)

\* Where a process goes after a query.
LEMMA DoneMoves ==
    ASSUME Typed, NEW p \in Processes, Done(p)
    PROVE  /\ \E label \in {"idle", "begin"} :
                  Goto(p, label) /\ (p = Monitor => label = "idle")
           /\ next' \in [Searches -> Nat]
  <1>1. CASE p = Monitor
    BY <1>1 DEF Done, Typed
  <1>2. CASE p # Monitor
    <2>1. p \in Searches /\ Continue(p)
      BY <1>2 DEF Done, Processes
    <2>2. QED BY <1>2, <2>1, Continues
  <1>3. QED BY <1>1, <1>2

\* A step of a process that holds no reservation keeps the invariant as long as
\* it keeps the types.
LEMMA Quiet ==
    ASSUME IInv, NEW p \in Processes, NEW label \in Labels \ {"wait", "decide"},
           Goto(p, label), p = Monitor => label # "begin",
           log' = log, begun' = begun, lock' = lock, seen' = seen, stamp' = stamp,
           next' \in [Searches -> Nat],
           synced' \in [known : BOOLEAN, queries : Nat, at : Nat],
           synced'.known \/ synced' = synced,
           header' \in [Processes -> Nat], observed' \in [Processes -> Nat],
           charged' \in Nat
    PROVE  IInv'
  <1>1. pc' \in [Processes -> Labels] /\ pc'[Monitor] \notin {"begin", "wait", "decide"}
    BY PcTyped DEF IInv
  <1>2. Typed'
    BY <1>1 DEF IInv, Typed
  <1>3. QED BY <1>2, Moves

\* The check sends its request without a reservation.
LEMMA CheckInv == ASSUME IInv, Check PROVE IInv'
  <1>1. Monitor \in Processes /\ Goto(Monitor, "request") /\ "request" \in Labels \ {"wait", "decide"}
    BY DEF Processes, Check, Labels
  <1>2. QED BY <1>1, Quiet DEF Check, store, reserving, syncing, IInv, Typed

\* An answer tells the charges of the provider, a number.
LEMMA AnsweredInv == ASSUME IInv, NEW p \in Processes, Answered(p) PROVE IInv'
  <1>1. charged' \in Nat /\ header' \in [Processes -> Nat]
    BY DEF IInv, Typed, Answered
  <1>2. Goto(p, "observe") /\ "observe" \in Labels \ {"wait", "decide"}
    BY DEF Answered, Labels
  <1>3. QED BY <1>1, <1>2, Quiet DEF Answered, store, reserving, IInv, Typed

\* A request without an answer ends what its process was doing.
LEMMA UnansweredInv == ASSUME IInv, NEW p \in Processes, Unanswered(p) PROVE IInv'
  <1>1. charged' \in Nat
    BY DEF IInv, Typed, Unanswered
  <1>2. Goto(p, "idle") /\ "idle" \in Labels \ {"wait", "decide"}
    BY DEF Unanswered, Labels
  <1>3. QED BY <1>1, <1>2, Quiet DEF Unanswered, store, reserving, syncing, IInv, Typed

\* An answer without headers stores nothing.
LEMMA SilentInv == ASSUME IInv, NEW p \in Processes, Silent(p) PROVE IInv'
  <1>1. charged' \in Nat
    BY DEF IInv, Typed, Silent
  <1>2. PICK label \in {"idle", "begin"} : Goto(p, label) /\ (p = Monitor => label = "idle")
    BY DoneMoves DEF IInv, Silent
  <1>3. next' \in [Searches -> Nat]
    BY DoneMoves DEF IInv, Silent
  <1>4. label \in Labels \ {"wait", "decide"} /\ (p = Monitor => label # "begin")
    BY <1>2 DEF Labels
  <1>5. QED BY <1>1, <1>2, <1>3, <1>4, Quiet DEF Silent, store, reserving, syncing, IInv, Typed

\* The answer is dated.
LEMMA ObserveInv == ASSUME IInv, NEW p \in Processes, Observe(p) PROVE IInv'
  <1>1. observed' \in [Processes -> Nat]
    BY DEF IInv, Typed, Observe
  <1>2. Goto(p, "load") /\ "load" \in Labels \ {"wait", "decide"}
    BY DEF Observe, Labels
  <1>3. QED BY <1>1, <1>2, Quiet DEF Observe, store, reserving, counters, IInv, Typed

\* The row is read.
LEMMA LoadInv == ASSUME IInv, NEW p \in Processes, Load(p) PROVE IInv'
  <1>1. Goto(p, "store") /\ "store" \in Labels \ {"wait", "decide"}
    BY DEF Load, Labels
  <1>2. QED BY <1>1, Quiet DEF Load, store, reserving, counters, IInv, Typed

\* What is stored is a usage somebody told, dated by a number of reservations.
LEMMA StoreInv == ASSUME IInv, NEW p \in Processes, Store(p) PROVE IInv'
  <1>1. header' \in [Processes -> Nat] /\ observed' \in [Processes -> Nat]
    BY DEF IInv, Typed, Store, Forget
  <1>2. ASSUME NEW label \in {"idle", "begin"}, Goto(p, label), p = Monitor => label = "idle",
               next' \in [Searches -> Nat],
               synced' \in [known : BOOLEAN, queries : Nat, at : Nat],
               synced'.known \/ synced' = synced
        PROVE  IInv'
    <2>1. label \in Labels \ {"wait", "decide"} /\ (p = Monitor => label # "begin")
      BY <1>2 DEF Labels
    <2>2. QED BY <1>1, <1>2, <2>1, Quiet DEF Store, reserving, IInv, Typed
  <1>3. CASE Goto(p, "idle") /\ UNCHANGED <<synced, next>>
    BY <1>2, <1>3 DEF IInv, Typed
  <1>4. CASE synced' = (IF header[p] >= loaded[p].queries THEN Synced(p) ELSE synced) /\ Done(p)
    <2>1. PICK label \in {"idle", "begin"} : Goto(p, label) /\ (p = Monitor => label = "idle")
      BY <1>4, DoneMoves DEF IInv
    <2>2. next' \in [Searches -> Nat]
      BY <1>4, DoneMoves DEF IInv
    <2>3. synced' \in [known : BOOLEAN, queries : Nat, at : Nat]
      BY <1>4 DEF IInv, Typed, Synced
    <2>4. synced'.known \/ synced' = synced
      BY <1>4 DEF Synced
    <2>5. QED BY <2>1, <2>2, <2>3, <2>4, <1>2
  <1>5. QED BY <1>3, <1>4 DEF Store

\* A process that stops lets go of its own lock only, so that nobody who decides
\* loses it.
LEMMA StopInv == ASSUME IInv, NEW p \in Processes, Stop(p) PROVE IInv'
  <1>1. Goto(p, "idle") /\ "idle" \in Labels \ {"wait", "decide"}
    BY DEF Stop, Labels
  <1>2. pc' \in [Processes -> Labels] /\ pc'[Monitor] \notin {"begin", "wait", "decide"}
    BY <1>1, PcTyped DEF IInv
  <1>3. header' \in [Processes -> Nat] /\ observed' \in [Processes -> Nat]
    BY DEF IInv, Typed, Stop, Forget
  <1>4. /\ stamp' \in [Searches -> Nat]
        /\ seen' \in [Searches -> [usage : Nat, social : Nat]]
    BY DEF IInv, Typed, Stop, Return, reserving, NothingSeen
  <1>5. Typed'
    BY <1>2, <1>3, <1>4 DEF IInv, Typed, Stop
  <1>6. ASSUME NEW t \in Searches, t # p, pc[t] = "decide"
        PROVE  seen'[t] = seen[t] /\ lock' = lock
    <2>1. lock = t
      BY <1>6 DEF IInv, DecidesUnderLock
    <2>2. lock' = lock
      BY <1>6, <2>1 DEF Stop
    <2>3. seen'[t] = seen[t]
      BY <1>6 DEF Stop, Return, reserving, IInv, Typed
    <2>4. QED BY <2>2, <2>3
  <1>7. \A t \in Searches : t # p => stamp'[t] = stamp[t]
    BY DEF Stop, Return, reserving, IInv, Typed
  <1>8. QED BY <1>1, <1>5, <1>6, <1>7, Moves DEF Stop

\* Nothing else changes the state.
LEMMA StutterInv == ASSUME IInv, UNCHANGED vars PROVE IInv'
  <1>1. Typed'
    BY DEF IInv, Typed, vars, store, reserving, syncing, counters
  <1>2. \A s \in Searches : pc'[s] \in {"wait", "decide"} => stamp'[s] > 0
    BY DEF vars, reserving, IInv, Dated
  <1>3. QED BY <1>1, <1>2, LogSame DEF vars, store, reserving

-----------------------------------------------------------------------------
\* The invariant is inductive: one case for each action.
LEMMA NextInv == IInv /\ [Next]_vars => IInv'
  <1> SUFFICES ASSUME IInv, [Next]_vars PROVE IInv'
    OBVIOUS
  <1>1. CASE Check
    BY <1>1, CheckInv
  <1>2. ASSUME NEW s \in Searches, Search(s) \/ Begin(s) \/ Lock(s) \/ Reserve(s)
        PROVE  IInv'
    BY <1>2, SearchInv, BeginInv, LockInv, ReserveInv
  <1>3. ASSUME NEW p \in Processes,
               Answered(p) \/ Unanswered(p) \/ Silent(p) \/ Observe(p) \/ Load(p) \/ Store(p)
                 \/ Stop(p)
        PROVE  IInv'
    BY <1>3, AnsweredInv, UnansweredInv, SilentInv, ObserveInv, LoadInv, StoreInv, StopInv
  <1>4. CASE UNCHANGED vars
    BY <1>4, StutterInv
  <1>5. QED BY <1>1, <1>2, <1>3, <1>4 DEF Next

\* Whoever decides on a reservation holds the lock and counts what the log holds.
THEOREM SearchInvariance == Spec => []IInv
  <1>1. QED BY InitInv, NextInv, PTL DEF Spec

\* However many searches of a campaign run at once, fail, stop and start again,
\* the campaign reserves no more social queries than max_social_queries_per_campaign.
THEOREM SocialLimitHolds == Spec => []WithinSocialLimit
  <1>1. IInv => WithinSocialLimit
    BY DEF IInv
  <1>2. QED BY <1>1, SearchInvariance, PTL

\* As long as the provider tells no usage, searches that reserve at once do not
\* reserve more queries than the monthly limit between them.
THEOREM LedgerHolds == Spec => []HardWithoutHeaders
  <1>1. IInv => HardWithoutHeaders
    BY DEF IInv
  <1>2. QED BY <1>1, SearchInvariance, PTL

-----------------------------------------------------------------------------
(* What is charged beyond the limit.  Once the charges reached the limit,  *)
(* every new answer tells a usage that exhausts it.  What can still spend  *)
(* are the searches that decided already or that see a usage below the     *)
(* limit, one query each until they store their own answer; and each       *)
(* answer from before, stored late, lets all of them do so again.          *)

All == Cardinality(Searches)

Holding == {"observe", "load", "store"}

\* A usage below the limit was stored last.
Open == synced.queries < Limit

\* Searches that hold an answer from before the limit was reached.
Late == {s \in Searches : pc[s] \in Holding /\ header[s] < Limit}

MonitorIsLate == pc[Monitor] \in Holding /\ header[Monitor] < Limit

\* A search that will send its request.
Commits(s) == pc[s] = "request" \/ (pc[s] = "decide" /\ seen[s].usage < Limit)

\* A search with nothing to store, or whose answer is ignored: it read a usage
\* above its own.
Free(s) ==
    \/ pc[s] \in {"idle", "begin", "wait", "decide"}
    \/ pc[s] = "store" /\ header[s] >= Limit /\ loaded[s].queries > header[s]

Spenders == {s \in Searches : Commits(s) \/ (Open /\ Free(s))}

\* The queries (twice them) that m late answers of searches lead to: All - m + 1
\* for the first, one more for each that follows.
Ahead(m) == m * (2 * All - m + 1)

Spent ==
    2 * (charged + Cardinality(Spenders)) + Ahead(Cardinality(Late))
      + IF pc[Monitor] = "request" THEN 2 ELSE IF MonitorIsLate THEN 2 * All ELSE 0

Allowance ==
    2 * (Limit + checks + lost) + All * All + All - 2 + IF checks = 0 THEN 0 ELSE 2 * All - 2

OverspendTyped ==
    /\ loaded \in [Processes -> [known : BOOLEAN, queries : Nat, at : Nat]]
    /\ lost \in Nat
    /\ checks \in Nat
    /\ pc[Monitor] # "idle" => checks >= 1

OverspendInv ==
    IInv /\ OverspendTyped /\ (charged >= Limit => Spent <= Allowance)

\* The number of searches, one at least.
LEMMA AllIsNat == All \in Nat /\ All >= 1
  <1>1. All \in Nat /\ (All = 0 <=> Searches = {})
    BY BraveAssumption, FS_CardinalityType, FS_EmptySet DEF All
  <1>2. QED BY <1>1, BraveAssumption

\* One late answer less takes away what it leads to.
LEMMA AheadStep ==
    ASSUME NEW m \in 1 .. All
    PROVE  Ahead(m) \in Nat /\ Ahead(m - 1) \in Nat /\ Ahead(m) = Ahead(m - 1) + 2 * (All - (m - 1))
  <1>1. All \in Nat /\ m \in Nat /\ m - 1 \in Nat /\ 2 * All - m + 1 \in Nat
        /\ 2 * All - (m - 1) + 1 \in Nat
    BY AllIsNat
  <1>2. \A a, b \in Nat : a * b \in Nat
    OBVIOUS
  <1>3. Ahead(m) \in Nat /\ Ahead(m - 1) \in Nat
    BY <1>1, <1>2 DEF Ahead
  <1>4. m * (2 * All - m + 1) = (m - 1) * (2 * All - (m - 1) + 1) + 2 * (All - (m - 1))
    BY <1>1, SMTT(30)
  <1>5. QED BY <1>3, <1>4 DEF Ahead

\* Whoever can spend and the late answers fit in the allowance.
LEMMA AheadMax ==
    ASSUME NEW m \in Nat, NEW e \in Nat
    PROVE  /\ e + m <= All => 2 * e + Ahead(m) <= All * All + All
           /\ e + m <= All - 1 => 2 * e + Ahead(m) <= All * All + All - 2
  <1>1. All \in Nat /\ All >= 1
    BY AllIsNat
  <1>2. Ahead(m) \in Int /\ All * All \in Int
    BY <1>1 DEF Ahead
  <1>3. m \in 0 .. All => 2 * (All - m) + Ahead(m) <= All * All + All
    <2> SUFFICES ASSUME m \in 0 .. All PROVE 2 * (All - m) + Ahead(m) <= All * All + All
      OBVIOUS
    <2>1. All * All + All - 2 * (All - m) - m * (2 * All - m + 1) = (All - m) * (All - m - 1)
      BY <1>1, SMTT(30)
    <2>2. (All - m) * (All - m - 1) >= 0
      <3>1. CASE m = All
        BY <1>1, <3>1
      <3>2. CASE m < All
        <4>1. All - m \in Nat /\ All - m - 1 \in Nat
          BY <1>1, <3>2
        <4>2. \A a, b \in Nat : a * b >= 0
          OBVIOUS
        <4>3. QED BY <4>1, <4>2
      <3>3. QED BY <1>1, <3>1, <3>2
    <2>3. (All - m) * (All - m - 1) \in Int
      BY <1>1
    <2>4. QED BY <1>1, <1>2, <2>1, <2>2, <2>3 DEF Ahead
  <1>4. QED BY <1>1, <1>2, <1>3

\* Late answers lead to some queries or to none.
LEMMA AheadIsNat ==
    ASSUME NEW m \in 0 .. All
    PROVE  Ahead(m) >= 0
  <1>1. All \in Nat /\ m \in Nat /\ 2 * All - m + 1 \in Nat
    BY AllIsNat
  <1>2. \A a, b \in Nat : a * b \in Nat
    OBVIOUS
  <1>3. Ahead(m) \in Nat
    BY <1>1, <1>2 DEF Ahead
  <1>4. QED BY <1>3

\* A number and its square have an even sum.
LEMMA SumIsEven ==
    ASSUME NEW n \in Nat
    PROVE  \E k \in Nat : n * n + n = 2 * k
  <1>1. \A a, b \in Nat : a * b \in Nat
    OBVIOUS
  <1>2. PICK h \in Nat : n = 2 * h \/ n = 2 * h + 1
    <2>1. n = 2 * (n \div 2) + (n % 2) /\ n \div 2 \in Nat /\ n % 2 \in {0, 1}
      OBVIOUS
    <2>2. QED BY <2>1
  <1>3. CASE n = 2 * h
    <2>1. h * (2 * h + 1) \in Nat
      BY <1>1
    <2>2. n * n + n = 2 * (h * (2 * h + 1))
      BY <1>3, SMTT(30)
    <2>3. QED BY <2>1, <2>2
  <1>4. CASE n = 2 * h + 1
    <2>1. (2 * h + 1) * (h + 1) \in Nat
      BY <1>1
    <2>2. n * n + n = 2 * ((2 * h + 1) * (h + 1))
      BY <1>4, SMTT(30)
    <2>3. QED BY <2>1, <2>2
  <1>5. QED BY <1>2, <1>3, <1>4

\* There are no more spenders and late searches together than searches.
Fit ==
    /\ Cardinality(Spenders) \in Nat /\ Cardinality(Late) \in 0 .. All
    /\ Cardinality(Spenders) + Cardinality(Late) <= All
    /\ \A s \in Searches : s \notin Spenders /\ s \notin Late =>
           Cardinality(Spenders) + Cardinality(Late) <= All - 1

\* The spenders and the late are different searches.
LEMMA SpendersAndLate == Typed => Fit
  <1> SUFFICES ASSUME Typed PROVE Fit
    OBVIOUS
  <1>1. Spenders \subseteq Searches /\ Late \subseteq Searches /\ IsFiniteSet(Searches)
    BY BraveAssumption DEF Spenders, Late
  <1>2. IsFiniteSet(Spenders) /\ IsFiniteSet(Late)
    BY <1>1, FS_Subset
  <1>3. Spenders \cap Late = {}
    <2> SUFFICES ASSUME NEW s \in Searches, s \in Spenders, s \in Late PROVE FALSE
      BY DEF Spenders
    <2>1. header[s] \in Nat /\ Limit \in Nat
      BY BraveAssumption DEF Typed, Processes
    <2>2. pc[s] = "store" /\ header[s] >= Limit /\ header[s] < Limit
      BY DEF Spenders, Late, Commits, Free, Holding
    <2>3. QED BY <2>1, <2>2
  <1>4. Cardinality(Spenders) \in Nat /\ Cardinality(Late) \in Nat /\ All \in Nat
    BY <1>2, AllIsNat, FS_CardinalityType
  <1>5. IsFiniteSet(Spenders \cup Late)
        /\ Cardinality(Spenders \cup Late) = Cardinality(Spenders) + Cardinality(Late)
    <2>1. Cardinality(Spenders \cap Late) = 0
      BY <1>3, FS_EmptySet
    <2>2. Cardinality(Spenders \cup Late) =
              Cardinality(Spenders) + Cardinality(Late) - Cardinality(Spenders \cap Late)
      BY <1>2, FS_Union
    <2>3. IsFiniteSet(Spenders \cup Late)
      BY <1>2, FS_Union
    <2>4. QED BY <1>4, <2>1, <2>2, <2>3
  <1>6. Cardinality(Spenders \cup Late) <= All
    <2>1. Spenders \cup Late \subseteq Searches
      BY <1>1
    <2>2. QED BY <1>1, <2>1, FS_Subset DEF All
  <1>7. ASSUME NEW s \in Searches, s \notin Spenders, s \notin Late
        PROVE  Cardinality(Spenders) + Cardinality(Late) <= All - 1
    <2>1. Cardinality(Searches \ {s}) = All - 1 /\ IsFiniteSet(Searches \ {s})
      BY <1>1, FS_RemoveElement DEF All
    <2>2. Spenders \cup Late \subseteq Searches \ {s}
      BY <1>1, <1>7
    <2>3. Cardinality(Spenders \cup Late) <= Cardinality(Searches \ {s})
      BY <2>1, <2>2, FS_Subset
    <2>4. QED BY <1>5, <2>1, <2>3
  <1>8. QED BY <1>4, <1>5, <1>6, <1>7 DEF Fit

\* So after a step.
LEMMA SpendersAndLateNext == Typed' => Fit'
  BY SpendersAndLate, PTL

\* What the monitor's share of the expenses is.
Share == IF pc[Monitor] = "request" THEN 2 ELSE IF MonitorIsLate THEN 2 * All ELSE 0

\* The numbers of the invariant.
NumbersFit ==
    /\ charged \in Nat /\ lost \in Nat /\ checks \in Nat /\ Limit \in Nat
    /\ Ahead(Cardinality(Late)) \in Int /\ Share \in Nat /\ All * All \in Int
    /\ Spent = 2 * (charged + Cardinality(Spenders)) + Ahead(Cardinality(Late)) + Share
    /\ Share <= IF checks = 0 THEN 0 ELSE 2 * All
    /\ Fit

\* They are what they should be.
LEMMA Numbers == Typed /\ OverspendTyped => NumbersFit
  <1> SUFFICES ASSUME Typed, OverspendTyped PROVE NumbersFit
    OBVIOUS
  <1>1. All \in Nat /\ All >= 1
    BY AllIsNat
  <1>2. charged \in Nat /\ lost \in Nat /\ checks \in Nat /\ Limit \in Nat
        /\ (pc[Monitor] # "idle" => checks >= 1)
    BY BraveAssumption DEF OverspendTyped, Typed
  <1>3. Share \in Nat /\ (pc[Monitor] = "idle" => Share = 0) /\ Share <= 2 * All
    BY <1>1 DEF Share, MonitorIsLate, Holding
  <1>4. Fit
    BY SpendersAndLate
  <1>5. Ahead(Cardinality(Late)) \in Int
    BY <1>1, <1>4 DEF Ahead, Fit
  <1>6. All * All \in Int
    BY <1>1
  <1>7. Spent = 2 * (charged + Cardinality(Spenders)) + Ahead(Cardinality(Late)) + Share
    BY DEF Spent, Share
  <1>8. QED BY <1>1, <1>2, <1>3, <1>4, <1>5, <1>6, <1>7 DEF NumbersFit

\* So after a step.
LEMMA NumbersNext == Typed' /\ OverspendTyped' => NumbersFit'
  BY Numbers, PTL

\* The charge that reaches the limit: there may be as many late answers as
\* searches, unless it is a search that sent the query and holds the answer.
LEMMA Crossing ==
    ASSUME OverspendInv, IInv', OverspendTyped', charged < Limit, charged' = charged + 1,
           \/ lost' >= 1
           \/ \E s \in Searches : s \notin Spenders' /\ s \notin Late'
           \/ checks' >= 1 /\ Share' = 0
    PROVE  charged' >= Limit => Spent' <= Allowance'
  <1> SUFFICES ASSUME charged' >= Limit PROVE Spent' <= Allowance'
    OBVIOUS
  <1> DEFINE e == Cardinality(Spenders')
             m == Cardinality(Late')
             square == All * All
             ahead == Ahead(Cardinality(Late'))
             share == Share'
             checked == checks'
             missed == lost'
             spent == Spent'
             allowed == Allowance'
             extra == IF checks' = 0 THEN 0 ELSE 2 * All - 2
  <1>1. NumbersFit /\ NumbersFit'
    BY Numbers, NumbersNext DEF OverspendInv, IInv
  <1>2. charged' = Limit /\ Limit \in Nat
    BY <1>1 DEF NumbersFit
  <1>3. All \in Nat /\ All >= 1
    BY AllIsNat
  <1>4. /\ missed \in Nat /\ checked \in Nat /\ ahead \in Int /\ share \in Nat /\ square \in Int
        /\ spent = 2 * (Limit + e) + ahead + share
        /\ share <= IF checked = 0 THEN 0 ELSE 2 * All
    BY <1>1, <1>2 DEF NumbersFit
  <1>5. e \in Nat /\ m \in Nat /\ e + m <= All
        /\ \A s \in Searches : s \notin Spenders' /\ s \notin Late' => e + m <= All - 1
    BY <1>1, <1>3 DEF NumbersFit, Fit
  <1>6. /\ e + m <= All => 2 * e + ahead <= square + All
        /\ e + m <= All - 1 => 2 * e + ahead <= square + All - 2
    BY <1>5, AheadMax
  <1>7. \/ missed >= 1
        \/ e + m <= All - 1
        \/ checked >= 1 /\ share = 0
    BY <1>5
  <1>8. allowed = 2 * (Limit + checked + missed) + square + All - 2 + extra
    BY DEF Allowance, All
  <1>9. extra = IF checked = 0 THEN 0 ELSE 2 * All - 2
    OBVIOUS
  <1> HIDE DEF e, m, square, ahead, share, checked, missed, spent, allowed, extra
  <1>10. spent <= allowed
    <2>1. CASE checked = 0
      BY <1>2, <1>3, <1>4, <1>5, <1>6, <1>7, <1>8, <1>9, <2>1
    <2>2. CASE checked # 0
      BY <1>2, <1>3, <1>4, <1>5, <1>6, <1>7, <1>8, <1>9, <2>2
    <2>3. QED BY <2>1, <2>2
  <1>11. QED BY <1>10 DEF spent, allowed

\* What a step spends it takes from what can still be spent, or it is a check or
\* a lost answer.
SpendsWhatItMay ==
    /\ lost' >= lost /\ checks' >= checks
    /\ 2 * (charged' + Cardinality(Spenders')) + Ahead(Cardinality(Late')) + Share'
         <= 2 * (charged + Cardinality(Spenders)) + Ahead(Cardinality(Late)) + Share
              + 2 * (checks' - checks) + 2 * (lost' - lost)

\* After that, whatever a step spends it takes from what can still be spent, or
\* it is a check or a lost answer.
LEMMA Carries ==
    ASSUME OverspendInv, IInv', OverspendTyped', charged >= Limit, SpendsWhatItMay
    PROVE  Spent' <= Allowance'
  <1> DEFINE square == All * All
             e == Cardinality(Spenders)
             f == Cardinality(Spenders')
             a == Ahead(Cardinality(Late))
             b == Ahead(Cardinality(Late'))
             charges == charged'
             share == Share'
             checked == checks'
             missed == lost'
             spent == Spent'
             allowed == Allowance'
             extra == IF checks = 0 THEN 0 ELSE 2 * All - 2
             more == IF checks' = 0 THEN 0 ELSE 2 * All - 2
  <1>1. NumbersFit /\ NumbersFit'
    BY Numbers, NumbersNext DEF OverspendInv, IInv
  <1>2. Spent <= Allowance
    BY DEF OverspendInv
  <1>3. /\ charged \in Nat /\ charges \in Nat /\ lost \in Nat /\ missed \in Nat /\ checks \in Nat
        /\ checked \in Nat /\ Limit \in Nat /\ a \in Int /\ b \in Int /\ Share \in Nat
        /\ share \in Nat /\ square \in Int /\ e \in Nat /\ f \in Nat
        /\ Spent = 2 * (charged + e) + a + Share
        /\ spent = 2 * (charges + f) + b + share
    BY <1>1 DEF NumbersFit, Fit
  <1>4. /\ Allowance = 2 * (Limit + checks + lost) + square + All - 2 + extra
        /\ allowed = 2 * (Limit + checked + missed) + square + All - 2 + more
    BY DEF Allowance, All
  <1>5. All \in Nat /\ All >= 1
    BY AllIsNat
  <1>6. /\ missed >= lost /\ checked >= checks
        /\ 2 * (charges + f) + b + share
             <= 2 * (charged + e) + a + Share + 2 * (checked - checks) + 2 * (missed - lost)
    BY DEF SpendsWhatItMay
  <1>7. extra = (IF checks = 0 THEN 0 ELSE 2 * All - 2)
        /\ more = (IF checked = 0 THEN 0 ELSE 2 * All - 2)
    OBVIOUS
  <1> HIDE DEF square, e, f, a, b, charges, share, checked, missed, spent, allowed, extra, more
  <1>8. extra \in Int /\ more \in Int /\ extra <= more
    BY <1>3, <1>5, <1>6, <1>7
  <1>9. spent <= allowed
    BY <1>2, <1>3, <1>4, <1>5, <1>6, <1>8
  <1>10. QED BY <1>9 DEF spent, allowed

\* A step that no other search than s takes, and that does not open the month.
Alone(s) ==
    \A t \in Searches : t # s =>
        pc'[t] = pc[t] /\ header'[t] = header[t] /\ loaded'[t] = loaded[t] /\ seen'[t] = seen[t]

\* How many fewer or more can spend after it, and how many are late.
Shifts(s) ==
    /\ (Open' => Open) => Cardinality(Spenders') <= Cardinality(Spenders) + 1
    /\ (Open' => Open) /\ (s \in Spenders' => s \in Spenders) =>
           Cardinality(Spenders') <= Cardinality(Spenders)
    /\ (Open' => Open) /\ s \in Spenders /\ s \notin Spenders' =>
           Cardinality(Spenders') <= Cardinality(Spenders) - 1
    /\ (s \in Late' <=> s \in Late) => Late' = Late
    /\ s \in Late /\ s \notin Late' => Cardinality(Late') = Cardinality(Late) - 1

\* It moves nobody but s.
LEMMA AloneShifts ==
    ASSUME NEW s, Typed, Alone(s)
    PROVE  Shifts(s)
  <1>1. IsFiniteSet(Spenders) /\ IsFiniteSet(Spenders') /\ IsFiniteSet(Late) /\ IsFiniteSet(Late')
    <2>1. Spenders \subseteq Searches /\ Late \subseteq Searches
          /\ Spenders' \subseteq Searches /\ Late' \subseteq Searches
      BY DEF Spenders, Late
    <2>2. QED BY <2>1, BraveAssumption, FS_Subset
  <1>2. Cardinality(Spenders) \in Nat /\ Cardinality(Spenders') \in Nat
        /\ Cardinality(Late) \in Nat /\ Cardinality(Late') \in Nat
    BY <1>1, FS_CardinalityType
  <1>3. ASSUME Open' => Open PROVE Spenders' \ {s} \subseteq Spenders
    BY <1>3 DEF Spenders, Commits, Free, Alone
  <1>4. \A t : t # s => (t \in Late' <=> t \in Late)
    BY DEF Late, Alone
  <1>5. ASSUME Open' => Open
        PROVE  Cardinality(Spenders') <= Cardinality(Spenders) + 1
    <2>1. Spenders' \subseteq Spenders \cup {s}
      BY <1>3, <1>5
    <2>2. /\ IsFiniteSet(Spenders \cup {s})
          /\ Cardinality(Spenders \cup {s}) =
                 IF s \in Spenders THEN Cardinality(Spenders) ELSE Cardinality(Spenders) + 1
      BY <1>1, FS_AddElement
    <2>3. Cardinality(Spenders') <= Cardinality(Spenders \cup {s})
      BY <2>1, <2>2, FS_Subset
    <2>4. QED BY <1>2, <2>2, <2>3
  <1>6. ASSUME Open' => Open, s \in Spenders' => s \in Spenders
        PROVE  Cardinality(Spenders') <= Cardinality(Spenders)
    <2>1. Spenders' \subseteq Spenders
      BY <1>3, <1>6
    <2>2. QED BY <1>1, <2>1, FS_Subset
  <1>7. ASSUME Open' => Open, s \in Spenders, s \notin Spenders'
        PROVE  Cardinality(Spenders') <= Cardinality(Spenders) - 1
    <2>1. Spenders' \subseteq Spenders \ {s}
      BY <1>3, <1>7
    <2>2. IsFiniteSet(Spenders \ {s}) /\ Cardinality(Spenders \ {s}) = Cardinality(Spenders) - 1
      BY <1>1, <1>7, FS_RemoveElement
    <2>3. QED BY <2>1, <2>2, FS_Subset
  <1>8. ASSUME s \in Late, s \notin Late' PROVE Cardinality(Late') = Cardinality(Late) - 1
    <2>1. Late' = Late \ {s}
      BY <1>4, <1>8
    <2>2. QED BY <1>1, <1>8, <2>1, FS_RemoveElement
  <1>9. (s \in Late' <=> s \in Late) => Late' = Late
    BY <1>4
  <1>10. QED BY <1>5, <1>6, <1>7, <1>8, <1>9 DEF Shifts

\* A step after which no more is charged, can be spent or is late than before.
LEMMA Quieter ==
    ASSUME OverspendInv, IInv', OverspendTyped', charged' = charged, lost' >= lost,
           checks' >= checks, NEW s, Alone(s), Open' => Open,
           \/ s \in Spenders' => s \in Spenders
           \/ lost' = lost + 1,
           \/ s \in Late' <=> s \in Late
           \/ s \in Late /\ s \notin Late',
           Share' <= Share + 2 * (checks' - checks)
    PROVE  charged' >= Limit => Spent' <= Allowance'
  <1> SUFFICES ASSUME charged' >= Limit PROVE SpendsWhatItMay
    BY Carries
  <1> DEFINE e == Cardinality(Spenders)
             f == Cardinality(Spenders')
             a == Ahead(Cardinality(Late))
             b == Ahead(Cardinality(Late'))
             share == Share'
             checked == checks'
             missed == lost'
  <1>1. NumbersFit /\ NumbersFit'
    BY Numbers, NumbersNext DEF OverspendInv, IInv
  <1>2. Shifts(s)
    BY AloneShifts DEF OverspendInv, IInv
  <1>3. b <= a
    <2>1. CASE Late' = Late
      BY <1>1, <2>1 DEF NumbersFit
    <2>2. CASE s \in Late /\ s \notin Late'
      <3>1. Cardinality(Late') = Cardinality(Late) - 1 /\ Cardinality(Late') \in Nat
            /\ Cardinality(Late) \in 0 .. All
        BY <1>1, <1>2, <2>2 DEF Shifts, NumbersFit, Fit
      <3>2. Cardinality(Late) \in 1 .. All /\ All \in Nat
        BY <3>1, AllIsNat
      <3> DEFINE m == Cardinality(Late)
      <3>3. Ahead(m) \in Nat /\ Ahead(m - 1) \in Nat
            /\ Ahead(m) = Ahead(m - 1) + 2 * (All - (m - 1))
        BY <3>2, AheadStep
      <3>4. b = Ahead(m - 1) /\ a = Ahead(m)
        BY <3>1
      <3>5. m \in 1 .. All
        BY <3>2
      <3> DEFINE before == Ahead(m)
                 after == Ahead(m - 1)
      <3> HIDE DEF m, before, after
      <3>6. before \in Nat /\ after \in Nat /\ before = after + 2 * (All - (m - 1))
        BY <3>3 DEF before, after
      <3>7. after <= before
        BY <3>2, <3>5, <3>6
      <3>8. QED BY <3>4, <3>7 DEF before, after
    <2>3. QED BY <1>2, <2>1, <2>2 DEF Shifts
  <1>4. f <= e \/ (f <= e + 1 /\ lost' = lost + 1)
    BY <1>2 DEF Shifts
  <1>5. /\ charged \in Nat /\ lost \in Nat /\ missed \in Nat /\ checks \in Nat /\ checked \in Nat
        /\ a \in Int /\ b \in Int /\ Share \in Nat /\ share \in Nat /\ e \in Nat /\ f \in Nat
    BY <1>1 DEF NumbersFit, Fit
  <1>6. /\ missed >= lost /\ checked >= checks /\ share <= Share + 2 * (checked - checks)
        /\ f <= e \/ (f <= e + 1 /\ missed = lost + 1)
    BY <1>4
  <1> SUFFICES 2 * (charged + f) + b + share
                 <= 2 * (charged + e) + a + Share + 2 * (checked - checks) + 2 * (missed - lost)
    BY DEF SpendsWhatItMay
  <1> HIDE DEF e, f, a, b, share, checked, missed
  <1>7. QED BY <1>3, <1>5, <1>6

\* A query is charged: its search can spend no more, or its answer is lost, or
\* it was a check.
LEMMA Charged ==
    ASSUME OverspendInv, IInv', OverspendTyped', charged >= Limit, charged' = charged + 1,
           checks' = checks, NEW s, Alone(s), Open' => Open, s \in Late' <=> s \in Late,
           \/ lost' = lost + 1 /\ (s \in Spenders' => s \in Spenders) /\ Share' <= Share
           \/ lost' = lost /\ s \in Spenders /\ s \notin Spenders' /\ Share' <= Share
           \/ lost' = lost /\ (s \in Spenders' => s \in Spenders) /\ Share' + 2 <= Share
    PROVE  Spent' <= Allowance'
  <1> SUFFICES SpendsWhatItMay
    BY Carries
  <1> DEFINE e == Cardinality(Spenders)
             f == Cardinality(Spenders')
             a == Ahead(Cardinality(Late))
             b == Ahead(Cardinality(Late'))
             share == Share'
             checked == checks'
             missed == lost'
             charges == charged'
  <1>1. NumbersFit /\ NumbersFit'
    BY Numbers, NumbersNext DEF OverspendInv, IInv
  <1>2. Shifts(s)
    BY AloneShifts DEF OverspendInv, IInv
  <1>3. b = a
    BY <1>2 DEF Shifts
  <1>4. \/ missed = lost + 1 /\ f <= e /\ share <= Share
        \/ missed = lost /\ f <= e - 1 /\ share <= Share
        \/ missed = lost /\ f <= e /\ share + 2 <= Share
    BY <1>2 DEF Shifts
  <1>5. /\ charged \in Nat /\ lost \in Nat /\ missed \in Nat /\ checks \in Nat /\ checked \in Nat
        /\ a \in Int /\ b \in Int /\ Share \in Nat /\ share \in Nat /\ e \in Nat /\ f \in Nat
    BY <1>1 DEF NumbersFit, Fit
  <1>6. checked = checks /\ charges = charged + 1
    OBVIOUS
  <1> SUFFICES /\ missed >= lost /\ checked >= checks
               /\ 2 * (charges + f) + b + share
                    <= 2 * (charged + e) + a + Share + 2 * (checked - checks) + 2 * (missed - lost)
    BY DEF SpendsWhatItMay
  <1> HIDE DEF e, f, a, b, share, checked, missed, charges
  <1>7. QED BY <1>3, <1>4, <1>5, <1>6

\* A late answer of a search is stored, or found to be late: every search that
\* has none can spend, which is what the answer was counted for.
LEMMA LateStored ==
    ASSUME OverspendInv, IInv', OverspendTyped', charged' = charged, checks' = checks,
           lost' = lost, NEW s \in Searches, Alone(s), s \in Late, s \notin Late', Share' = Share
    PROVE  charged' >= Limit => Spent' <= Allowance'
  <1> SUFFICES ASSUME charged' >= Limit PROVE SpendsWhatItMay
    BY Carries
  <1> DEFINE e == Cardinality(Spenders)
             f == Cardinality(Spenders')
             m == Cardinality(Late)
             k == Cardinality(Late')
             a == Ahead(Cardinality(Late))
             b == Ahead(Cardinality(Late'))
             share == Share'
             checked == checks'
             missed == lost'
             charges == charged'
  <1>1. NumbersFit /\ NumbersFit'
    BY Numbers, NumbersNext DEF OverspendInv, IInv
  <1>2. Shifts(s)
    BY AloneShifts DEF OverspendInv, IInv
  <1>3. /\ charged \in Nat /\ lost \in Nat /\ checks \in Nat
        /\ a \in Int /\ b \in Int /\ Share \in Nat /\ e \in Nat /\ f \in Nat
        /\ m \in 0 .. All /\ k \in 0 .. All /\ f + k <= All
    BY <1>1 DEF NumbersFit, Fit
  <1>4. k = m - 1
    BY <1>2 DEF Shifts
  <1>5. All \in Nat
    BY AllIsNat
  <1>6. checked = checks /\ charges = charged /\ missed = lost /\ share = Share
    OBVIOUS
  <1>7. a = Ahead(m) /\ b = Ahead(k)
    OBVIOUS
  <1> SUFFICES /\ missed >= lost /\ checked >= checks
               /\ 2 * (charges + f) + b + share
                    <= 2 * (charged + e) + a + Share + 2 * (checked - checks) + 2 * (missed - lost)
    BY DEF SpendsWhatItMay
  <1> HIDE DEF e, f, m, k, a, b, share, checked, missed, charges
  <1>8. a = b + 2 * (All - k)
    <2>1. m \in 1 .. All
      BY <1>3, <1>4, <1>5
    <2>2. Ahead(m) = Ahead(m - 1) + 2 * (All - (m - 1))
      BY <2>1, AheadStep
    <2>3. QED BY <1>4, <1>7, <2>2
  <1>9. QED BY <1>3, <1>5, <1>6, <1>8

\* The late answer of a check is stored: every search can spend again.
LEMMA CheckStored ==
    ASSUME OverspendInv, IInv', OverspendTyped', charged' = charged, checks' = checks,
           lost' = lost, Late' = Late, pc[Monitor] = "store", MonitorIsLate, Share' = 0
    PROVE  charged' >= Limit => Spent' <= Allowance'
  <1> SUFFICES ASSUME charged' >= Limit PROVE SpendsWhatItMay
    BY Carries
  <1> DEFINE e == Cardinality(Spenders)
             f == Cardinality(Spenders')
             k == Cardinality(Late')
             a == Ahead(Cardinality(Late))
             b == Ahead(Cardinality(Late'))
             share == Share'
             checked == checks'
             missed == lost'
             charges == charged'
  <1>1. NumbersFit /\ NumbersFit'
    BY Numbers, NumbersNext DEF OverspendInv, IInv
  <1>2. /\ charged \in Nat /\ lost \in Nat /\ checks \in Nat
        /\ a \in Int /\ b \in Int /\ Share \in Nat /\ e \in Nat /\ f \in Nat
        /\ k \in 0 .. All /\ f + k <= All
    BY <1>1 DEF NumbersFit, Fit
  <1>3. All \in Nat
    BY AllIsNat
  <1>4. checked = checks /\ charges = charged /\ missed = lost /\ share = 0 /\ a = b
    OBVIOUS
  <1>5. Share = 2 * All
    BY DEF Share
  <1> SUFFICES /\ missed >= lost /\ checked >= checks
               /\ 2 * (charges + f) + b + share
                    <= 2 * (charged + e) + a + Share + 2 * (checked - checks) + 2 * (missed - lost)
    BY DEF SpendsWhatItMay
  <1> HIDE DEF e, f, k, a, b, share, checked, missed, charges
  <1>6. QED BY <1>2, <1>3, <1>4, <1>5

\* A process moves by itself.
Aside(p) ==
    /\ \A q \in Processes : q # p =>
           pc'[q] = pc[q] /\ header'[q] = header[q] /\ loaded'[q] = loaded[q]
    /\ \A t \in Searches : t # p => seen'[t] = seen[t]

\* What that leaves to the searches and to the monitor.
LEMMA AsideAlone ==
    ASSUME NEW p, Aside(p)
    PROVE  Alone(p) /\ (p # Monitor => Share' = Share)
  <1>1. Alone(p)
    BY DEF Aside, Alone, Processes
  <1>2. ASSUME p # Monitor PROVE pc'[Monitor] = pc[Monitor] /\ header'[Monitor] = header[Monitor]
    BY <1>2 DEF Aside, Processes
  <1>3. QED BY <1>1, <1>2 DEF Share, MonitorIsLate

\* A reservation, up to the decision, gives nobody more to spend: who counts a
\* usage below the limit could spend before.
LEMMA ReservationOverspend ==
    ASSUME OverspendInv, IInv', NEW s \in Searches,
           Search(s) \/ Begin(s) \/ Lock(s) \/ Reserve(s)
    PROVE  OverspendInv'
  <1>1. s \in Processes /\ s # Monitor /\ Typed
    BY BraveAssumption DEF Processes, OverspendInv, IInv
  <1>2. UNCHANGED <<synced, header, loaded, charged, lost, checks>>
    BY DEF Search, Begin, Lock, Reserve, store, syncing, counters
  <1>3. \A q \in Processes : q # s => pc'[q] = pc[q]
    BY <1>1 DEF Search, Begin, Lock, Reserve, Goto, Continue, Typed
  <1>4. \A t \in Searches : t # s => seen'[t] = seen[t]
    BY <1>1 DEF Search, Begin, Lock, Reserve, Return, reserving, Typed
  <1>5. Aside(s)
    BY <1>2, <1>3, <1>4 DEF Aside
  <1>6. pc[s] \notin Holding /\ pc'[s] \notin Holding
    BY <1>1 DEF Search, Begin, Lock, Reserve, Goto, Continue, Typed, Holding
  <1>7. OverspendTyped'
    BY <1>1, <1>2, <1>3 DEF OverspendInv, OverspendTyped, Processes
  <1>8. (Open' <=> Open) /\ (s \in Late' <=> s \in Late)
    BY <1>2, <1>6 DEF Open, Late
  <1>9. s \in Spenders' => s \in Spenders
    <2>1. CASE Search(s) \/ Begin(s)
      <3>1. pc[s] \in {"idle", "begin"} /\ pc'[s] \in {"begin", "wait"}
        BY <1>1, <2>1 DEF Search, Begin, Goto, Typed
      <3>2. QED BY <1>8, <3>1 DEF Spenders, Commits, Free
    <2>2. CASE Lock(s)
      <3>1. pc[s] = "wait" /\ pc'[s] = "decide" /\ seen'[s].usage = Usage
        BY <1>1, <2>2 DEF Lock, Goto, Typed
      <3>2. Usage < Limit => Open
        <4>1. IsFiniteSet(log) /\ synced \in [known : BOOLEAN, queries : Nat, at : Nat]
          BY <1>1 DEF Typed
        <4>2. Cardinality({r \in log : r.at > synced.at}) \in Nat
          BY <4>1, FS_Subset, FS_CardinalityType
        <4>3. synced.queries \in Nat /\ Limit \in Nat
          BY <4>1, BraveAssumption
        <4>4. QED BY <4>2, <4>3 DEF Usage, Open
      <3>3. QED BY <1>8, <3>1, <3>2 DEF Spenders, Commits, Free
    <2>3. CASE Reserve(s)
      <3>1. pc[s] = "decide"
        BY <2>3 DEF Reserve
      <3>2. \/ pc'[s] \in {"idle", "begin"}
            \/ pc'[s] = "request" /\ ~Exhausted(s)
        BY <1>1, <2>3 DEF Reserve, Goto, Continue, Typed
      <3>3. ~Exhausted(s) => seen[s].usage < Limit
        <4>1. seen[s].usage \in Nat /\ Limit \in Nat
          BY <1>1, BraveAssumption DEF Typed
        <4>2. QED BY <4>1 DEF Exhausted
      <3>4. QED BY <1>8, <3>1, <3>2, <3>3 DEF Spenders, Commits, Free
    <2>4. QED BY <2>1, <2>2, <2>3
  <1>10. Alone(s) /\ Share' = Share
    BY <1>1, <1>5, AsideAlone
  <1>11. lost' >= lost /\ checks' >= checks /\ Share' <= Share + 2 * (checks' - checks)
    <2>1. NumbersFit
      BY Numbers DEF OverspendInv, IInv
    <2>2. lost \in Nat /\ checks \in Nat /\ Share \in Nat
      BY <2>1 DEF NumbersFit
    <2>3. QED BY <1>2, <1>10, <2>2
  <1>12. charged' >= Limit => Spent' <= Allowance'
    BY <1>2, <1>7, <1>8, <1>9, <1>10, <1>11, Quieter
  <1>13. QED BY <1>7, <1>12 DEF OverspendInv

\* A check adds a query to what it may charge.
LEMMA CheckOverspend == ASSUME OverspendInv, IInv', Check PROVE OverspendInv'
  <1>1. Typed /\ Monitor \in Processes /\ Monitor \notin Searches
    BY BraveAssumption DEF OverspendInv, IInv, Processes
  <1>2. UNCHANGED <<synced, header, loaded, seen, charged, lost>> /\ checks' = checks + 1
    BY DEF Check, store, reserving, syncing
  <1>3. pc[Monitor] = "idle" /\ pc'[Monitor] = "request"
        /\ \A q \in Processes : q # Monitor => pc'[q] = pc[q]
    BY <1>1 DEF Check, Goto, Typed
  <1>4. Aside(Monitor)
    BY <1>2, <1>3 DEF Aside
  <1>5. lost \in Nat /\ checks \in Nat /\ checks' \in Nat /\ checks' >= 1
    BY <1>2 DEF OverspendInv, OverspendTyped
  <1>6. OverspendTyped'
    BY <1>2, <1>5 DEF OverspendInv, OverspendTyped
  <1>7. Share = 0 /\ Share' = 2
    BY <1>3 DEF Share, MonitorIsLate, Holding
  <1>8. Share' <= Share + 2 * (checks' - checks) /\ lost' >= lost /\ checks' >= checks
    BY <1>2, <1>5, <1>7
  <1>9. Monitor \notin Spenders' /\ Monitor \notin Late /\ Monitor \notin Late'
    BY <1>1 DEF Spenders, Late
  <1>10. Open' => Open
    BY <1>2 DEF Open
  <1>11. charged' >= Limit => Spent' <= Allowance'
    BY <1>2, <1>4, <1>6, <1>8, <1>9, <1>10, AsideAlone, Quieter
  <1>12. QED BY <1>6, <1>11 DEF OverspendInv

\* What a request and a reconciliation leave alone.
LEMMA StepAside ==
    ASSUME Typed, OverspendTyped, NEW p \in Processes, NEW label \in Labels, Goto(p, label),
           checks' = checks, lost' \in Nat, pc[p] # "idle",
           loaded' \in [Processes -> [known : BOOLEAN, queries : Nat, at : Nat]],
           \A q \in Processes : q # p => header'[q] = header[q] /\ loaded'[q] = loaded[q],
           \A t \in Searches : t # p => seen'[t] = seen[t]
    PROVE  /\ pc'[p] = label
           /\ Aside(p) /\ Alone(p) /\ (p # Monitor => Share' = Share)
           /\ OverspendTyped'
  <1>1. pc'[p] = label /\ \A q \in Processes : q # p => pc'[q] = pc[q]
    BY DEF Goto, Typed
  <1>2. Aside(p)
    BY <1>1 DEF Aside
  <1>3. pc'[Monitor] # "idle" => pc[Monitor] # "idle"
    BY <1>1 DEF Processes
  <1>4. OverspendTyped'
    BY <1>3 DEF OverspendTyped
  <1>5. QED BY <1>1, <1>2, <1>4, AsideAlone

\* A request leaves alone what a reconciliation read, too.
LEMMA RequestAside ==
    ASSUME Typed, OverspendTyped, NEW p \in Processes, NEW label \in Labels, Goto(p, label),
           UNCHANGED <<loaded, seen, checks>>, \A q \in Processes : q # p => header'[q] = header[q],
           pc[p] # "idle", lost' \in Nat
    PROVE  /\ pc'[p] = label
           /\ Aside(p) /\ Alone(p) /\ (p # Monitor => Share' = Share)
           /\ OverspendTyped'
  <1>1. loaded' \in [Processes -> [known : BOOLEAN, queries : Nat, at : Nat]]
    BY DEF OverspendTyped
  <1>2. checks' = checks /\ loaded' = loaded /\ seen' = seen
    OBVIOUS
  <1>3. QED BY <1>1, <1>2, StepAside

\* The next answer tells a usage above the limit, once this is reached: its
\* search can spend no more before it stores it, and a check is not late.
LEMMA AnsweredOverspend ==
    ASSUME OverspendInv, IInv', NEW p \in Processes, Answered(p)
    PROVE  OverspendInv'
  <1>1. Typed /\ OverspendTyped /\ charged \in Nat /\ Limit \in Nat /\ lost \in Nat /\ checks \in Nat
    BY BraveAssumption DEF OverspendInv, IInv, OverspendTyped, Typed
  <1>2. /\ pc[p] = "request" /\ charged' = charged + 1
        /\ UNCHANGED <<synced, loaded, seen, lost, checks>>
        /\ Goto(p, "observe")
    BY DEF Answered, store, reserving
  <1>3. header'[p] = charged + 1 /\ \A q \in Processes : q # p => header'[q] = header[q]
    BY <1>1 DEF Answered, Typed
  <1>4. /\ pc'[p] = "observe" /\ Alone(p) /\ (p # Monitor => Share' = Share)
        /\ OverspendTyped'
    BY <1>1, <1>2, <1>3, RequestAside DEF Labels
  <1>5. p \notin Late /\ p \notin Spenders' /\ (charged + 1 >= Limit => p \notin Late')
    BY <1>1, <1>2, <1>3, <1>4 DEF Late, Spenders, Commits, Free, Holding
  <1>6. Open' => Open
    BY <1>2 DEF Open
  <1>7. p = Monitor => Share = 2 /\ checks' >= 1
    BY <1>1, <1>2 DEF Share, OverspendTyped
  <1>8. p = Monitor /\ charged + 1 >= Limit => Share' = 0
    BY <1>1, <1>3, <1>4 DEF Share, MonitorIsLate, Holding
  <1>9. p # Monitor => p \in Searches /\ p \in Spenders
    BY <1>2 DEF Processes, Spenders, Commits
  <1>10. Share \in Nat
    <2>1. NumbersFit
      BY <1>1, Numbers
    <2>2. QED BY <2>1 DEF NumbersFit
  <1>11. CASE charged < Limit
    <2>1. ASSUME charged' >= Limit
          PROVE  \/ \E s \in Searches : s \notin Spenders' /\ s \notin Late'
                 \/ checks' >= 1 /\ Share' = 0
      BY <1>2, <1>5, <1>7, <1>8, <1>9, <2>1
    <2>2. charged' >= Limit => Spent' <= Allowance'
      BY <1>2, <1>4, <1>11, <2>1, Crossing
    <2>3. QED BY <1>4, <2>2 DEF OverspendInv
  <1>12. CASE charged >= Limit
    <2>1. p \notin Late'
      BY <1>1, <1>5, <1>12
    <2>2. CASE p = Monitor
      <3>1. Share' + 2 <= Share
        BY <1>1, <1>7, <1>8, <1>12, <2>2
      <3>2. Spent' <= Allowance'
        BY <1>2, <1>4, <1>5, <1>6, <1>12, <2>1, <3>1, Charged
      <3>3. QED BY <1>4, <3>2 DEF OverspendInv
    <2>3. CASE p # Monitor
      <3>1. Share' <= Share /\ p \in Spenders
        BY <1>4, <1>9, <1>10, <2>3
      <3>2. Spent' <= Allowance'
        BY <1>2, <1>4, <1>5, <1>6, <1>12, <2>1, <3>1, Charged
      <3>3. QED BY <1>4, <3>2 DEF OverspendInv
    <2>4. QED BY <2>2, <2>3
  <1>13. QED BY <1>1, <1>11, <1>12

\* A query without an answer, or without the usage in it, is charged as lost, if
\* it is charged.
LEMMA LostOverspend ==
    ASSUME OverspendInv, IInv', NEW p \in Processes, Unanswered(p) \/ Silent(p)
    PROVE  OverspendInv'
  <1>1. Typed /\ OverspendTyped /\ charged \in Nat /\ Limit \in Nat /\ lost \in Nat /\ checks \in Nat
    BY BraveAssumption DEF OverspendInv, IInv, OverspendTyped, Typed
  <1>2. PICK n \in {0, 1} : charged' = charged + n /\ lost' = lost + n
    BY DEF Unanswered, Silent
  <1>3. pc[p] = "request" /\ UNCHANGED <<synced, loaded, seen, checks, header>>
    BY DEF Unanswered, Silent, store, reserving, syncing
  <1>4. PICK label \in {"idle", "begin"} : Goto(p, label) /\ (p = Monitor => label = "idle")
    BY <1>1, DoneMoves DEF Unanswered, Silent
  <1>5. label \in Labels /\ lost' \in Nat
    BY <1>1, <1>2 DEF Labels
  <1>6. /\ pc'[p] = label /\ Alone(p) /\ (p # Monitor => Share' = Share) /\ OverspendTyped'
    BY <1>1, <1>3, <1>4, <1>5, RequestAside
  <1>7. p \notin Late /\ p \notin Late' /\ (p \in Spenders' => p \in Spenders)
    BY <1>3, <1>6 DEF Late, Spenders, Commits, Holding
  <1>8. Open' => Open
    BY <1>3 DEF Open
  <1>9. Share' <= Share
    <2>1. Share \in Nat
      <3>1. NumbersFit
        BY <1>1, Numbers
      <3>2. QED BY <3>1 DEF NumbersFit
    <2>2. p = Monitor => Share' = 0
      BY <1>4, <1>6 DEF Share, MonitorIsLate, Holding
    <2>3. QED BY <1>6, <2>1, <2>2
  <1>10. CASE n = 0
    <2>1. charged' = charged /\ lost' = lost
      BY <1>1, <1>2, <1>10
    <2>2. Share' <= Share + 2 * (checks' - checks) /\ checks' >= checks /\ lost' >= lost
      BY <1>1, <1>3, <1>6, <1>9, <2>1, NumbersNext, Numbers DEF NumbersFit, IInv
    <2>3. charged' >= Limit => Spent' <= Allowance'
      BY <1>6, <1>7, <1>8, <2>1, <2>2, Quieter
    <2>4. QED BY <1>6, <2>3 DEF OverspendInv
  <1>11. CASE n = 1 /\ charged < Limit
    <2>1. charged' = charged + 1 /\ lost' >= 1
      BY <1>1, <1>2, <1>11
    <2>2. charged' >= Limit => Spent' <= Allowance'
      BY <1>6, <1>11, <2>1, Crossing
    <2>3. QED BY <1>6, <2>2 DEF OverspendInv
  <1>12. CASE n = 1 /\ charged >= Limit
    <2>1. charged' = charged + 1 /\ lost' = lost + 1 /\ checks' = checks
      BY <1>2, <1>3, <1>12
    <2>2. Spent' <= Allowance'
      BY <1>6, <1>7, <1>8, <1>9, <1>12, <2>1, Charged
    <2>3. QED BY <1>6, <2>2 DEF OverspendInv
  <1>13. QED BY <1>1, <1>10, <1>11, <1>12

\* An answer is on its way to the store: nobody can spend more than before,
\* because a search whose answer will be ignored read a usage over the limit.
LEMMA ReadOverspend ==
    ASSUME OverspendInv, IInv', NEW p \in Processes, Observe(p) \/ Load(p)
    PROVE  OverspendInv'
  <1>1. Typed /\ OverspendTyped /\ Limit \in Nat /\ lost \in Nat /\ checks \in Nat
    BY BraveAssumption DEF OverspendInv, IInv, OverspendTyped
  <1>2. /\ UNCHANGED <<synced, header, seen, charged, lost, checks>>
        /\ pc[p] \in {"observe", "load"}
    BY DEF Observe, Load, store, reserving, counters
  <1>3. PICK label \in {"load", "store"} :
            Goto(p, label) /\ (label = "store" => loaded' = [loaded EXCEPT ![p] = synced])
    BY DEF Observe, Load
  <1>4. loaded' \in [Processes -> [known : BOOLEAN, queries : Nat, at : Nat]]
        /\ (\A q \in Processes : q # p => loaded'[q] = loaded[q])
        /\ (label = "store" => loaded'[p] = synced)
    <2>1. loaded' = loaded \/ loaded' = [loaded EXCEPT ![p] = synced]
      BY DEF Observe, Load
    <2>2. QED BY <1>1, <1>3, <2>1 DEF OverspendTyped, Typed
  <1>5. label \in Labels /\ lost' \in Nat
    BY <1>1, <1>2 DEF Labels
  <1>6. pc'[p] = label /\ Alone(p) /\ (p # Monitor => Share' = Share) /\ OverspendTyped'
    BY <1>1, <1>2, <1>3, <1>4, <1>5, StepAside
  <1>7. Share' = Share
    BY <1>2, <1>6 DEF Share, MonitorIsLate, Holding
  <1>8. Open' = Open /\ (p \in Late' <=> p \in Late)
    BY <1>2, <1>6 DEF Open, Late, Holding
  <1>9. p \notin Spenders'
    <2>1. label = "store" /\ loaded'[p].queries > header[p] /\ header[p] >= Limit => ~Open
      <3>1. header[p] \in Nat /\ synced.queries \in Nat
        BY <1>1 DEF Typed
      <3>2. QED BY <1>1, <1>4, <3>1 DEF Open
    <2>2. QED BY <1>2, <1>6, <1>8, <2>1 DEF Spenders, Commits, Free
  <1>10. Share' <= Share + 2 * (checks' - checks) /\ lost' >= lost /\ checks' >= checks
    <2>1. Share \in Nat
      BY <1>1, Numbers DEF NumbersFit
    <2>2. QED BY <1>1, <1>2, <1>7, <2>1
  <1>11. charged' >= Limit => Spent' <= Allowance'
    BY <1>2, <1>6, <1>8, <1>9, <1>10, Quieter
  <1>12. QED BY <1>6, <1>11 DEF OverspendInv

\* An answer is stored, ignored or fails to be stored.  If it is from before the
\* limit was reached it may let everybody spend again, as it was counted for; a
\* later one lets nobody.
LEMMA StoreOverspend ==
    ASSUME OverspendInv, IInv', NEW p \in Processes, Store(p)
    PROVE  OverspendInv'
  <1>1. Typed /\ OverspendTyped /\ Limit \in Nat /\ lost \in Nat /\ checks \in Nat
        /\ header[p] \in Nat /\ loaded[p].queries \in Nat /\ synced.queries \in Nat
    BY BraveAssumption DEF OverspendInv, IInv, OverspendTyped, Typed
  <1>2. UNCHANGED <<seen, charged, checks>> /\ pc[p] = "store" /\ Forget(p)
    BY DEF Store, reserving
  <1>3. PICK label \in {"idle", "begin"} : Goto(p, label) /\ (p = Monitor => label = "idle")
    BY <1>1, DoneMoves DEF Store
  <1>4. /\ loaded' \in [Processes -> [known : BOOLEAN, queries : Nat, at : Nat]]
        /\ \A q \in Processes : q # p => header'[q] = header[q] /\ loaded'[q] = loaded[q]
    BY <1>1, <1>2 DEF Forget, OverspendTyped, Typed, NeverSynced
  <1>5. label \in Labels /\ lost' \in Nat /\ (lost' = lost \/ lost' = lost + 1)
    BY <1>1 DEF Labels, Store
  <1>6. pc'[p] = label /\ Alone(p) /\ (p # Monitor => Share' = Share) /\ OverspendTyped'
    BY <1>1, <1>2, <1>3, <1>4, <1>5, StepAside
  <1>7. p \notin Late' /\ (p = Monitor => Share' = 0 /\ Late' = Late)
    <2>1. p \notin Late'
      BY <1>6 DEF Late, Holding
    <2>2. p = Monitor => Share' = 0 /\ p \notin Late
      BY <1>3, <1>6, BraveAssumption DEF Share, MonitorIsLate, Holding, Late
    <2>3. Shifts(p)
      BY <1>1, <1>6, AloneShifts
    <2>4. QED BY <2>1, <2>2, <2>3 DEF Shifts
  <1>8. Share' <= Share + 2 * (checks' - checks) /\ lost' >= lost /\ checks' >= checks
    <2>1. Share \in Nat
      BY <1>1, Numbers DEF NumbersFit
    <2>2. QED BY <1>1, <1>2, <1>5, <1>6, <1>7, <2>1
  <1>9. p \in Spenders' => Open' /\ p \in Searches
    BY <1>6 DEF Spenders, Commits
  <1>10. CASE lost' = lost + 1 /\ synced' = synced
    <2>1. Open' => Open
      BY <1>10 DEF Open
    <2>2. charged' >= Limit => Spent' <= Allowance'
      BY <1>2, <1>6, <1>7, <1>8, <1>10, <2>1, Quieter
    <2>3. QED BY <1>6, <2>2 DEF OverspendInv
  <1>11. CASE /\ lost' = lost
              /\ synced' = IF header[p] >= loaded[p].queries THEN Synced(p) ELSE synced
    <2>1. CASE p \in Late
      <3>1. p \in Searches /\ p # Monitor
        BY <2>1, BraveAssumption DEF Late
      <3>2. charged' >= Limit => Spent' <= Allowance'
        BY <1>2, <1>6, <1>7, <1>11, <2>1, <3>1, LateStored
      <3>3. QED BY <1>6, <3>2 DEF OverspendInv
    <2>2. CASE p = Monitor /\ MonitorIsLate
      <3>1. charged' >= Limit => Spent' <= Allowance'
        BY <1>2, <1>6, <1>7, <1>11, <2>2, CheckStored
      <3>2. QED BY <1>6, <3>1 DEF OverspendInv
    <2>3. CASE p \notin Late /\ ~(p = Monitor /\ MonitorIsLate)
      <3>1. header[p] >= Limit
        BY <1>1, <1>2, <2>3 DEF Late, MonitorIsLate, Holding, Processes
      <3>2. CASE header[p] >= loaded[p].queries
        <4>1. ~Open'
          BY <1>1, <1>11, <3>1, <3>2 DEF Open, Synced
        <4>2. charged' >= Limit => Spent' <= Allowance'
          BY <1>2, <1>6, <1>7, <1>8, <1>9, <2>3, <4>1, Quieter
        <4>3. QED BY <1>6, <4>2 DEF OverspendInv
      <3>3. CASE ~(header[p] >= loaded[p].queries)
        <4>1. Open' = Open
          BY <1>11, <3>3 DEF Open
        <4>2. p \in Spenders' => p \in Spenders
          BY <1>1, <1>2, <1>9, <3>1, <3>3, <4>1 DEF Spenders, Free
        <4>3. charged' >= Limit => Spent' <= Allowance'
          BY <1>2, <1>6, <1>7, <1>8, <2>3, <4>1, <4>2, Quieter
        <4>4. QED BY <1>6, <4>3 DEF OverspendInv
      <3>4. QED BY <3>2, <3>3
    <2>4. QED BY <2>1, <2>2, <2>3
  <1>12. QED BY <1>10, <1>11 DEF Store

\* A process that stops loses the answer it holds, which is counted, or returns
\* to where it could spend as much.
LEMMA StopOverspend ==
    ASSUME OverspendInv, IInv', NEW p \in Processes, Stop(p)
    PROVE  OverspendInv'
  <1>1. Typed /\ OverspendTyped /\ lost \in Nat /\ checks \in Nat
    BY DEF OverspendInv, IInv, OverspendTyped
  <1>2. UNCHANGED <<synced, charged, checks>> /\ pc[p] # "idle" /\ Forget(p) /\ Goto(p, "idle")
        /\ lost' = IF pc[p] \in Holding THEN lost + 1 ELSE lost
    BY DEF Stop, Holding
  <1>3. /\ loaded' \in [Processes -> [known : BOOLEAN, queries : Nat, at : Nat]]
        /\ \A q \in Processes : q # p => header'[q] = header[q] /\ loaded'[q] = loaded[q]
    BY <1>1, <1>2 DEF Forget, OverspendTyped, Typed, NeverSynced
  <1>4. \A t \in Searches : t # p => seen'[t] = seen[t]
    BY <1>1 DEF Stop, Return, reserving, Typed
  <1>5. "idle" \in Labels /\ lost' \in Nat
    BY <1>1, <1>2 DEF Labels
  <1>6. pc'[p] = "idle" /\ Alone(p) /\ (p # Monitor => Share' = Share) /\ OverspendTyped'
    BY <1>1, <1>2, <1>3, <1>4, <1>5, StepAside
  <1>7. p \notin Late' /\ (p = Monitor => Share' = 0)
    BY <1>6 DEF Share, MonitorIsLate, Holding, Late
  <1>8. Share' <= Share + 2 * (checks' - checks) /\ lost' >= lost /\ checks' >= checks
    <2>1. Share \in Nat
      BY <1>1, Numbers DEF NumbersFit
    <2>2. QED BY <1>1, <1>2, <1>6, <1>7, <2>1
  <1>9. Open' = Open
    BY <1>2 DEF Open
  <1>10. (p \in Spenders' => p \in Spenders) \/ lost' = lost + 1
    <2>1. CASE pc[p] \in Holding
      BY <1>2, <2>1
    <2>2. CASE pc[p] \notin Holding
      <3>1. pc[p] \in {"begin", "wait", "decide", "request"}
        BY <1>1, <1>2, <2>2 DEF Typed, Labels, Holding
      <3>2. QED BY <1>6, <1>9, <3>1 DEF Spenders, Commits, Free
    <2>3. QED BY <2>1, <2>2
  <1>11. charged' >= Limit => Spent' <= Allowance'
    BY <1>2, <1>6, <1>7, <1>8, <1>9, <1>10, Quieter
  <1>12. QED BY <1>6, <1>11 DEF OverspendInv

\* Nothing is charged at first: every search may spend one query.
LEMMA InitOverspend == Init => OverspendInv
  <1> SUFFICES ASSUME Init PROVE OverspendInv
    OBVIOUS
  <1>1. IInv /\ Typed
    BY InitInv DEF IInv
  <1>2. OverspendTyped
    BY BraveAssumption DEF Init, OverspendTyped, NeverSynced, Processes
  <1>3. ASSUME charged >= Limit PROVE Spent <= Allowance
    <2>1. charged = 0 /\ lost = 0 /\ checks = 0 /\ Limit = 0
      BY <1>3, BraveAssumption DEF Init
    <2>2. Spenders = {} /\ Late = {}
      BY <2>1 DEF Init, Spenders, Late, Commits, Free, Open, NeverSynced, Holding, Processes
    <2>3. pc[Monitor] = "idle" /\ ~MonitorIsLate
      BY DEF Init, MonitorIsLate, Holding, Processes
    <2>4. Cardinality(Spenders) = 0 /\ Cardinality(Late) = 0
      BY <2>2, FS_EmptySet
    <2>5. All \in Nat /\ All >= 1 /\ All * All \in Int /\ All * All >= All
      <3>1. All \in Nat /\ All >= 1
        BY AllIsNat
      <3>2. All * All = All * (All - 1) + All /\ All - 1 \in Nat
        BY <3>1
      <3>3. \A a, b \in Nat : a * b \in Nat
        OBVIOUS
      <3>4. All * (All - 1) \in Nat
        BY <3>1, <3>2, <3>3
      <3>5. QED BY <3>1, <3>2, <3>4
    <2>6. Ahead(0) = 0
      BY <2>5 DEF Ahead
    <2>7. Spent = 0
      BY <2>1, <2>3, <2>4, <2>6 DEF Spent
    <2> DEFINE square == All * All
    <2>8. square \in Int /\ square >= All /\ Allowance = square + All - 2
      BY <2>1, <2>5 DEF Allowance
    <2> HIDE DEF square
    <2>9. QED BY <2>5, <2>7, <2>8
  <1>4. QED BY <1>1, <1>2, <1>3 DEF OverspendInv

\* Every action keeps the allowance.
LEMMA NextOverspend == OverspendInv /\ [Next]_vars => OverspendInv'
  <1> SUFFICES ASSUME OverspendInv, [Next]_vars PROVE OverspendInv'
    OBVIOUS
  <1>1. IInv'
    BY NextInv DEF OverspendInv
  <1>2. CASE Check
    BY <1>1, <1>2, CheckOverspend
  <1>3. ASSUME NEW s \in Searches, Search(s) \/ Begin(s) \/ Lock(s) \/ Reserve(s)
        PROVE  OverspendInv'
    BY <1>1, <1>3, ReservationOverspend
  <1>4. ASSUME NEW p \in Processes,
               Answered(p) \/ Unanswered(p) \/ Silent(p) \/ Observe(p) \/ Load(p) \/ Store(p)
                 \/ Stop(p)
        PROVE  OverspendInv'
    BY <1>1, <1>4, AnsweredOverspend, LostOverspend, ReadOverspend, StoreOverspend, StopOverspend
  <1>5. CASE UNCHANGED vars
    <2>1. UNCHANGED <<pc, header, loaded, seen, synced, charged, lost, checks>>
      BY <1>5 DEF vars, store, reserving, syncing, counters
    <2>2. OverspendTyped' /\ Spenders' = Spenders /\ Late' = Late /\ Share' = Share
      BY <2>1 DEF OverspendInv, OverspendTyped, Spenders, Late, Commits, Free, Open, Share,
                  MonitorIsLate
    <2>3. Spent' = Spent /\ Allowance' = Allowance
      BY <2>1, <2>2 DEF Spent, Allowance, MonitorIsLate
    <2>4. QED BY <1>1, <2>1, <2>2, <2>3 DEF OverspendInv
  <1>6. QED BY <1>2, <1>3, <1>4, <1>5 DEF Next

\* What the provider charges exceeds the monthly limit by no more than the checks,
\* the lost answers and what late answers lead the searches to, however many
\* searches there are and in whatever order their answers are stored.
THEOREM OverspendIsBounded == Spec => []OverspendBounded
  <1>1. OverspendInv => OverspendBounded
    <2> SUFFICES ASSUME OverspendInv PROVE OverspendBounded
      OBVIOUS
    <2> DEFINE square == All * All
               half == (All * (All + 1)) \div 2
               extra == IF checks = 0 THEN 0 ELSE All - 1
               e == Cardinality(Spenders)
               a == Ahead(Cardinality(Late))
    <2>1. NumbersFit /\ (charged >= Limit => Spent <= Allowance)
      BY Numbers DEF OverspendInv, IInv
    <2>2. All \in Nat /\ All >= 1
      BY AllIsNat
    <2>3. square \in Nat /\ All * (All + 1) = square + All
      BY <2>2
    <2>4. \E k \in Nat : square + All = 2 * k
      BY <2>2, SumIsEven
    <2>5. half \in Nat /\ 2 * half = square + All
      BY <2>3, <2>4
    <2>6. half >= 1
      BY <2>2, <2>5, <2>3
    <2>7. /\ charged \in Nat /\ lost \in Nat /\ checks \in Nat /\ Limit \in Nat
          /\ Share \in Nat /\ e \in Nat /\ a \in Int
          /\ Spent = 2 * (charged + e) + a + Share
      BY <2>1 DEF NumbersFit, Fit
    <2>8. a >= 0
      BY <2>1, AheadIsNat DEF NumbersFit, Fit
    <2>9. Allowance = 2 * (Limit + checks + lost) + square + All - 2 + 2 * extra
      BY <2>2 DEF Allowance
    <2>10. LateAnswers = half - 1 + extra
      BY DEF LateAnswers, All
    <2>11. extra \in Nat
      BY <2>2
    <2> HIDE DEF square, half, extra, e, a
    <2>12. charged <= Limit + checks + lost + (half - 1 + extra)
      <3>1. CASE charged < Limit
        BY <2>6, <2>5, <2>7, <2>11, <3>1
      <3>2. CASE charged >= Limit
        <4>1. Spent >= 2 * charged
          BY <2>7, <2>8
        <4>2. Spent <= 2 * (Limit + checks + lost) + 2 * half - 2 + 2 * extra
          <5>1. Spent <= Allowance
            BY <2>1, <3>2
          <5>2. QED BY <2>2, <2>3, <2>5, <2>7, <2>9, <2>11, <5>1
        <4>3. Spent \in Int
          BY <2>7
        <4>4. QED BY <2>5, <2>7, <2>11, <4>1, <4>2, <4>3
      <3>3. QED BY <2>7, <3>1, <3>2
    <2>13. QED BY <2>10, <2>12 DEF OverspendBounded
  <1>2. QED BY <1>1, InitOverspend, NextOverspend, PTL DEF Spec

=============================================================================
