------------------------- MODULE ProviderSearch_proofs -------------------------
(***************************************************************************)
(* Proofs about ProviderSearch: the budget of a metered provider holds,    *)
(* every job has been paid for and every dispatched ask is joined to its   *)
(* job, for any number of plans, refreshes, dispatchers and workers and    *)
(* over any mishaps; and a job that is done stays done, over any but a     *)
(* completion that outlives its lease.                                     *)
(***************************************************************************)
EXTENDS ProviderSearch, FiniteSetTheorems, TLAPS

\* The part of the type that the arguments below rest on.
Windows == [count : Nat, orders : Nat, circuit : {"CLEAR", "OPEN"}]
Runs == [step : {"idle", "look", "read", "count", "open", "insert", "record", "mark", "fail"},
         rows : SUBSET Ask, ask : Ask \cup {None}, limit : Nat]

Rows == [state : {"absent", "PENDING", "LEASED", "DONE", "DEAD"}, by : Worker \cup {None},
         lapsed : BOOLEAN, attempts : Nat]

Shape ==
    /\ window \in Windows
    /\ run \in [Dispatcher -> Runs]
    /\ \A d \in Dispatcher : run[d].step \notin {"idle", "look"} => run[d].ask \in Ask
    /\ DOMAIN ask = Ask /\ job \in [Job -> Rows]

\* The limit a dispatcher remembers was right once, and limits only grow.
RememberedLimits ==
    \A d \in Dispatcher : run[d].step = "count" => run[d].limit <= Limit(window.orders)

\* A dispatcher past the INSERT has its job; one about to mark a refresh has
\* recorded the consumer.
Progress ==
    \A d \in Dispatcher :
        /\ run[d].step \in {"record", "mark"} => job[JobOf[run[d].ask]] # NoJob
        /\ run[d].step = "mark" => run[d].ask \in consumers

IInv == Shape /\ BudgetHeld /\ RememberedLimits /\ Progress /\ DispatchedIsJoined

-----------------------------------------------------------------------------
\* The limit is a number, and another confirmed order never lowers it.
LEMMA LimitGrows ==
    ASSUME NEW n \in Nat, NEW m \in Nat, n <= m
    PROVE  Limit(n) \in Nat /\ Limit(n) <= Limit(m)
<1>1. Threshold \in Nat /\ Cap \in Nat /\ Threshold > 0
  BY SearchAssumption
<1> DEFINE f(k) == IF k = 0 THEN 1 ELSE k
           g(k) == f(k) * Threshold
<1>2. f(n) \in Nat /\ f(m) \in Nat /\ f(n) <= f(m)
  OBVIOUS
<1>3. g(n) \in Nat /\ g(m) \in Nat /\ g(n) <= g(m)
  <2>1. \A x, y, z \in Nat : x <= y => x * z <= y * z /\ x * z \in Nat /\ y * z \in Nat
    BY SMT
  <2> QED
    BY <1>1, <1>2, <2>1
<1> HIDE DEF g
<1>4. Limit(n) = (IF g(n) < Cap THEN g(n) ELSE Cap)
      /\ Limit(m) = (IF g(m) < Cap THEN g(m) ELSE Cap)
  BY DEF Limit, g
<1> QED
  BY <1>1, <1>3, <1>4

LEMMA InitIInv == Init => IInv
<1> SUFFICES ASSUME Init PROVE IInv
  OBVIOUS
<1>1. Shape
  BY DEF Init, Shape, Windows, Runs, Rows, IdleRun, NoJob
<1>2. Limit(0) \in Nat
  BY LimitGrows
<1> QED
  BY <1>1, <1>2 DEF Init, IInv, BudgetHeld, RememberedLimits, Progress, DispatchedIsJoined,
                    IdleRun
-----------------------------------------------------------------------------
\* Whatever leaves the dispatches alone and only grows what they rely on keeps
\* the invariant.
LEMMA Untouched ==
    ASSUME IInv, ask' = ask, consumers' = consumers, run' = run, window' = window,
           job' \in [Job -> Rows], \A j \in Job : job[j] # NoJob => job'[j] # NoJob
    PROVE  IInv'
<1>1. \A a \in Ask : JobOf[a] \in Job
  BY SearchAssumption
<1>2. Shape' /\ BudgetHeld' /\ RememberedLimits'
  BY DEF IInv, Shape, BudgetHeld, RememberedLimits, Limit
<1>3. Progress' /\ DispatchedIsJoined'
  BY <1>1 DEF IInv, Shape, Progress, DispatchedIsJoined
<1> QED
  BY <1>2, <1>3 DEF IInv

\* The next row of an invocation is looked up from the start.
LEMMA NextRowIsFresh ==
    ASSUME IInv, NEW d \in Dispatcher, NEW a, NextRow(d, a)
    PROVE  /\ run' \in [Dispatcher -> Runs]
           /\ \A e \in Dispatcher : e # d => run'[e] = run[e]
           /\ run'[d].step \in {"idle", "look"}
<1>1. run \in [Dispatcher -> Runs] /\ run[d].rows \subseteq Ask
  BY DEF IInv, Shape, Runs
<1> DEFINE next == IF run[d].rows \ {a} = {} THEN IdleRun
                   ELSE [IdleRun EXCEPT !.step = "look", !.rows = run[d].rows \ {a}]
<1>2. run' = [run EXCEPT ![d] = next]
  BY DEF NextRow
<1>3. next \in Runs /\ next.step \in {"idle", "look"}
  BY <1>1 DEF IdleRun, Runs
<1> HIDE DEF next
<1> QED
  BY <1>1, <1>2, <1>3

\* One invocation takes a step: what it owes the invariant.
LEMMA OneRun ==
    ASSUME IInv, NEW d \in Dispatcher,
           run' \in [Dispatcher -> Runs],
           \A e \in Dispatcher : e # d => run'[e] = run[e],
           run'[d].step \notin {"idle", "look"} => run'[d].ask \in Ask,
           window' \in Windows, BudgetHeld', window.orders <= window'.orders,
           run'[d].step = "count" => run'[d].limit <= Limit(window'.orders),
           job' \in [Job -> Rows], \A j \in Job : job[j] # NoJob => job'[j] # NoJob,
           consumers \subseteq consumers',
           run'[d].step \in {"record", "mark"} => job'[JobOf[run'[d].ask]] # NoJob,
           run'[d].step = "mark" => run'[d].ask \in consumers',
           DOMAIN ask' = Ask,
           \A a \in Ask : ask'[a] = "DISPATCHED" =>
               ask[a] = "DISPATCHED" \/ (a \in consumers' /\ job'[JobOf[a]] # NoJob)
    PROVE  IInv'
<1>1. \A a \in Ask : JobOf[a] \in Job
  BY SearchAssumption
<1>2. Shape'
  BY DEF IInv, Shape
<1>3. RememberedLimits'
  <2> SUFFICES ASSUME NEW e \in Dispatcher, run'[e].step = "count"
               PROVE  run'[e].limit <= Limit(window'.orders)
    BY DEF RememberedLimits, Limit
  <2>1. CASE e = d
    BY <2>1
  <2>2. CASE e # d
    <3>1. run[e].limit <= Limit(window.orders) /\ run'[e].limit = run[e].limit
      BY <2>2 DEF IInv, RememberedLimits
    <3>2. window.orders \in Nat /\ window'.orders \in Nat /\ run[e].limit \in Nat
      BY DEF IInv, Shape, Windows, Runs
    <3>3. Limit(window.orders) \in Nat /\ Limit(window'.orders) \in Nat
          /\ Limit(window.orders) <= Limit(window'.orders)
      BY <3>2, LimitGrows
    <3> HIDE DEF Limit
    <3> QED
      BY <3>1, <3>2, <3>3
  <2> QED
    BY <2>1, <2>2
<1>4. Progress'
  <2> SUFFICES ASSUME NEW e \in Dispatcher
               PROVE  /\ run'[e].step \in {"record", "mark"} => job'[JobOf[run'[e].ask]] # NoJob
                      /\ run'[e].step = "mark" => run'[e].ask \in consumers'
    BY DEF Progress
  <2>1. CASE e = d
    BY <2>1
  <2>2. CASE e # d
    BY <2>2, <1>1 DEF IInv, Shape, Progress
  <2> QED
    BY <2>1, <2>2
<1>5. DispatchedIsJoined'
  BY <1>1 DEF IInv, DispatchedIsJoined
<1> QED
  BY <1>2, <1>3, <1>4, <1>5 DEF IInv

-----------------------------------------------------------------------------
\* A step that replaces the run of one invocation.
LEMMA SetRun ==
    ASSUME IInv, NEW d \in Dispatcher, NEW r \in Runs, run' = [run EXCEPT ![d] = r]
    PROVE  /\ run' \in [Dispatcher -> Runs] /\ run'[d] = r
           /\ \A e \in Dispatcher : e # d => run'[e] = run[e]
  BY DEF IInv, Shape

\* The same for a step that only reads: it changes nothing but its own run.
LEMMA OnlyRun ==
    ASSUME IInv, NEW d \in Dispatcher,
           run' \in [Dispatcher -> Runs],
           \A e \in Dispatcher : e # d => run'[e] = run[e],
           run'[d].step \notin {"idle", "look"} => run'[d].ask \in Ask,
           run'[d].step = "count" => run'[d].limit <= Limit(window.orders),
           run'[d].step = "record" => job[JobOf[run'[d].ask]] # NoJob,
           run'[d].step # "mark",
           UNCHANGED <<ask, consumers, window, job>>
    PROVE  IInv'
<1>1. window' \in Windows /\ window.orders <= window'.orders
  BY DEF IInv, Shape, Windows
<1>2. BudgetHeld'
  BY DEF IInv, BudgetHeld, Limit
<1>3. job' \in [Job -> Rows] /\ DOMAIN ask' = Ask
  BY DEF IInv, Shape
<1>4. Limit(window'.orders) = Limit(window.orders)
  OBVIOUS
<1> HIDE DEF Limit
<1> QED
  BY <1>1, <1>2, <1>3, <1>4, OneRun

LEMMA SelectStep ==
    ASSUME IInv, NEW d \in Dispatcher, SelectAsks(d) PROVE IInv'
<1> DEFINE Plans == {p \in Plan : ask[p] = "READY"}
           Singles == {{r} : r \in Events}
<1>a. \A S \in Limited(Plans, DispatchLimit) : S \subseteq Plan
  BY DEF Limited
<1>b. \A S \in Singles : S \subseteq Refresh
  BY DEF Events
<1>c. PICK S \in Limited(Plans, DispatchLimit) \cup Singles :
          run' = [run EXCEPT ![d].step = "look", ![d].rows = S]
  BY DEF SelectAsks
<1>1. S \in SUBSET Ask /\ run' = [run EXCEPT ![d].step = "look", ![d].rows = S]
  BY <1>a, <1>b, <1>c DEF Ask
<1>2. /\ run' \in [Dispatcher -> Runs] /\ run'[d].step = "look"
      /\ \A e \in Dispatcher : e # d => run'[e] = run[e]
  <2> DEFINE r == [run[d] EXCEPT !.step = "look", !.rows = S]
  <2>1. run \in [Dispatcher -> Runs]
    BY DEF IInv, Shape
  <2>2. r \in Runs /\ r.step = "look"
    BY <1>1, <2>1 DEF Runs
  <2>3. run' = [run EXCEPT ![d] = r]
    BY <1>1, <2>1
  <2> HIDE DEF r
  <2> QED
    BY <2>2, <2>3, SetRun
<1>3. UNCHANGED <<ask, consumers, window, job>>
  BY DEF SelectAsks, workVars
<1> QED
  BY <1>2, <1>3, OnlyRun

LEMMA LookStep ==
    ASSUME IInv, NEW d \in Dispatcher, LookForJob(d) PROVE IInv'
<1>0. run \in [Dispatcher -> Runs] /\ run[d].rows \subseteq Ask
  BY DEF IInv, Shape, Runs
<1>1. UNCHANGED <<ask, consumers, window, job>>
  BY DEF LookForJob
<1>2. PICK a \in run[d].rows :
          \/ run' = [run EXCEPT ![d].ask = a, ![d].step = "fail"]
          \/ run' = [run EXCEPT ![d].ask = a, ![d].step =
                       IF job[JobOf[a]] = NoJob THEN "read" ELSE "record"]
          \/ NextRow(d, a)
  BY DEF LookForJob
<1>3. a \in Ask
  BY <1>0
<1>4. CASE run' = [run EXCEPT ![d].ask = a, ![d].step = "fail"]
  <2>1. /\ run' \in [Dispatcher -> Runs] /\ run'[d].step = "fail" /\ run'[d].ask = a
        /\ \A e \in Dispatcher : e # d => run'[e] = run[e]
    <3> DEFINE r == [run[d] EXCEPT !.ask = a, !.step = "fail"]
    <3>1. r \in Runs /\ r.step = "fail" /\ r.ask = a
      BY <1>0, <1>3 DEF Runs
    <3>2. run' = [run EXCEPT ![d] = r]
      BY <1>0, <1>4
    <3> HIDE DEF r
    <3> QED
      BY <3>1, <3>2, SetRun
  <2> QED
    BY <1>1, <1>3, <2>1, OnlyRun
<1>5. CASE run' = [run EXCEPT ![d].ask = a, ![d].step =
                     IF job[JobOf[a]] = NoJob THEN "read" ELSE "record"]
  <2>1. /\ run' \in [Dispatcher -> Runs] /\ run'[d].ask = a
        /\ run'[d].step = IF job[JobOf[a]] = NoJob THEN "read" ELSE "record"
        /\ \A e \in Dispatcher : e # d => run'[e] = run[e]
    <3> DEFINE s == IF job[JobOf[a]] = NoJob THEN "read" ELSE "record"
               r == [run[d] EXCEPT !.ask = a, !.step = s]
    <3>0. s \in {"read", "record"}
      OBVIOUS
    <3>1. run' = [run EXCEPT ![d] = r]
      BY <1>0, <1>5
    <3> HIDE DEF s
    <3>2. r \in Runs /\ r.step = s /\ r.ask = a
      BY <1>0, <1>3, <3>0 DEF Runs
    <3> HIDE DEF r
    <3>3. /\ run' \in [Dispatcher -> Runs] /\ run'[d].ask = a /\ run'[d].step = s
          /\ \A e \in Dispatcher : e # d => run'[e] = run[e]
      BY <3>1, <3>2, SetRun
    <3> QED
      BY <3>3 DEF s
  <2> QED
    BY <1>1, <1>3, <2>1, OnlyRun
<1>6. CASE NextRow(d, a)
  BY <1>1, <1>6, NextRowIsFresh, OnlyRun
<1> QED
  BY <1>2, <1>4, <1>5, <1>6

\* The statements between the look and the record move the step on.
LEMMA Moves ==
    ASSUME IInv, NEW d \in Dispatcher, NEW s \in {"count", "open", "insert", "record",
                                                 "mark", "fail"},
           run[d].step \notin {"idle", "look"}, Go(d, s)
    PROVE  /\ run' \in [Dispatcher -> Runs] /\ run'[d].step = s
           /\ run'[d].ask = run[d].ask /\ run[d].ask \in Ask
           /\ \A e \in Dispatcher : e # d => run'[e] = run[e]
<1>1. run \in [Dispatcher -> Runs] /\ run[d].ask \in Ask
  BY DEF IInv, Shape
<1> QED
  BY <1>1 DEF Go, Runs

LEMMA BudgetStep ==
    ASSUME IInv, NEW d \in Dispatcher,
           ReadWindow(d) \/ CountSearch(d) \/ OpenCircuit(d)
    PROVE  IInv'
<1>0. window \in Windows /\ Limit(window.orders) \in Nat
  BY LimitGrows DEF IInv, Shape, Windows
<1>1. UNCHANGED <<ask, consumers, job>>
  BY DEF ReadWindow, CountSearch, OpenCircuit
<1>2. CASE ReadWindow(d)
  <2>1. CASE Go(d, "open")
    <3>1. At(d, "read") /\ window' = window
      BY <1>2 DEF ReadWindow
    <3>2. /\ run' \in [Dispatcher -> Runs] /\ run'[d].step = "open"
          /\ run'[d].ask \in Ask /\ \A e \in Dispatcher : e # d => run'[e] = run[e]
      BY <2>1, <3>1, Moves DEF At
    <3> QED
      BY <1>1, <3>1, <3>2, OnlyRun
  <2>2. CASE run' = [run EXCEPT ![d].step = "count", ![d].limit = Limit(window.orders)]
    <3>1. /\ run' \in [Dispatcher -> Runs] /\ run'[d].step = "count"
          /\ run'[d].ask = run[d].ask /\ run[d].ask \in Ask
          /\ run'[d].limit = Limit(window.orders)
          /\ \A e \in Dispatcher : e # d => run'[e] = run[e]
      <4> DEFINE l == Limit(window.orders)
                 r == [run[d] EXCEPT !.step = "count", !.limit = l]
      <4>1. run[d] \in Runs /\ run[d].ask \in Ask
        BY <1>2 DEF IInv, Shape, ReadWindow, At
      <4>2. run' = [run EXCEPT ![d] = r]
        BY <2>2 DEF IInv, Shape
      <4>3. l \in Nat
        BY <1>0
      <4> HIDE DEF l
      <4>4. r \in Runs /\ r.step = "count" /\ r.ask = run[d].ask /\ r.limit = l
        BY <4>1, <4>3 DEF Runs
      <4> HIDE DEF r
      <4>5. /\ run' \in [Dispatcher -> Runs] /\ run'[d] = r
            /\ \A e \in Dispatcher : e # d => run'[e] = run[e]
        BY <4>2, <4>4, SetRun
      <4> QED
        BY <4>1, <4>4, <4>5 DEF l
    <3> QED
      <4>1. window' = window /\ run'[d].limit <= Limit(window.orders)
        BY <1>0, <1>2, <3>1 DEF ReadWindow
      <4> QED
        BY <1>1, <3>1, <4>1, OnlyRun
  <2> QED
    BY <1>2, <2>1, <2>2 DEF ReadWindow
<1>3. CASE CountSearch(d)
  <2>0. At(d, "count") /\ run[d].limit \in Nat /\ run[d].limit <= Limit(window.orders)
    BY <1>3 DEF CountSearch, At, IInv, Shape, Runs, RememberedLimits
  <2>1. CASE window.count < run[d].limit /\ window' = [window EXCEPT !.count = @ + 1]
             /\ Go(d, "insert")
    <3>1. window' \in Windows /\ window'.orders = window.orders
          /\ window'.count = window.count + 1
      BY <1>0, <2>1 DEF Windows
    <3>2. BudgetHeld'
      <4>1. window.count + 1 <= Limit(window.orders)
        BY <1>0, <2>0, <2>1 DEF Windows
      <4>2. Limit(window'.orders) = Limit(window.orders)
        BY <3>1
      <4> QED
        BY <3>1, <4>1, <4>2 DEF BudgetHeld, Limit
    <3> QED
      BY <1>0, <1>1, <2>0, <2>1, <3>1, <3>2, Moves, OneRun DEF IInv, Shape, Windows, At
  <2>2. CASE window' = window /\ Go(d, "open")
    BY <1>0, <1>1, <2>0, <2>2, Moves, OneRun DEF IInv, Shape, Windows, BudgetHeld, At
  <2> QED
    BY <1>3, <2>1, <2>2 DEF CountSearch
<1>4. CASE OpenCircuit(d)
  <2>1. /\ window' \in Windows /\ window'.orders = window.orders
        /\ window'.count = window.count
    BY <1>0, <1>4 DEF OpenCircuit, Windows
  <2> QED
    BY <1>0, <1>1, <1>4, <2>1, Moves, OneRun
       DEF IInv, Shape, Windows, BudgetHeld, OpenCircuit, At
<1> QED
  BY <1>2, <1>3, <1>4

LEMMA JobStep ==
    ASSUME IInv, NEW d \in Dispatcher, InsertJob(d) PROVE IInv'
<1>1. At(d, "insert") /\ Go(d, "record") /\ UNCHANGED <<ask, consumers, window>>
  BY DEF InsertJob
<1>2. run[d].ask \in Ask /\ JobOf[run[d].ask] \in Job
  BY <1>1, SearchAssumption DEF At, IInv, Shape
<1>3. [NoJob EXCEPT !.state = "PENDING"] # NoJob
  <2>1. [NoJob EXCEPT !.state = "PENDING"].state = "PENDING" /\ NoJob.state = "absent"
    BY DEF NoJob
  <2> QED
    BY <2>1
<1>4. [NoJob EXCEPT !.state = "PENDING"] \in Rows
  BY DEF NoJob, Rows
<1>5. /\ job' \in [Job -> Rows] /\ job'[JobOf[run[d].ask]] # NoJob
      /\ \A j \in Job : job[j] # NoJob => job'[j] # NoJob
  BY <1>2, <1>3, <1>4 DEF InsertJob, IInv, Shape
<1> QED
  BY <1>1, <1>2, <1>5, Moves, OneRun DEF IInv, Shape, Windows, BudgetHeld, At

LEMMA OutcomeStep ==
    ASSUME IInv, NEW d \in Dispatcher, Record(d) \/ MarkRefresh(d) \/ FailAsk(d)
    PROVE  IInv'
<1>0. run[d].ask \in Ask /\ UNCHANGED <<window, job>>
  BY DEF Record, MarkRefresh, FailAsk, IInv, Shape, At
<1>1. CASE Record(d)
  <2>1. job[JobOf[run[d].ask]] # NoJob
    BY <1>1 DEF Record, At, IInv, Progress
  <2>2. DOMAIN ask' = Ask /\ \A a \in Ask : a # run[d].ask => ask'[a] = ask[a]
    BY <1>1 DEF Record, IInv, Shape
  <2>3. consumers' = consumers \cup {run[d].ask}
    BY <1>1 DEF Record
  <2>4. CASE NextRow(d, run[d].ask)
    BY <1>0, <2>1, <2>2, <2>3, <2>4, NextRowIsFresh, OneRun
       DEF IInv, Shape, Windows, BudgetHeld
  <2>5. CASE Go(d, "mark")
    BY <1>0, <1>1, <2>1, <2>2, <2>3, <2>5, Moves, OneRun
       DEF IInv, Shape, Windows, BudgetHeld, Record, At
  <2> QED
    BY <1>1, <2>4, <2>5 DEF Record
<1>2. CASE MarkRefresh(d)
  <2>1. /\ job[JobOf[run[d].ask]] # NoJob /\ run[d].ask \in consumers
        /\ consumers' = consumers
    BY <1>2 DEF MarkRefresh, At, IInv, Progress
  <2>2. DOMAIN ask' = Ask /\ \A a \in Ask : a # run[d].ask => ask'[a] = ask[a]
    BY <1>2 DEF MarkRefresh, IInv, Shape
  <2>3. NextRow(d, run[d].ask)
    BY <1>2 DEF MarkRefresh
  <2> QED
    BY <1>0, <2>1, <2>2, <2>3, NextRowIsFresh, OneRun DEF IInv, Shape, Windows, BudgetHeld
<1>3. CASE FailAsk(d)
  <2>1. /\ DOMAIN ask' = Ask /\ \A a \in Ask : a # run[d].ask => ask'[a] = ask[a]
        /\ ask'[run[d].ask] = "DEAD" /\ consumers' = consumers
    BY <1>0, <1>3 DEF FailAsk, IInv, Shape
  <2>2. NextRow(d, run[d].ask)
    BY <1>3 DEF FailAsk
  <2> QED
    BY <1>0, <2>1, <2>2, NextRowIsFresh, OneRun DEF IInv, Shape, Windows, BudgetHeld
<1> QED
  BY <1>1, <1>2, <1>3

LEMMA KillStep ==
    ASSUME IInv, NEW d \in Dispatcher, KillDispatch(d) PROVE IInv'
<1>1. /\ run' \in [Dispatcher -> Runs] /\ run'[d].step = "idle"
      /\ \A e \in Dispatcher : e # d => run'[e] = run[e]
  BY DEF KillDispatch, IInv, Shape, Runs, IdleRun
<1> QED
  BY <1>1, OneRun DEF IInv, Shape, Windows, BudgetHeld, KillDispatch, workVars

LEMMA OrderStep ==
    ASSUME IInv, RecordOrder PROVE IInv'
<1>0. window \in Windows /\ window' = [window EXCEPT !.orders = @ + 1, !.circuit = "CLEAR"]
  BY DEF IInv, Shape, RecordOrder
<1>1. /\ window \in Windows /\ window' \in Windows
      /\ window'.orders = window.orders + 1 /\ window'.count = window.count
  <2>1. /\ DOMAIN window = {"count", "orders", "circuit"} /\ window.orders + 1 \in Nat
        /\ window.count \in Nat
    BY <1>0 DEF Windows
  <2>2. window' = [count |-> window.count, orders |-> window.orders + 1, circuit |-> "CLEAR"]
    BY <1>0, <2>1 DEF Windows
  <2> QED
    BY <1>0, <2>1, <2>2 DEF Windows
<1>2. /\ Limit(window.orders) \in Nat /\ Limit(window'.orders) \in Nat
      /\ Limit(window.orders) <= Limit(window'.orders)
  BY <1>1, LimitGrows DEF Windows
<1>3. UNCHANGED <<ask, consumers, run, job>>
  BY DEF RecordOrder
<1>4. BudgetHeld'
  <2>1. window'.count <= Limit(window'.orders)
    BY <1>1, <1>2 DEF IInv, BudgetHeld, Windows
  <2> QED
    BY <2>1 DEF BudgetHeld, Limit
<1>5. RememberedLimits'
  <2> SUFFICES ASSUME NEW d \in Dispatcher, run[d].step = "count"
               PROVE  run[d].limit <= Limit(window'.orders)
    BY <1>3 DEF RememberedLimits, Limit
  <2>1. run[d].limit \in Nat /\ run[d].limit <= Limit(window.orders)
    BY DEF IInv, Shape, Runs, RememberedLimits
  <2> QED
    BY <1>2, <2>1
<1>6. Shape' /\ Progress' /\ DispatchedIsJoined'
  BY <1>1, <1>3 DEF IInv, Shape, Progress, DispatchedIsJoined
<1> QED
  BY <1>4, <1>5, <1>6 DEF IInv

\* A settled job is still a job.
LEMMA SettledExists ==
    ASSUME IInv, NEW r, NEW state \in {"PENDING", "DONE", "DEAD"}, Settle(r, state)
    PROVE  /\ job' \in [Job -> Rows]
           /\ \A j \in Job : job[j] # NoJob => job'[j] # NoJob
<1>1. NoJob.state = "absent"
  BY DEF NoJob
<1> DEFINE new == [job[r.job] EXCEPT !.state = state, !.by = None, !.lapsed = FALSE]
<1>2. job \in [Job -> Rows] /\ job' = [job EXCEPT ![r.job] = new]
  BY DEF Settle, IInv, Shape
<1>3. r.job \in Job => new \in Rows /\ new.state = state
  BY <1>2 DEF Rows
<1> HIDE DEF new
<1>4. r.job \in Job => new # NoJob
  BY <1>1, <1>3
<1> QED
  BY <1>2, <1>3, <1>4

\* Workers, leases and completions change the rows of jobs that exist.
LEMMA RowsStay ==
    ASSUME IInv, UNCHANGED askVars,
           \/ UNCHANGED job
           \/ Reclaim
           \/ \E w \in Worker : Claim(w)
           \/ \E j \in Job : Lapse(j)
           \/ \E r \in completions : WriteOutcome(r)
    PROVE  /\ job' \in [Job -> Rows]
           /\ \A j \in Job : job[j] # NoJob => job'[j] # NoJob
<1>0. UNCHANGED <<ask, consumers, window, run>> /\ job \in [Job -> Rows]
  BY DEF askVars, IInv, Shape
<1>1. NoJob.state = "absent"
  BY DEF NoJob
<1>2. CASE UNCHANGED job
  BY <1>0, <1>2
<1>3. CASE Reclaim
  <2>1. \A j \in Job : job[j].state = "LEASED" =>
           LET new == [job[j] EXCEPT !.state = "PENDING", !.by = None, !.lapsed = FALSE]
           IN  new \in Rows /\ new.state = "PENDING"
    BY <1>0 DEF Rows
  <2> QED
    BY <1>0, <1>1, <1>3, <2>1 DEF Reclaim, Lapsed
<1>4. CASE \E w \in Worker : Claim(w)
  <2>1. PICK w \in Worker : Claim(w)
    BY <1>4
  <2> DEFINE tries(j) == IF job[j].attempts < MaxAttempts THEN job[j].attempts + 1
                         ELSE job[j].attempts
             new(j) == [state |-> "LEASED", by |-> w, lapsed |-> FALSE, attempts |-> tries(j)]
  <2>2. PICK S : job' = [j \in Job |-> IF j \in S THEN new(j) ELSE job[j]]
    BY <2>1 DEF Claim
  <2>3. \A j \in Job : tries(j) \in Nat
    BY <1>0 DEF Rows
  <2>4. \A j \in Job : new(j) \in Rows /\ new(j).state = "LEASED"
    BY <2>3 DEF Rows
  <2> HIDE DEF new
  <2> QED
    BY <1>0, <1>1, <2>2, <2>4
<1>5. CASE \E j \in Job : Lapse(j)
  <2>1. PICK j \in Job : Lapse(j)
    BY <1>5
  <2>2. /\ job[j].state = "LEASED"
        /\ job' = [job EXCEPT ![j] = [job[j] EXCEPT !.lapsed = TRUE]]
    BY <1>0, <2>1 DEF Lapse
  <2>3. LET new == [job[j] EXCEPT !.lapsed = TRUE]
        IN  new \in Rows /\ new.state = "LEASED"
    BY <1>0, <2>2 DEF Rows
  <2> QED
    BY <1>0, <1>1, <2>2, <2>3
<1>6. CASE \E r \in completions : WriteOutcome(r)
  <2>1. PICK r \in completions : WriteOutcome(r)
    BY <1>6
  <2>2. Settle(r, "DONE") \/ Settle(r, "PENDING") \/ Settle(r, "DEAD")
    BY <2>1 DEF WriteOutcome
  <2> QED
    BY <2>2, SettledExists
<1> QED
  BY <1>2, <1>3, <1>4, <1>5, <1>6

LEMMA WorkerStep ==
    ASSUME IInv, UNCHANGED askVars,
           \/ UNCHANGED job
           \/ Reclaim
           \/ \E w \in Worker : Claim(w)
           \/ \E j \in Job : Lapse(j)
           \/ \E r \in completions : WriteOutcome(r)
    PROVE  IInv'
<1>1. UNCHANGED <<ask, consumers, window, run>>
  BY DEF askVars
<1> QED
  BY <1>1, RowsStay, Untouched

LEMMA IInvStep == IInv /\ [Next]_vars => IInv'
<1> SUFFICES ASSUME IInv, [Next]_vars PROVE IInv'
  OBVIOUS
<1>1. ASSUME NEW d \in Dispatcher, SelectAsks(d) PROVE IInv'
  BY <1>1, SelectStep
<1>2. ASSUME NEW d \in Dispatcher, DispatchStep(d) PROVE IInv'
  BY <1>2, LookStep, BudgetStep, JobStep, OutcomeStep DEF DispatchStep
<1>3. ASSUME NEW d \in Dispatcher, KillDispatch(d) PROVE IInv'
  BY <1>3, KillStep
<1>4. CASE RecordOrder
  BY <1>4, OrderStep
<1>5. CASE Reclaim
  BY <1>5, WorkerStep DEF Reclaim
<1>6. ASSUME NEW w \in Worker, Claim(w) PROVE IInv'
  BY <1>6, WorkerStep DEF Claim
<1>7. ASSUME NEW w \in Worker, WorkStep(w) \/ CrashWorker(w) PROVE IInv'
  <2>1. UNCHANGED askVars /\ UNCHANGED job
    BY <1>7 DEF WorkStep, Search, IngestOffers, Complete, CrashWorker
  <2> QED
    BY <2>1, WorkerStep
<1>8. ASSUME NEW j \in Job, Lapse(j) PROVE IInv'
  BY <1>8, WorkerStep DEF Lapse
<1>9. ASSUME NEW r \in completions, WriteOutcome(r) PROVE IInv'
  BY <1>9, WorkerStep DEF WriteOutcome
<1>10. ASSUME NEW r \in completions, ProjectResults(r) \/ ReportDeath(r) \/ BreakCompletion(r)
       PROVE  IInv'
  <2>1. UNCHANGED askVars /\ UNCHANGED job
    BY <1>10 DEF ProjectResults, ReportDeath, BreakCompletion
  <2> QED
    BY <2>1, WorkerStep
<1>11. CASE UNCHANGED vars
  BY <1>11, WorkerStep DEF vars, askVars
<1> QED
  BY <1>1, <1>2, <1>3, <1>4, <1>5, <1>6, <1>7, <1>8, <1>9, <1>10, <1>11
     DEF Next, CompletionStep

LEMMA Invariance == Spec => []IInv
<1> QED
  BY InitIInv, IInvStep, PTL DEF Spec

\* The searches reserved from a metered provider never exceed the budget that
\* its confirmed orders allow: reserveProviderSearchBudget decides on a window
\* that may be stale, and counts in one guarded UPDATE.
THEOREM BudgetIsHeld == Spec => []BudgetHeld
<1>1. IInv => BudgetHeld
  BY DEF IInv
<1> QED
  BY <1>1, Invariance, PTL

\* Whatever dispatch is killed or overtaken, an ask that dispatching is through
\* with has its job, and is recorded as a consumer of it.
THEOREM DispatchJoins == Spec => []DispatchedIsJoined
<1>1. IInv => DispatchedIsJoined
  BY DEF IInv
<1> QED
  BY <1>1, Invariance, PTL

-----------------------------------------------------------------------------
(* Types. The rows of jobs, the workers and the completions under way.     *)

JobRow == [state : {"absent", "PENDING", "LEASED", "DONE", "DEAD"}, by : Worker \cup {None},
           lapsed : BOOLEAN, attempts : 0 .. MaxAttempts]
WorkRow == [step : {"idle", "next", "found", "success", "failure", "wait"},
            batch : SUBSET Job, job : Job \cup {None}]
Request == [job : Job, by : Worker, success : BOOLEAN, step : {"write", "project", "report"},
            attempts : 0 .. MaxAttempts, to : Worker \cup {None}]

AskTypes ==
    /\ ask \in [Ask -> {"READY", "DISPATCHED", "DEAD"}]
    /\ consumers \subseteq Ask /\ window.orders \in 0 .. MaxOrders

JobTypes ==
    /\ job \in [Job -> JobRow]
    /\ \A j \in Job : job[j].by # None <=> job[j].state = "LEASED"

WorkTypes ==
    /\ work \in [Worker -> WorkRow] /\ completions \subseteq Request
    /\ offered \subseteq Job /\ reported \subseteq Job /\ verified \subseteq Ask

\* A worker that has taken up a job has it from its batch.
Working == {"found", "success", "failure", "wait"}
TakenUp == \A w \in Worker : work[w].step \in Working => work[w].job \in work[w].batch

\* A request is about a job that exists, and a worker waits for one answer.
Requests ==
    /\ \A r \in completions : job[r.job].state # "absent"
    /\ \A r \in completions : r.to # None => work[r.to].step = "wait"
    /\ \A r, s \in completions : r.to # None /\ r.to = s.to => r = s

TypeInv ==
    /\ IInv /\ AskTypes /\ JobTypes /\ WorkTypes /\ TakenUp /\ Requests
    /\ mishaps \in 0 .. MaxMishaps

LEMMA TypeInvTypes == TypeInv => TypeOK
  BY DEF TypeInv, IInv, Shape, Windows, Runs, AskTypes, JobTypes, WorkTypes, JobRow, WorkRow,
         Request, TypeOK

LEMMA InitTypeInv == Init => TypeInv
<1> SUFFICES ASSUME Init PROVE TypeInv
  OBVIOUS
<1>1. IInv
  BY InitIInv
<1>2. MaxOrders \in Nat /\ MaxMishaps \in Nat /\ MaxAttempts \in Nat
  BY SearchAssumption
<1>3. AskTypes /\ mishaps \in 0 .. MaxMishaps
  BY <1>2 DEF Init, AskTypes
<1>4. JobTypes
  <2>1. NoJob \in JobRow /\ NoJob.by = None /\ NoJob.state = "absent"
    BY <1>2 DEF NoJob, JobRow
  <2> QED
    BY <2>1 DEF Init, JobTypes
<1>5. WorkTypes /\ TakenUp /\ Requests
  <2>1. IdleWork \in WorkRow /\ IdleWork.step = "idle"
    BY DEF IdleWork, WorkRow
  <2> QED
    BY <2>1 DEF Init, WorkTypes, TakenUp, Requests, Working
<1> QED
  BY <1>1, <1>3, <1>4, <1>5 DEF TypeInv

\* Dispatching marks asks, records consumers and counts orders, and that is all.
LEMMA AskStep ==
    ASSUME TypeInv,
           \/ \E d \in Dispatcher : SelectAsks(d) \/ DispatchStep(d) \/ KillDispatch(d)
           \/ RecordOrder
    PROVE  AskTypes' /\ UNCHANGED workVars
<1>0. AskTypes /\ window \in Windows /\ MaxOrders \in Nat
  BY SearchAssumption DEF TypeInv, IInv, Shape
<1>1. ASSUME NEW d \in Dispatcher,
             SelectAsks(d) \/ LookForJob(d) \/ ReadWindow(d) \/ InsertJob(d) \/ KillDispatch(d)
      PROVE  AskTypes' /\ UNCHANGED workVars
  BY <1>0, <1>1 DEF SelectAsks, LookForJob, ReadWindow, InsertJob, KillDispatch, AskTypes
<1>2. ASSUME NEW d \in Dispatcher, CountSearch(d) \/ OpenCircuit(d)
      PROVE  AskTypes' /\ UNCHANGED workVars
  <2>1. window'.orders = window.orders
    BY <1>0, <1>2 DEF CountSearch, OpenCircuit, Windows
  <2> QED
    BY <1>0, <1>2, <2>1 DEF CountSearch, OpenCircuit, AskTypes
<1>3. ASSUME NEW d \in Dispatcher, Record(d) \/ MarkRefresh(d) \/ FailAsk(d)
      PROVE  AskTypes' /\ UNCHANGED workVars
  <2>1. run[d].ask \in Ask
    BY <1>3 DEF Record, MarkRefresh, FailAsk, At, TypeInv, IInv, Shape
  <2> QED
    BY <1>0, <1>3, <2>1 DEF Record, MarkRefresh, FailAsk, AskTypes
<1>4. CASE RecordOrder
  <2>1. window'.orders = window.orders + 1 /\ window.orders < MaxOrders
    BY <1>0, <1>4 DEF RecordOrder, Windows
  <2> QED
    BY <1>0, <1>4, <2>1 DEF RecordOrder, AskTypes
<1> QED
  BY <1>1, <1>2, <1>3, <1>4 DEF DispatchStep

\* A job once made keeps its row.
Remains == \A j \in Job : (job[j].state # "absent" => job'[j].state # "absent")

LEMMA InsertTypes ==
    ASSUME TypeInv, NEW d \in Dispatcher, InsertJob(d)
    PROVE  JobTypes' /\ Remains
<1>1. run[d].ask \in Ask /\ JobOf[run[d].ask] \in Job
  BY SearchAssumption DEF InsertJob, At, TypeInv, IInv, Shape
<1> DEFINE new == [NoJob EXCEPT !.state = "PENDING"]
<1>2. new \in JobRow /\ new.by = None /\ new.state = "PENDING" /\ NoJob.state = "absent"
  <2>1. MaxAttempts \in Nat
    BY SearchAssumption
  <2>2. NoJob \in JobRow /\ NoJob.by = None /\ NoJob.state = "absent"
    BY <2>1 DEF NoJob, JobRow
  <2> QED
    BY <2>2 DEF JobRow
<1>3. job' = [job EXCEPT ![JobOf[run[d].ask]] = IF @ = NoJob THEN new ELSE @]
  BY DEF InsertJob
<1> HIDE DEF new
<1> QED
  BY <1>1, <1>2, <1>3 DEF TypeInv, JobTypes, Remains

LEMMA RowTypes ==
    ASSUME TypeInv, NEW f, job' = [j \in Job |-> f[j]],
           \A j \in Job : \/ f[j] = job[j]
                          \/ /\ f[j] \in JobRow /\ f[j].state # "absent"
                             /\ f[j].by # None <=> f[j].state = "LEASED"
    PROVE  JobTypes' /\ Remains
  BY DEF TypeInv, JobTypes, Remains

LEMMA ReclaimTypes ==
    ASSUME TypeInv, Reclaim PROVE JobTypes' /\ Remains
<1> DEFINE new(j) == [job[j] EXCEPT !.state = "PENDING", !.by = None, !.lapsed = FALSE]
           f == [j \in Job |-> IF j \in Lapsed THEN new(j) ELSE job[j]]
<1>1. ASSUME NEW j \in Job
      PROVE  new(j) \in JobRow /\ new(j).state = "PENDING" /\ new(j).by = None
  <2>1. job[j] \in JobRow
    BY DEF TypeInv, JobTypes
  <2> QED
    BY <2>1 DEF JobRow
<1>2. job' = f
  BY DEF Reclaim
<1> HIDE DEF new
<1>3. /\ \A j \in Job : \/ f[j] = job[j]
                        \/ f[j] \in JobRow /\ f[j].state = "PENDING" /\ f[j].by = None
      /\ job' = [j \in Job |-> f[j]]
  BY <1>1, <1>2
<1> HIDE DEF f
<1> QED
  BY <1>3, RowTypes

LEMMA ClaimTypes ==
    ASSUME TypeInv, NEW w \in Worker, Claim(w) PROVE JobTypes' /\ Remains
<1> DEFINE tries(j) == IF job[j].attempts < MaxAttempts THEN job[j].attempts + 1
                       ELSE job[j].attempts
           new(j) == [state |-> "LEASED", by |-> w, lapsed |-> FALSE, attempts |-> tries(j)]
<1>1. PICK S : job' = [j \in Job |-> IF j \in S THEN new(j) ELSE job[j]]
  BY DEF Claim
<1>2. ASSUME NEW j \in Job
      PROVE  new(j) \in JobRow /\ new(j).state = "LEASED" /\ new(j).by = w
  <2>1. job[j].attempts \in 0 .. MaxAttempts /\ MaxAttempts \in Nat
    BY SearchAssumption DEF TypeInv, JobTypes, JobRow
  <2>2. tries(j) \in 0 .. MaxAttempts
    BY <2>1
  <2> QED
    BY <2>2 DEF JobRow
<1>3. w # None
  BY SearchAssumption
<1> HIDE DEF new
<1> DEFINE f == [j \in Job |-> IF j \in S THEN new(j) ELSE job[j]]
<1>4. job' = [j \in Job |-> f[j]]
  BY <1>1
<1>5. \A j \in Job : \/ f[j] = job[j]
                     \/ f[j] \in JobRow /\ f[j].state = "LEASED" /\ f[j].by # None
  BY <1>2, <1>3
<1> HIDE DEF f
<1> QED
  BY <1>4, <1>5, RowTypes

LEMMA LapseTypes ==
    ASSUME TypeInv, NEW j \in Job, Lapse(j) PROVE JobTypes' /\ Remains
<1>0. job \in [Job -> JobRow] /\ job[j].state = "LEASED" /\ job[j].by # None
  BY DEF Lapse, TypeInv, JobTypes
<1> DEFINE new == [job[j] EXCEPT !.lapsed = TRUE]
<1>1. new \in JobRow /\ new.state = "LEASED" /\ new.by # None
  BY <1>0 DEF JobRow
<1>2. job' = [job EXCEPT ![j] = new]
  BY <1>0 DEF Lapse
<1> HIDE DEF new
<1> QED
  BY <1>0, <1>1, <1>2 DEF TypeInv, JobTypes, Remains

LEMMA SettleTypes ==
    ASSUME TypeInv, NEW r \in completions, NEW state \in {"PENDING", "DONE", "DEAD"},
           Settle(r, state)
    PROVE  JobTypes' /\ Remains
<1>0. job \in [Job -> JobRow] /\ r.job \in Job
  BY DEF TypeInv, JobTypes, WorkTypes, Request
<1> DEFINE new == [job[r.job] EXCEPT !.state = state, !.by = None, !.lapsed = FALSE]
<1>1. new \in JobRow /\ new.state = state /\ new.by = None
  BY <1>0 DEF JobRow
<1>2. job' = [job EXCEPT ![r.job] = new]
  BY <1>0 DEF Settle
<1> HIDE DEF new
<1> QED
  BY <1>0, <1>1, <1>2 DEF TypeInv, JobTypes, Remains

\* A worker's next row is well formed, and it has taken up nothing new.
LEMMA NextJobTypes ==
    ASSUME TypeInv, NEW w \in Worker, NextJob(w)
    PROVE  /\ work' \in [Worker -> WorkRow] /\ TakenUp'
           /\ \A v \in Worker : v # w => work'[v] = work[v]
           /\ work'[w].batch \subseteq work[w].batch
<1>0. work \in [Worker -> WorkRow]
  BY DEF TypeInv, WorkTypes
<1> DEFINE rest == work[w].batch \ {work[w].job}
           new == IF rest = {} THEN IdleWork ELSE [step |-> "next", batch |-> rest, job |-> None]
<1>1. new \in WorkRow /\ new.step \in {"idle", "next"} /\ new.batch \subseteq work[w].batch
  BY <1>0 DEF WorkRow, IdleWork
<1>2. work' = [work EXCEPT ![w] = new]
  BY DEF NextJob
<1> HIDE DEF new
<1> QED
  BY <1>0, <1>1, <1>2 DEF TypeInv, TakenUp, Working

LEMMA FailedTypes ==
    ASSUME TypeInv, NEW w \in Worker, NEW success, work[w].step \in Working, Failed(w, success)
    PROVE  /\ work' \in [Worker -> WorkRow] /\ TakenUp'
           /\ \A v \in Worker : v # w => work'[v] = work[v]
           /\ work'[w].batch \subseteq work[w].batch
<1>0. work \in [Worker -> WorkRow] /\ work[w].job \in work[w].batch
  BY DEF TypeInv, WorkTypes, TakenUp
<1> DEFINE new == IF success THEN [work[w] EXCEPT !.step = "failure"] ELSE IdleWork
<1>1. /\ new \in WorkRow /\ new.batch \subseteq work[w].batch
      /\ new.step \in Working => new.job \in new.batch
  <2>1. CASE success
    BY <1>0, <2>1 DEF WorkRow
  <2>2. CASE ~success
    BY <2>2 DEF WorkRow, IdleWork, Working
  <2> QED
    BY <2>1, <2>2
<1>2. work' = [work EXCEPT ![w] = new]
  BY <1>0 DEF Failed
<1> HIDE DEF new
<1> QED
  BY <1>0, <1>1, <1>2 DEF TypeInv, TakenUp

\* A step of one worker that answers no request and makes none.
LEMMA WorkerAlone ==
    ASSUME TypeInv, NEW w \in Worker, work[w].step # "wait",
           work' \in [Worker -> WorkRow], TakenUp',
           \A v \in Worker : v # w => work'[v] = work[v],
           Remains, completions' = completions,
           offered' \subseteq Job, reported' \subseteq Job, verified' \subseteq Ask
    PROVE  WorkTypes' /\ TakenUp' /\ Requests'
<1>1. completions \subseteq Request
  BY DEF TypeInv, WorkTypes
<1>2. Requests'
  BY <1>1 DEF TypeInv, Requests, Remains, Request
<1> QED
  BY <1>1, <1>2 DEF WorkTypes

\* A request that is answered, and the worker that waited for it goes on.
LEMMA Answers ==
    ASSUME TypeInv, NEW r \in completions, completions' = completions \ {r},
           \/ r.to # None /\ (NextJob(r.to) \/ Failed(r.to, r.success))
           \/ r.to = None /\ work' = work,
           Remains, offered' \subseteq Job, reported' \subseteq Job, verified' \subseteq Ask
    PROVE  WorkTypes' /\ TakenUp' /\ Requests'
<1>1. completions \subseteq Request /\ Requests /\ r \in Request
  BY DEF TypeInv, WorkTypes
<1>2. CASE r.to # None
  <2>1. r.to \in Worker /\ work[r.to].step \in Working
    BY <1>1, <1>2 DEF Request, Requests, Working
  <2>2. work' \in [Worker -> WorkRow] /\ TakenUp'
        /\ \A v \in Worker : v # r.to => work'[v] = work[v]
    BY <1>2, <2>1, NextJobTypes, FailedTypes
  <2>3. \A s \in completions' : s.to # r.to
    BY <1>1, <1>2 DEF Requests
  <2>4. Requests'
    BY <1>1, <2>2, <2>3 DEF Requests, Remains, Request
  <2> QED
    BY <1>1, <2>2, <2>4 DEF WorkTypes
<1>3. CASE r.to = None
  BY <1>1, <1>3 DEF TypeInv, WorkTypes, TakenUp, Requests, Remains, Request
<1> QED
  BY <1>2, <1>3

\* A request moves on to its next statement, or loses its caller.
LEMMA MovesOn ==
    ASSUME TypeInv, NEW r \in completions, NEW s \in Request,
           s.job = r.job, s.to \in {r.to, None},
           completions' = (completions \ {r}) \cup {s},
           \/ s.to = r.to /\ work' = work
           \/ r.to # None /\ s.to = None /\ Failed(r.to, r.success),
           Remains, UNCHANGED results
    PROVE  WorkTypes' /\ TakenUp' /\ Requests'
<1>1. completions \subseteq Request /\ Requests /\ r \in Request
  BY DEF TypeInv, WorkTypes
<1>2. completions' \subseteq Request /\ \A q \in completions' : job'[q.job].state # "absent"
  BY <1>1 DEF Requests, Remains, Request
<1>3. \A p, q \in completions' : p.to # None /\ p.to = q.to => p = q
  BY <1>1 DEF Requests
<1>4. CASE s.to = r.to /\ work' = work
  <2>1. \A q \in completions' : q.to # None => work'[q.to].step = "wait"
    BY <1>1, <1>4 DEF Requests
  <2> QED
    BY <1>2, <1>3, <1>4, <2>1 DEF TypeInv, WorkTypes, TakenUp, Requests, results
<1>5. CASE r.to # None /\ s.to = None /\ Failed(r.to, r.success)
  <2>1. r.to \in Worker /\ work[r.to].step \in Working
    BY <1>1, <1>5 DEF Request, Requests, Working
  <2>2. work' \in [Worker -> WorkRow] /\ TakenUp'
        /\ \A v \in Worker : v # r.to => work'[v] = work[v]
    BY <1>5, <2>1, FailedTypes
  <2>3. \A q \in completions' : q.to # None => q \in completions /\ q.to # r.to
    BY <1>1, <1>5 DEF Requests
  <2>4. \A q \in completions' : q.to # None => work'[q.to].step = "wait"
    BY <1>1, <2>2, <2>3 DEF Requests, Request
  <2> QED
    BY <1>2, <1>3, <2>2, <2>4 DEF TypeInv, WorkTypes, Requests, results
<1> QED
  BY <1>4, <1>5

LEMMA ClaimWork ==
    ASSUME TypeInv, NEW w \in Worker, Claim(w)
    PROVE  WorkTypes' /\ TakenUp' /\ Requests'
<1>0. work \in [Worker -> WorkRow] /\ work[w].step = "idle" /\ UNCHANGED <<completions, results>>
  BY DEF TypeInv, WorkTypes, Claim
<1>1. PICK S \in Limited({j \in Job : job[j].state = "PENDING"}, LeaseLimit) :
          \/ work' = [work EXCEPT ![w] = [step |-> "next", batch |-> S, job |-> None]]
          \/ work' = work
  BY DEF Claim
<1>2. S \subseteq Job
  BY DEF Limited
<1>3. work' \in [Worker -> WorkRow] /\ TakenUp' /\ \A v \in Worker : v # w => work'[v] = work[v]
  <2> DEFINE new == [step |-> "next", batch |-> S, job |-> None]
  <2>1. new \in WorkRow /\ new.step = "next"
    BY <1>2 DEF WorkRow
  <2>2. work' = [work EXCEPT ![w] = new] \/ work' = work
    BY <1>1
  <2> HIDE DEF new
  <2> QED
    BY <1>0, <2>1, <2>2 DEF TypeInv, TakenUp, Working
<1>4. Remains
  BY ClaimTypes
<1> QED
  BY <1>0, <1>3, <1>4, WorkerAlone DEF TypeInv, WorkTypes, results

LEMMA SearchWork ==
    ASSUME TypeInv, NEW w \in Worker, Search(w) \/ IngestOffers(w)
    PROVE  WorkTypes' /\ TakenUp' /\ Requests'
<1>0. /\ work \in [Worker -> WorkRow] /\ work[w].step # "wait"
      /\ UNCHANGED <<job, completions, verified, reported>>
  BY DEF TypeInv, WorkTypes, Search, IngestOffers, results
<1>1. Remains
  BY <1>0 DEF Remains
<1>2. PICK new : /\ new \in WorkRow /\ work' = [work EXCEPT ![w] = new]
                 /\ new.step \in Working => new.job \in new.batch
  <2>1. CASE Search(w)
    <3>1. PICK j \in work[w].batch, outcome \in {"found", "success", "failure"} :
              work' = [work EXCEPT ![w].job = j, ![w].step = outcome]
      BY <2>1 DEF Search
    <3> DEFINE new == [work[w] EXCEPT !.job = j, !.step = outcome]
    <3>2. /\ new \in WorkRow /\ new.job \in new.batch
          /\ work' = [work EXCEPT ![w] = new]
      BY <1>0, <3>1 DEF WorkRow
    <3> QED
      BY <3>2
  <2>2. CASE IngestOffers(w)
    <3>1. PICK s \in {"success", "failure"} : work' = [work EXCEPT ![w].step = s]
      BY <2>2 DEF IngestOffers
    <3>2. work[w].job \in work[w].batch
      BY <2>2 DEF IngestOffers, TypeInv, TakenUp, Working
    <3> DEFINE new == [work[w] EXCEPT !.step = s]
    <3>3. /\ new \in WorkRow /\ new.job \in new.batch
          /\ work' = [work EXCEPT ![w] = new]
      BY <1>0, <3>1, <3>2 DEF WorkRow
    <3> QED
      BY <3>3
  <2> QED
    BY <2>1, <2>2
<1>3. work' \in [Worker -> WorkRow] /\ TakenUp' /\ \A v \in Worker : v # w => work'[v] = work[v]
  BY <1>0, <1>2 DEF TypeInv, TakenUp
<1>4. offered' \subseteq Job /\ reported' \subseteq Job /\ verified' \subseteq Ask
  <2>1. CASE Search(w)
    BY <2>1 DEF Search, results, TypeInv, WorkTypes
  <2>2. CASE IngestOffers(w)
    <3>1. work[w].job \in Job
      BY <1>0, <2>2 DEF IngestOffers, TypeInv, TakenUp, Working, WorkRow
    <3> QED
      BY <1>0, <2>2, <3>1 DEF IngestOffers, TypeInv, WorkTypes
  <2> QED
    BY <2>1, <2>2
<1> QED
  BY <1>0, <1>1, <1>3, <1>4, WorkerAlone

\* The four answers to a completion.
LEMMA CompleteCases ==
    ASSUME NEW w \in Worker, Complete(w)
    PROVE  LET success == work[w].step = "success"
               j == work[w].job
           IN  \/ /\ HoldsLease(w, j)
                  /\ completions' = completions \cup {Completion(w, success, "write")}
                  /\ work' = [work EXCEPT ![w].step = "wait"]
               \/ /\ job[j].state = "DONE"
                  /\ completions' = completions \cup {Completion(w, success, "project")}
                  /\ work' = [work EXCEPT ![w].step = "wait"]
               \/ completions' = completions /\ NextJob(w)
               \/ completions' = completions /\ Failed(w, success)
  BY DEF Complete, MayComplete

LEMMA CompleteWork ==
    ASSUME TypeInv, NEW w \in Worker, Complete(w)
    PROVE  WorkTypes' /\ TakenUp' /\ Requests'
<1>0. /\ work \in [Worker -> WorkRow] /\ work[w].step \in {"success", "failure"}
      /\ job \in [Job -> JobRow] /\ UNCHANGED <<job, offered, verified, reported>>
  BY DEF TypeInv, WorkTypes, JobTypes, Complete, results
<1>1. work[w].job \in work[w].batch /\ work[w].job \in Job
  BY <1>0 DEF TypeInv, TakenUp, Working, WorkRow
<1>2. Remains /\ completions \subseteq Request /\ offered' \subseteq Job /\ reported' \subseteq Job
      /\ verified' \subseteq Ask
  BY <1>0 DEF Remains, TypeInv, WorkTypes
<1>3. CASE completions' = completions /\ (NextJob(w) \/ Failed(w, work[w].step = "success"))
  <2>1. work' \in [Worker -> WorkRow] /\ TakenUp' /\ \A v \in Worker : v # w => work'[v] = work[v]
    BY <1>0, <1>3, NextJobTypes, FailedTypes DEF Working
  <2> QED
    BY <1>0, <1>2, <1>3, <2>1, WorkerAlone
<1>4. ASSUME NEW step \in {"write", "project"}, job[work[w].job].state # "absent",
             completions' = completions \cup {Completion(w, work[w].step = "success", step)},
             work' = [work EXCEPT ![w].step = "wait"]
      PROVE  WorkTypes' /\ TakenUp' /\ Requests'
  <2> DEFINE new == Completion(w, work[w].step = "success", step)
  <2>1. new \in Request /\ new.to = w /\ new.job = work[w].job
    BY <1>0, <1>1 DEF Completion, Request, JobRow
  <2>2. completions' = completions \cup {new}
    BY <1>4
  <2> HIDE DEF new
  <2>3. /\ work' \in [Worker -> WorkRow] /\ work'[w].step = "wait" /\ TakenUp'
        /\ \A v \in Worker : v # w => work'[v] = work[v]
    BY <1>0, <1>1, <1>4 DEF WorkRow, TypeInv, TakenUp
  <2>4. \A r \in completions : r.to # w
    BY <1>0, SearchAssumption DEF TypeInv, Requests
  <2>5. Requests'
    <3>1. \A r \in completions' : job'[r.job].state # "absent"
      BY <1>0, <1>4, <2>1, <2>2 DEF TypeInv, Requests
    <3>2. \A r \in completions' : r.to # None => work'[r.to].step = "wait"
      BY <1>2, <2>1, <2>2, <2>3 DEF TypeInv, Requests, Request
    <3>3. \A r, s \in completions' : r.to # None /\ r.to = s.to => r = s
      BY <2>1, <2>2, <2>4 DEF TypeInv, Requests
    <3> QED
      BY <3>1, <3>2, <3>3 DEF Requests
  <2> QED
    BY <1>2, <2>1, <2>2, <2>3, <2>5 DEF WorkTypes
<1>5. job[work[w].job].state = "LEASED" => job[work[w].job].state # "absent"
  OBVIOUS
<1> QED
  BY <1>3, <1>4, <1>5, CompleteCases DEF HoldsLease

\* After a crash nobody waits for the requests of that worker.
LEMMA CrashWork ==
    ASSUME TypeInv, NEW w \in Worker, CrashWorker(w)
    PROVE  WorkTypes' /\ TakenUp' /\ Requests'
<1>0. /\ work \in [Worker -> WorkRow] /\ completions \subseteq Request
      /\ work' = [work EXCEPT ![w] = IdleWork]
      /\ UNCHANGED <<job, offered, verified, reported>>
  BY DEF TypeInv, WorkTypes, CrashWorker, results
<1> DEFINE left(r) == IF r.to = w THEN [r EXCEPT !.to = None] ELSE r
<1>1. completions' = {left(r) : r \in completions}
  BY DEF CrashWorker
<1>2. \A r \in completions : /\ left(r) \in Request /\ left(r).job = r.job
                             /\ left(r).to = IF r.to = w THEN None ELSE r.to
                             /\ r.to # w => left(r) = r
  BY <1>0 DEF Request
<1> HIDE DEF left
<1>3. IdleWork \in WorkRow /\ IdleWork.step = "idle"
  BY DEF IdleWork, WorkRow
<1>4. work' \in [Worker -> WorkRow] /\ TakenUp' /\ \A v \in Worker : v # w => work'[v] = work[v]
  BY <1>0, <1>3 DEF TypeInv, TakenUp, Working
<1>5. Requests'
  <2>1. \A q \in completions' : \E r \in completions : q = left(r)
    BY <1>1
  <2>2. \A q \in completions' : job'[q.job].state # "absent"
    BY <1>0, <1>2, <2>1 DEF TypeInv, Requests
  <2>3. \A q \in completions' : q.to # None => q \in completions /\ q.to # w
    BY <1>2, <2>1
  <2>4. \A q \in completions' : q.to # None => work'[q.to].step = "wait"
    BY <1>0, <1>4, <2>3 DEF TypeInv, Requests, Request
  <2>5. \A p, q \in completions' : p.to # None /\ p.to = q.to => p = q
    BY <2>3 DEF TypeInv, Requests
  <2> QED
    BY <2>2, <2>4, <2>5 DEF Requests
<1>6. completions' \subseteq Request
  BY <1>1, <1>2
<1> QED
  BY <1>0, <1>4, <1>5, <1>6 DEF TypeInv, WorkTypes

LEMMA WriteWork ==
    ASSUME TypeInv, NEW r \in completions, WriteOutcome(r)
    PROVE  JobTypes' /\ WorkTypes' /\ TakenUp' /\ Requests'
<1>0. UNCHANGED results /\ r \in Request
      /\ offered' \subseteq Job /\ reported' \subseteq Job /\ verified' \subseteq Ask
  BY DEF WriteOutcome, results, TypeInv, WorkTypes
<1>1. JobTypes' /\ Remains
  <2>1. Settle(r, "DONE") \/ Settle(r, "PENDING") \/ Settle(r, "DEAD")
    BY DEF WriteOutcome
  <2> QED
    BY <2>1, SettleTypes
<1>2. CASE Finished(r)
  BY <1>0, <1>1, <1>2, Answers DEF Finished
<1>3. ASSUME NEW step \in {"project", "report"}, work' = work,
             completions' = (completions \ {r}) \cup {[r EXCEPT !.step = step]}
      PROVE  WorkTypes' /\ TakenUp' /\ Requests'
  <2> DEFINE s == [r EXCEPT !.step = step]
  <2>1. s \in Request /\ s.job = r.job /\ s.to = r.to
    BY <1>0 DEF Request
  <2>2. completions' = (completions \ {r}) \cup {s}
    BY <1>3
  <2> HIDE DEF s
  <2> QED
    BY <1>0, <1>1, <1>3, <2>1, <2>2, MovesOn
<1> QED
  BY <1>1, <1>2, <1>3 DEF WriteOutcome

LEMMA AnswerWork ==
    ASSUME TypeInv, NEW r \in completions, ProjectResults(r) \/ ReportDeath(r)
    PROVE  WorkTypes' /\ TakenUp' /\ Requests'
<1>1. Finished(r) /\ job' = job /\ r \in Request
  BY DEF ProjectResults, ReportDeath, TypeInv, WorkTypes
<1>2. offered' \subseteq Job /\ reported' \subseteq Job /\ verified' \subseteq Ask
  BY <1>1 DEF ProjectResults, ReportDeath, TypeInv, WorkTypes, AskTypes, Request
<1> QED
  BY <1>1, <1>2, Answers DEF Finished, Remains

LEMMA BreakWork ==
    ASSUME TypeInv, NEW r \in completions, BreakCompletion(r)
    PROVE  WorkTypes' /\ TakenUp' /\ Requests'
<1>1. r \in Request /\ job' = job /\ UNCHANGED results
      /\ (r.to # None => Failed(r.to, r.success)) /\ (r.to = None => work' = work)
  BY DEF BreakCompletion, TypeInv, WorkTypes
<1>2. Remains
  BY <1>1 DEF Remains
<1>3. CASE completions' = completions \ {r}
  BY <1>1, <1>2, <1>3, Answers DEF TypeInv, WorkTypes, results
<1>4. CASE r.to # None /\ completions' = (completions \ {r}) \cup {[r EXCEPT !.to = None]}
  <2> DEFINE s == [r EXCEPT !.to = None]
  <2>1. s \in Request /\ s.job = r.job /\ s.to = None
    BY <1>1 DEF Request
  <2>2. completions' = (completions \ {r}) \cup {s}
    BY <1>4
  <2> HIDE DEF s
  <2> QED
    BY <1>1, <1>2, <1>4, <2>1, <2>2, MovesOn
<1> QED
  BY <1>3, <1>4 DEF BreakCompletion

LEMMA MishapsBounded ==
    ASSUME TypeInv, [Next]_vars PROVE mishaps' \in 0 .. MaxMishaps
<1>0. mishaps \in 0 .. MaxMishaps /\ MaxMishaps \in Nat
  BY SearchAssumption DEF TypeInv
<1>1. mishaps' = mishaps \/ (mishaps < MaxMishaps /\ mishaps' = mishaps + 1)
  BY DEF Next, vars, SelectAsks, DispatchStep, LookForJob, ReadWindow, CountSearch, OpenCircuit,
         InsertJob, Record, MarkRefresh, FailAsk, KillDispatch, RecordOrder, Reclaim, Claim,
         WorkStep, Search, IngestOffers, Complete, CrashWorker, Lapse, CompletionStep,
         WriteOutcome, ProjectResults, ReportDeath, BreakCompletion, May, Happens, Smooth
<1> QED
  BY <1>0, <1>1

LEMMA TypeInvStep == TypeInv /\ [Next]_vars => TypeInv'
<1> SUFFICES ASSUME TypeInv, [Next]_vars PROVE TypeInv'
  OBVIOUS
<1> DEFINE Works == WorkTypes /\ TakenUp /\ Requests
<1>0. IInv' /\ mishaps' \in 0 .. MaxMishaps
  BY IInvStep, MishapsBounded DEF TypeInv
<1>1. UNCHANGED askVars => AskTypes'
  BY DEF askVars, TypeInv, AskTypes
<1>2. UNCHANGED job => JobTypes' /\ Remains
  BY DEF TypeInv, JobTypes, Remains
<1>3. UNCHANGED workVars /\ Remains => Works'
  BY DEF workVars, results, TypeInv, WorkTypes, TakenUp, Requests, Remains, Request
<1> SUFFICES AskTypes' /\ JobTypes' /\ Works'
  BY <1>0 DEF TypeInv
<1> HIDE DEF Works
<1>4. ASSUME NEW d \in Dispatcher, SelectAsks(d) \/ DispatchStep(d) \/ KillDispatch(d)
      PROVE  AskTypes' /\ JobTypes' /\ Works'
  <2>1. AskTypes' /\ UNCHANGED workVars
    BY <1>4, AskStep
  <2>2. InsertJob(d) \/ UNCHANGED job
    BY <1>4 DEF SelectAsks, DispatchStep, LookForJob, ReadWindow, CountSearch, OpenCircuit,
                Record, MarkRefresh, FailAsk, KillDispatch
  <2>3. JobTypes' /\ Remains
    BY <1>2, <2>2, InsertTypes
  <2> QED
    BY <1>3, <2>1, <2>3
<1>5. CASE RecordOrder
  BY <1>2, <1>3, <1>5, AskStep DEF RecordOrder
<1>6. CASE Reclaim
  BY <1>1, <1>3, <1>6, ReclaimTypes DEF Reclaim
<1>7. ASSUME NEW w \in Worker, Claim(w)
      PROVE  AskTypes' /\ JobTypes' /\ Works'
  BY <1>1, <1>7, ClaimTypes, ClaimWork DEF Claim, Works
<1>8. ASSUME NEW w \in Worker, WorkStep(w) \/ CrashWorker(w)
      PROVE  AskTypes' /\ JobTypes' /\ Works'
  <2>1. UNCHANGED <<askVars, job>>
    BY <1>8 DEF WorkStep, Search, IngestOffers, Complete, CrashWorker
  <2> QED
    BY <1>1, <1>2, <1>8, <2>1, SearchWork, CompleteWork, CrashWork DEF WorkStep, Works
<1>9. ASSUME NEW j \in Job, Lapse(j)
      PROVE  AskTypes' /\ JobTypes' /\ Works'
  BY <1>1, <1>3, <1>9, LapseTypes DEF Lapse
<1>10. ASSUME NEW r \in completions, CompletionStep(r) \/ BreakCompletion(r)
       PROVE  AskTypes' /\ JobTypes' /\ Works'
  <2>1. UNCHANGED askVars
    BY <1>10 DEF CompletionStep, WriteOutcome, ProjectResults, ReportDeath, BreakCompletion
  <2>2. CASE WriteOutcome(r)
    BY <1>1, <2>1, <2>2, WriteWork DEF Works
  <2>3. CASE ProjectResults(r) \/ ReportDeath(r) \/ BreakCompletion(r)
    <3>1. UNCHANGED job
      BY <2>3 DEF ProjectResults, ReportDeath, BreakCompletion
    <3> QED
      BY <1>1, <1>2, <2>1, <2>3, <3>1, AnswerWork, BreakWork DEF Works
  <2> QED
    BY <1>10, <2>2, <2>3 DEF CompletionStep
<1>11. CASE UNCHANGED vars
  BY <1>1, <1>2, <1>3, <1>11 DEF vars, askVars, workVars, results
<1> QED
  BY <1>4, <1>5, <1>6, <1>7, <1>8, <1>9, <1>10, <1>11 DEF Next

LEMMA AlwaysTyped == Spec => []TypeInv
  BY InitTypeInv, TypeInvStep, PTL DEF Spec

\* Asks, jobs, workers and requests keep their types: a job is claimed by a
\* worker exactly while it is leased, over any mishaps.
THEOREM TypeCorrect == Spec => []TypeOK
<1> QED
  BY TypeInvTypes, AlwaysTyped, PTL
-----------------------------------------------------------------------------
(* What is reserved.                                                       *)

Existing == {j \in Job : job[j] # NoJob}
Inserting == {d \in Dispatcher : run[d].step = "insert"}

\* A dispatch that has counted its search and not made the job yet has paid for
\* it as well.
Paid ==
    /\ IsFiniteSet(Existing) /\ IsFiniteSet(Inserting)
    /\ Cardinality(Existing) + Cardinality(Inserting) <= window.count

LEMMA PaidSuffices == Shape /\ Paid => JobsArePaidFor
<1> SUFFICES ASSUME Shape, Paid PROVE Cardinality(Existing) <= window.count
  BY DEF JobsArePaidFor, Existing
<1>1. Cardinality(Existing) \in Nat /\ Cardinality(Inserting) \in Nat /\ window.count \in Nat
  BY FS_CardinalityType DEF Paid, Shape, Windows
<1> QED
  BY <1>1 DEF Paid

LEMMA InitPaid == Init => Paid
<1> SUFFICES ASSUME Init PROVE Paid
  OBVIOUS
<1>1. Existing = {} /\ Inserting = {} /\ window.count = 0
  BY DEF Init, Existing, Inserting, IdleRun
<1> QED
  BY <1>1, FS_EmptySet DEF Paid

\* A step that makes no job and gets no dispatch to its INSERT.
LEMMA NothingBought ==
    ASSUME Shape, Paid, Existing' = Existing, Inserting' \subseteq Inserting,
           window'.count = window.count
    PROVE  Paid'
<1>1. IsFiniteSet(Inserting') /\ Cardinality(Inserting') <= Cardinality(Inserting)
  BY FS_Subset DEF Paid
<1>2. /\ Cardinality(Existing) \in Nat /\ Cardinality(Inserting) \in Nat
      /\ Cardinality(Inserting') \in Nat /\ window.count \in Nat
  BY <1>1, FS_CardinalityType DEF Paid, Shape, Windows
<1>3. Cardinality(Existing') = Cardinality(Existing)
  OBVIOUS
<1> QED
  BY <1>1, <1>2, <1>3 DEF Paid

LEMMA CountPays ==
    ASSUME TypeInv, Paid, NEW d \in Dispatcher, CountSearch(d)
    PROVE  Paid'
<1>0. IInv /\ window \in Windows /\ Shape /\ Existing' = Existing
  BY DEF TypeInv, IInv, Shape, CountSearch, Existing
<1>1. At(d, "count")
  BY DEF CountSearch
<1>2. CASE window' = [window EXCEPT !.count = @ + 1] /\ Go(d, "insert")
  <2>1. run'[d].step = "insert" /\ \A e \in Dispatcher : e # d => run'[e] = run[e]
    BY <1>0, <1>1, <1>2, Moves DEF At
  <2>2. Inserting' = Inserting \cup {d} /\ d \notin Inserting
    BY <1>1, <2>1 DEF Inserting, At
  <2>3. IsFiniteSet(Inserting') /\ Cardinality(Inserting') = Cardinality(Inserting) + 1
    BY <2>2, FS_AddElement DEF Paid
  <2>4. Cardinality(Existing) \in Nat /\ Cardinality(Inserting) \in Nat
    BY FS_CardinalityType DEF Paid
  <2>5. window'.count = window.count + 1 /\ window.count \in Nat
    BY <1>0, <1>2 DEF Windows
  <2>6. Cardinality(Existing') = Cardinality(Existing) /\ IsFiniteSet(Existing')
    BY <1>0 DEF Paid
  <2> QED
    BY <2>3, <2>4, <2>5, <2>6 DEF Paid
<1>3. CASE window' = window /\ Go(d, "open")
  <2>1. run'[d].step = "open" /\ \A e \in Dispatcher : e # d => run'[e] = run[e]
    BY <1>0, <1>1, <1>3, Moves DEF At
  <2>2. Inserting' \subseteq Inserting
    BY <2>1 DEF Inserting
  <2> QED
    BY <1>0, <1>3, <2>2, NothingBought
<1> QED
  BY <1>2, <1>3 DEF CountSearch

\* The INSERT trades a dispatch for at most one job.
LEMMA InsertPays ==
    ASSUME TypeInv, Paid, NEW d \in Dispatcher, InsertJob(d)
    PROVE  Paid'
<1>0. IInv /\ Shape /\ window' = window /\ job \in [Job -> Rows] /\ At(d, "insert")
  BY DEF TypeInv, IInv, Shape, InsertJob
<1> DEFINE j == JobOf[run[d].ask]
<1>1. run'[d].step = "record" /\ \A e \in Dispatcher : e # d => run'[e] = run[e]
  BY <1>0, Moves DEF InsertJob, At
<1>2. Inserting' = Inserting \ {d} /\ d \in Inserting
  BY <1>0, <1>1 DEF Inserting, At
<1>3. Existing' = Existing \cup {j}
  <2>1. j \in Job
    BY <1>0, SearchAssumption DEF At, Shape
  <2> DEFINE new == [NoJob EXCEPT !.state = "PENDING"]
  <2>2. new # NoJob
    <3>1. new.state = "PENDING" /\ NoJob.state = "absent"
      BY DEF NoJob
    <3> HIDE DEF new
    <3> QED
      BY <3>1
  <2>3. job' = [job EXCEPT ![j] = IF @ = NoJob THEN new ELSE @]
    BY DEF InsertJob
  <2> HIDE DEF new, j
  <2> QED
    BY <1>0, <2>1, <2>2, <2>3 DEF Existing
<1>4. IsFiniteSet(Inserting') /\ Cardinality(Inserting') = Cardinality(Inserting) - 1
  BY <1>2, FS_RemoveElement DEF Paid
<1>5. /\ IsFiniteSet(Existing')
      /\ Cardinality(Existing') = Cardinality(Existing)
            \/ Cardinality(Existing') = Cardinality(Existing) + 1
  BY <1>3, FS_AddElement DEF Paid
<1>6. Cardinality(Existing) \in Nat /\ Cardinality(Inserting) \in Nat /\ window.count \in Nat
  BY <1>0, FS_CardinalityType DEF Paid, Shape, Windows
<1> QED
  BY <1>0, <1>4, <1>5, <1>6 DEF Paid

\* No other step of a dispatch buys anything.
LEMMA DispatchPays ==
    ASSUME TypeInv, Paid, NEW d \in Dispatcher,
           \/ SelectAsks(d) \/ LookForJob(d) \/ ReadWindow(d) \/ OpenCircuit(d)
           \/ Record(d) \/ MarkRefresh(d) \/ FailAsk(d) \/ KillDispatch(d)
    PROVE  Paid'
<1>0. IInv /\ Shape /\ run \in [Dispatcher -> Runs] /\ window \in Windows
  BY DEF TypeInv, IInv, Shape
<1>1. Existing' = Existing
  BY DEF SelectAsks, LookForJob, ReadWindow, OpenCircuit, Record, MarkRefresh, FailAsk,
         KillDispatch, Existing
<1>2. window'.count = window.count
  BY <1>0 DEF SelectAsks, LookForJob, ReadWindow, OpenCircuit, Record, MarkRefresh, FailAsk,
              KillDispatch, Windows
<1>3. Inserting' \subseteq Inserting
  <2> SUFFICES /\ \A e \in Dispatcher : e # d => run'[e] = run[e]
               /\ run'[d].step # "insert"
    BY DEF Inserting
  <2>1. CASE SelectAsks(d)
    BY <1>0, <2>1 DEF SelectAsks, Runs
  <2>2. CASE LookForJob(d)
    BY <1>0, <2>2, NextRowIsFresh DEF LookForJob, Runs
  <2>3. CASE ReadWindow(d)
    <3>1. CASE Go(d, "open")
      BY <1>0, <2>3, <3>1, Moves DEF ReadWindow, At
    <3>2. CASE run' = [run EXCEPT ![d].step = "count", ![d].limit = Limit(window.orders)]
      BY <1>0, <3>2 DEF Runs
    <3> QED
      BY <2>3, <3>1, <3>2 DEF ReadWindow
  <2>4. CASE OpenCircuit(d)
    BY <1>0, <2>4, Moves DEF OpenCircuit, At
  <2>5. CASE Record(d)
    BY <1>0, <2>5, Moves, NextRowIsFresh DEF Record, At
  <2>6. CASE MarkRefresh(d) \/ FailAsk(d)
    BY <1>0, <2>6, NextRowIsFresh DEF MarkRefresh, FailAsk
  <2>7. CASE KillDispatch(d)
    BY <1>0, <2>7 DEF KillDispatch, IdleRun
  <2> QED
    BY <2>1, <2>2, <2>3, <2>4, <2>5, <2>6, <2>7
<1> QED
  BY <1>0, <1>1, <1>2, <1>3, NothingBought

\* What happens to the rows of jobs makes none, and takes none away.
LEMMA WorkPays ==
    ASSUME TypeInv, Paid, UNCHANGED askVars,
           \/ UNCHANGED job
           \/ Reclaim
           \/ \E w \in Worker : Claim(w)
           \/ \E j \in Job : Lapse(j)
           \/ \E r \in completions : WriteOutcome(r)
    PROVE  Paid'
<1>0. Shape /\ NoJob.state = "absent" /\ job \in [Job -> JobRow] /\ UNCHANGED <<window, run>>
  BY DEF TypeInv, IInv, Shape, NoJob, JobTypes, askVars
<1>1. Inserting' \subseteq Inserting
  BY <1>0 DEF Inserting
<1>2. JobTypes' /\ Remains
  <2>1. CASE UNCHANGED job
    BY <2>1 DEF TypeInv, JobTypes, Remains
  <2>2. ASSUME NEW r \in completions, WriteOutcome(r) PROVE JobTypes' /\ Remains
    <3>1. Settle(r, "DONE") \/ Settle(r, "PENDING") \/ Settle(r, "DEAD")
      BY <2>2 DEF WriteOutcome
    <3> QED
      BY <3>1, SettleTypes
  <2> QED
    BY <2>1, <2>2, ReclaimTypes, ClaimTypes, LapseTypes
<1>3. \A j \in Job : job[j] = NoJob => job'[j] = NoJob
  <2>1. CASE UNCHANGED job
    BY <2>1
  <2>2. CASE Reclaim
    BY <1>0, <2>2 DEF Reclaim, Lapsed
  <2>3. ASSUME NEW w \in Worker, Claim(w)
        PROVE  \A j \in Job : job[j] = NoJob => job'[j] = NoJob
    <3>1. PICK S \in Limited({j \in Job : job[j].state = "PENDING"}, LeaseLimit) :
              \A j \in Job : j \notin S => job'[j] = job[j]
      BY <2>3 DEF Claim
    <3>2. \A j \in S : job[j].state = "PENDING"
      BY DEF Limited
    <3> QED
      BY <1>0, <3>1, <3>2
  <2>4. ASSUME NEW j \in Job, Lapse(j)
        PROVE  \A k \in Job : job[k] = NoJob => job'[k] = NoJob
    BY <1>0, <2>4 DEF Lapse
  <2>5. ASSUME NEW r \in completions, WriteOutcome(r)
        PROVE  \A j \in Job : job[j] = NoJob => job'[j] = NoJob
    <3>1. job[r.job] # NoJob
      BY <1>0 DEF TypeInv, Requests
    <3>2. \A j \in Job : j # r.job => job'[j] = job[j]
      BY <1>0, <2>5 DEF WriteOutcome, Settle
    <3> QED
      BY <3>1, <3>2
  <2> QED
    BY <2>1, <2>2, <2>3, <2>4, <2>5
<1>4. \A j \in Job : job[j] # NoJob => job'[j] # NoJob
  <2>1. IInv /\ UNCHANGED askVars
    BY DEF TypeInv
  <2> QED
    BY <2>1, RowsStay
<1>5. Existing' = Existing
  BY <1>3, <1>4 DEF Existing
<1> QED
  BY <1>0, <1>1, <1>5, NothingBought

LEMMA PaidStep == TypeInv /\ Paid /\ [Next]_vars => Paid'
<1> SUFFICES ASSUME TypeInv, Paid, [Next]_vars PROVE Paid'
  OBVIOUS
<1>1. ASSUME NEW d \in Dispatcher, SelectAsks(d) \/ DispatchStep(d) \/ KillDispatch(d)
      PROVE  Paid'
  BY <1>1, CountPays, InsertPays, DispatchPays DEF DispatchStep
<1>2. CASE RecordOrder
  <2>1. Shape /\ window \in Windows /\ Existing' = Existing /\ Inserting' = Inserting
    BY <1>2 DEF TypeInv, IInv, Shape, RecordOrder, Existing, Inserting
  <2>2. window'.count = window.count
    BY <1>2, <2>1 DEF RecordOrder, Windows
  <2> QED
    BY <2>1, <2>2, NothingBought
<1>3. CASE Reclaim
  BY <1>3, WorkPays DEF Reclaim
<1>4. ASSUME NEW w \in Worker, Claim(w) PROVE Paid'
  BY <1>4, WorkPays DEF Claim
<1>5. ASSUME NEW w \in Worker, WorkStep(w) \/ CrashWorker(w) PROVE Paid'
  BY <1>5, WorkPays DEF WorkStep, Search, IngestOffers, Complete, CrashWorker
<1>6. ASSUME NEW j \in Job, Lapse(j) PROVE Paid'
  BY <1>6, WorkPays DEF Lapse
<1>7. ASSUME NEW r \in completions, CompletionStep(r) \/ BreakCompletion(r) PROVE Paid'
  BY <1>7, WorkPays DEF CompletionStep, WriteOutcome, ProjectResults, ReportDeath, BreakCompletion
<1>8. CASE UNCHANGED vars
  BY <1>8, WorkPays DEF vars, askVars
<1> QED
  BY <1>1, <1>2, <1>3, <1>4, <1>5, <1>6, <1>7, <1>8 DEF Next

\* No job exists whose search was not reserved, however many dispatches look for
\* it, count and insert at once, and wherever they are killed.
THEOREM JobsPaidFor == Spec => []JobsArePaidFor
<1>1. TypeInv => Shape
  BY DEF TypeInv, IInv
<1> QED
  BY <1>1, AlwaysTyped, InitPaid, PaidStep, PaidSuffices, PTL DEF Spec
-----------------------------------------------------------------------------
(* What is done. Completions that do not stall are over before their lease. *)

Writing(r) == r.step = "write"

\* A completion that has been checked still has the lease: its worker waits for
\* it, or has crashed and works on something else.
Held ==
    \A r \in completions : Writing(r) =>
        /\ HoldsLease(r.by, r.job)
        /\ r.to # None => r.to = r.by
        /\ r.to = None => r.job \notin work[r.by].batch

OneWriter == \A r, s \in completions : Writing(r) /\ Writing(s) /\ r.job = s.job => r = s

HeldInv == Held /\ OneWriter

LEMMA InitHeld == Init => HeldInv
  BY DEF Init, HeldInv, Held, OneWriter

\* Rows that are leased and do not lapse, completions that end and batches that
\* shrink leave the rest as it was.
LEMMA Fewer ==
    ASSUME TypeInv, HeldInv,
           \A r \in completions' : Writing(r) =>
               /\ r \in completions
               /\ job'[r.job] = job[r.job] /\ work'[r.by].batch \subseteq work[r.by].batch
    PROVE  HeldInv'
  BY DEF HeldInv, Held, OneWriter, Writing, HoldsLease

LEMMA NotInserted ==
    ASSUME TypeInv, NEW d \in Dispatcher, InsertJob(d)
    PROVE  \A j \in Job : job[j] # NoJob => job'[j] = job[j]
<1>1. job \in [Job -> JobRow]
  BY DEF TypeInv, JobTypes
<1> QED
  BY <1>1 DEF InsertJob

LEMMA DispatchHolds ==
    ASSUME TypeInv, HeldInv,
           \/ \E d \in Dispatcher : SelectAsks(d) \/ DispatchStep(d) \/ KillDispatch(d)
           \/ RecordOrder
    PROVE  HeldInv'
<1>1. UNCHANGED workVars
  BY AskStep
<1>2. \A j \in Job : job[j] # NoJob => job'[j] = job[j]
  <2>1. CASE UNCHANGED job
    BY <2>1
  <2>2. CASE \E d \in Dispatcher : InsertJob(d)
    BY <2>2, NotInserted
  <2> QED
    BY <2>1, <2>2 DEF DispatchStep, SelectAsks, LookForJob, ReadWindow, CountSearch,
                      OpenCircuit, Record, MarkRefresh, FailAsk, KillDispatch, RecordOrder
<1>3. \A r \in completions : r.job \in Job /\ job[r.job] # NoJob
  BY DEF TypeInv, WorkTypes, Requests, Request, NoJob
<1> QED
  BY <1>1, <1>2, <1>3, Fewer DEF workVars

LEMMA LeasingHolds ==
    ASSUME TypeInv, HeldInv, "stall" \notin Mishap,
           Reclaim \/ (\E w \in Worker : Claim(w)) \/ (\E j \in Job : Lapse(j))
    PROVE  HeldInv'
<1>0. job \in [Job -> JobRow] /\ work \in [Worker -> WorkRow] /\ completions \subseteq Request
  BY DEF TypeInv, JobTypes, WorkTypes
<1>1. \A r \in completions : Writing(r) => job[r.job].state = "LEASED" /\ ~job[r.job].lapsed
  BY DEF HeldInv, Held, HoldsLease
<1>2. CASE Reclaim
  <2>1. UNCHANGED <<completions, work>> /\ \A j \in Job : j \notin Lapsed => job'[j] = job[j]
    BY <1>2 DEF Reclaim, workVars
  <2> QED
    BY <1>0, <1>1, <2>1, Fewer DEF Lapsed, Request
<1>3. ASSUME NEW w \in Worker, Claim(w) PROVE HeldInv'
  <2>1. PICK S \in Limited({j \in Job : job[j].state = "PENDING"}, LeaseLimit) :
            /\ \A j \in Job : j \notin S => job'[j] = job[j]
            /\ \/ work' = [work EXCEPT ![w] = [step |-> "next", batch |-> S, job |-> None]]
               \/ work' = work
    BY <1>3 DEF Claim
  <2>2. completions' = completions /\ \A j \in S : job[j].state = "PENDING"
    BY <1>3 DEF Claim, Limited
  <2>3. \A r \in completions : Writing(r) => r.job \notin S /\ job'[r.job] = job[r.job]
    BY <1>0, <1>1, <2>1, <2>2 DEF Request
  <2>4. \A v \in Worker : work'[v].batch = work[v].batch \/ work'[v].batch = S
    BY <1>0, <2>1
  <2>5. Held'
    <3> SUFFICES ASSUME NEW r \in completions, Writing(r)
                 PROVE  /\ HoldsLease(r.by, r.job)'
                        /\ r.to # None => r.to = r.by
                        /\ r.to = None => r.job \notin work'[r.by].batch
      BY <2>2 DEF Held, Writing
    <3>1. HoldsLease(r.by, r.job)'
      BY <2>3 DEF HeldInv, Held, HoldsLease
    <3>2. r.to # None => r.to = r.by
      BY DEF HeldInv, Held
    <3>3. r.to = None => r.job \notin work'[r.by].batch
      BY <1>0, <2>3, <2>4 DEF HeldInv, Held, Request
    <3> QED
      BY <3>1, <3>2, <3>3
  <2> QED
    BY <2>2, <2>5 DEF HeldInv, OneWriter, Writing
<1>4. ASSUME NEW j \in Job, Lapse(j) PROVE HeldInv'
  <2>1. UNCHANGED <<completions, work>> /\ \A r \in completions : r.job # j
    BY <1>4 DEF Lapse, workVars, Attended, May
  <2>2. \A k \in Job : k # j => job'[k] = job[k]
    BY <1>0, <1>4 DEF Lapse
  <2> QED
    BY <1>0, <2>1, <2>2, Fewer DEF Request
<1> QED
  BY <1>2, <1>3, <1>4

LEMMA WorkersHold ==
    ASSUME TypeInv, HeldInv, NEW w \in Worker, WorkStep(w) \/ CrashWorker(w)
    PROVE  HeldInv'
<1>0. /\ work \in [Worker -> WorkRow] /\ completions \subseteq Request /\ job' = job
  BY DEF TypeInv, WorkTypes, WorkStep, Search, IngestOffers, Complete, CrashWorker
<1>1. CASE Search(w) \/ IngestOffers(w)
  <2>1. completions' = completions /\ \A v \in Worker : work'[v].batch = work[v].batch
    <3>1. CASE Search(w)
      <4>1. PICK j \in work[w].batch, outcome \in {"found", "success", "failure"} :
                work' = [work EXCEPT ![w].job = j, ![w].step = outcome]
        BY <3>1 DEF Search
      <4> QED
        BY <1>0, <3>1, <4>1 DEF Search, WorkRow
    <3>2. CASE IngestOffers(w)
      <4>1. PICK s \in {"success", "failure"} : work' = [work EXCEPT ![w].step = s]
        BY <3>2 DEF IngestOffers
      <4> QED
        BY <1>0, <3>2, <4>1 DEF IngestOffers, WorkRow
    <3> QED
      BY <1>1, <3>1, <3>2
  <2> QED
    BY <1>0, <2>1, Fewer DEF Request
<1>2. CASE Complete(w)
  <2>0. work[w].step \in {"success", "failure"} /\ work[w].job \in work[w].batch
    BY <1>2 DEF Complete, TypeInv, TakenUp, Working
  <2>1. CASE completions' = completions /\ (NextJob(w) \/ Failed(w, work[w].step = "success"))
    <3>1. \A v \in Worker : work'[v].batch \subseteq work[v].batch
      BY <1>0, <2>0, <2>1, NextJobTypes, FailedTypes DEF Working
    <3> QED
      BY <1>0, <2>1, <3>1, Fewer DEF Request
  <2> DEFINE new(s) == Completion(w, work[w].step = "success", s)
  <2>2. \A s : /\ new(s).job = work[w].job /\ new(s).by = w /\ new(s).to = w
               /\ new(s).step = s
    BY DEF Completion
  <2> HIDE DEF new
  <2>3. work' = [work EXCEPT ![w].step = "wait"] =>
            \A v \in Worker : work'[v].batch = work[v].batch
    BY <1>0 DEF WorkRow
  <2>4. CASE /\ completions' = completions \cup {new("project")}
             /\ work' = [work EXCEPT ![w].step = "wait"]
    <3>1. \A r \in completions' : Writing(r) => r \in completions
      BY <2>2, <2>4 DEF Writing
    <3> QED
      BY <1>0, <2>3, <2>4, <3>1, Fewer DEF Request
  <2>5. CASE /\ HoldsLease(w, work[w].job) /\ completions' = completions \cup {new("write")}
             /\ work' = [work EXCEPT ![w].step = "wait"]
    <3>1. \A r \in completions : Writing(r) => r.job # work[w].job
      <4> SUFFICES ASSUME NEW r \in completions, Writing(r), r.job = work[w].job PROVE FALSE
        OBVIOUS
      <4>1. r.by = w
        BY <2>5 DEF HeldInv, Held, HoldsLease
      <4>2. r.to # None => work[r.to].step = "wait"
        BY DEF TypeInv, Requests
      <4>3. r.to = w \/ (r.to = None /\ r.job \notin work[w].batch)
        BY <4>1 DEF HeldInv, Held
      <4> QED
        BY <2>0, <4>2, <4>3, SearchAssumption
    <3>2. OneWriter'
      BY <2>2, <2>5, <3>1 DEF HeldInv, OneWriter, Writing
    <3>3. Held'
      <4>0. PICK nw : /\ completions' = completions \cup {nw}
                      /\ nw.job = work[w].job /\ nw.by = w /\ nw.to = w
        BY <2>2, <2>5
      <4>1. \A r \in completions : Writing(r) =>
                /\ HoldsLease(r.by, r.job)' /\ (r.to # None => r.to = r.by)
                /\ r.to = None => r.job \notin work'[r.by].batch
        BY <1>0, <2>3, <2>5 DEF HeldInv, Held, HoldsLease, Request
      <4>2. HoldsLease(nw.by, nw.job)'
        BY <1>0, <2>5, <4>0 DEF HoldsLease
      <4>3. w # None
        BY SearchAssumption
      <4> QED
        BY <4>0, <4>1, <4>2, <4>3 DEF Held, Writing
    <3> QED
      BY <3>2, <3>3 DEF HeldInv
  <2> QED
    BY <1>2, <2>1, <2>4, <2>5, CompleteCases DEF new
<1>3. CASE CrashWorker(w)
  <2> DEFINE left(r) == IF r.to = w THEN [r EXCEPT !.to = None] ELSE r
  <2>1. \A q \in completions' : \E r \in completions : q = left(r)
    BY <1>3 DEF CrashWorker
  <2>2. \A r \in completions : /\ left(r).job = r.job /\ left(r).by = r.by
                               /\ left(r).step = r.step
                               /\ left(r).to = IF r.to = w THEN None ELSE r.to
    BY <1>0 DEF Request
  <2> HIDE DEF left
  <2>3. work'[w].batch = {} /\ \A v \in Worker : v # w => work'[v] = work[v]
    BY <1>0, <1>3 DEF CrashWorker, IdleWork
  <2>4. \A r, s \in completions : left(r).step = "write" /\ left(s).step = "write"
                                     /\ left(r).job = left(s).job => left(r) = left(s)
    BY <2>2 DEF HeldInv, OneWriter, Writing
  <2>5. OneWriter'
    BY <2>1, <2>4 DEF OneWriter, Writing
  <2>6. ASSUME NEW r \in completions, r.step = "write"
        PROVE  /\ HoldsLease(left(r).by, left(r).job)'
               /\ left(r).to # None => left(r).to = left(r).by
               /\ left(r).to = None => left(r).job \notin work'[left(r).by].batch
    <3>1. /\ HoldsLease(r.by, r.job) /\ r.by \in Worker
          /\ r.to # None => r.to = r.by
          /\ r.to = None => r.job \notin work[r.by].batch
      BY <1>0, <2>6 DEF HeldInv, Held, Writing, Request
    <3>2. HoldsLease(left(r).by, left(r).job)'
      BY <1>0, <2>2, <3>1 DEF HoldsLease
    <3> QED
      BY <2>2, <2>3, <3>1, <3>2
  <2>7. Held'
    BY <2>1, <2>2, <2>6 DEF Held, Writing
  <2> QED
    BY <2>5, <2>7 DEF HeldInv
<1> QED
  BY <1>1, <1>2, <1>3 DEF WorkStep

LEMMA CompletionsHold ==
    ASSUME TypeInv, HeldInv, "stall" \notin Mishap, NEW r \in completions,
           CompletionStep(r) \/ BreakCompletion(r)
    PROVE  HeldInv'
<1>0. completions \subseteq Request /\ r \in Request /\ job \in [Job -> JobRow]
  BY DEF TypeInv, WorkTypes, JobTypes
<1>1. r.to # None => r.to \in Worker /\ work[r.to].step \in Working
  BY <1>0 DEF TypeInv, Requests, Request, Working
<1>2. \A q \in completions' : Writing(q) => q \in completions \ {r}
  <2>1. \A s : [r EXCEPT !.step = s].step = s
    BY <1>0 DEF Request
  <2> QED
    BY <2>1 DEF CompletionStep, WriteOutcome, ProjectResults, ReportDeath, BreakCompletion,
                Finished, Writing, May
<1>3. \A v \in Worker : work'[v].batch \subseteq work[v].batch
  <2>1. \/ work' = work
        \/ r.to # None /\ (NextJob(r.to) \/ Failed(r.to, r.success))
    BY DEF CompletionStep, WriteOutcome, ProjectResults, ReportDeath, BreakCompletion, Finished
  <2> QED
    BY <1>1, <2>1, NextJobTypes, FailedTypes
<1>4. \A q \in completions' : Writing(q) => job'[q.job] = job[q.job]
  <2>1. CASE WriteOutcome(r)
    <3>1. \A j \in Job : j # r.job => job'[j] = job[j]
      BY <1>0, <2>1 DEF WriteOutcome, Settle
    <3>2. \A q \in completions' : Writing(q) => q.job \in Job /\ q.job # r.job
      BY <1>0, <1>2, <2>1 DEF WriteOutcome, HeldInv, OneWriter, Writing, Request
    <3> QED
      BY <3>1, <3>2
  <2>2. CASE UNCHANGED job
    BY <2>2
  <2> QED
    BY <2>1, <2>2 DEF CompletionStep, ProjectResults, ReportDeath, BreakCompletion
<1> QED
  BY <1>0, <1>2, <1>3, <1>4, Fewer DEF Request

LEMMA HeldStep == "stall" \notin Mishap /\ TypeInv /\ HeldInv /\ [Next]_vars => HeldInv'
<1> SUFFICES ASSUME "stall" \notin Mishap, TypeInv, HeldInv, [Next]_vars PROVE HeldInv'
  OBVIOUS
<1>1. CASE UNCHANGED vars
  BY <1>1 DEF vars, HeldInv, Held, OneWriter, Writing, HoldsLease
<1> QED
  BY <1>1, DispatchHolds, LeasingHolds, WorkersHold, CompletionsHold DEF Next

LEMMA DoneStep ==
    ASSUME TypeInv, HeldInv, [Next]_vars, NEW j \in Job, job[j].state = "DONE"
    PROVE  job'[j].state = "DONE"
<1>0. job \in [Job -> JobRow] /\ completions \subseteq Request
  BY DEF TypeInv, JobTypes, WorkTypes
<1>1. ASSUME NEW d \in Dispatcher, InsertJob(d) PROVE job'[j].state = "DONE"
  BY <1>1, NotInserted DEF NoJob
<1>2. CASE Reclaim
  BY <1>0, <1>2 DEF Reclaim, Lapsed
<1>3. ASSUME NEW w \in Worker, Claim(w) PROVE job'[j].state = "DONE"
  <2>1. PICK S \in Limited({k \in Job : job[k].state = "PENDING"}, LeaseLimit) :
            \A k \in Job : k \notin S => job'[k] = job[k]
    BY <1>3 DEF Claim
  <2>2. \A k \in S : job[k].state = "PENDING"
    BY DEF Limited
  <2> QED
    BY <2>1, <2>2
<1>4. ASSUME NEW k \in Job, Lapse(k) PROVE job'[j].state = "DONE"
  BY <1>0, <1>4 DEF Lapse
<1>5. ASSUME NEW r \in completions, WriteOutcome(r) PROVE job'[j].state = "DONE"
  <2>1. r.job # j
    BY <1>5 DEF WriteOutcome, HeldInv, Held, Writing, HoldsLease
  <2> QED
    BY <1>0, <1>5, <2>1 DEF WriteOutcome, Settle
<1>6. CASE UNCHANGED job
  BY <1>6
<1> QED
  BY <1>1, <1>2, <1>3, <1>4, <1>5, <1>6
     DEF Next, vars, SelectAsks, DispatchStep, LookForJob, ReadWindow, CountSearch, OpenCircuit,
         Record, MarkRefresh, FailAsk, KillDispatch, RecordOrder, WorkStep, Search,
         IngestOffers, Complete, CrashWorker, CompletionStep, ProjectResults, ReportDeath,
         BreakCompletion

\* As long as no completion outlives its lease, a job that is done stays done
\* (completeVerificationJob names nothing but the job), whatever crashes and
\* whoever claims what.
THEOREM DoneStaysDone == "stall" \notin Mishap => (Spec => DoneIsFinal)
<1> SUFFICES ASSUME "stall" \notin Mishap PROVE Spec => DoneIsFinal
  OBVIOUS
<1>1. TypeInv /\ HeldInv /\ [Next]_vars => HeldInv'
  BY HeldStep
<1>2. TypeInv /\ HeldInv /\ [Next]_vars =>
          [\A j \in Job : job[j].state = "DONE" => job'[j].state = "DONE"]_vars
  BY DoneStep
<1> QED
  BY <1>1, <1>2, AlwaysTyped, InitHeld, PTL DEF Spec, DoneIsFinal
=============================================================================
