------------------------- MODULE ContextLifetimeProofs -------------------------
(***************************************************************************)
(* Theorems about ContextLifetime, for any contexts and any jobs on their  *)
(* threads, and about ContextCreation, for any devices and capabilities.   *)
(***************************************************************************)
EXTENDS ContextLifetime, ContextCreation, SequenceTheorems, TLAPS

-----------------------------------------------------------------------------
(* The inductive invariant *)

\* What a thread runs, once.
On(t, what) == \E i \in DOMAIN busy[t] : busy[t][i] = what
Once(t) == \A i, k \in DOMAIN busy[t] : i # k => busy[t][i] # busy[t][k]

InRetired(c) == \E i \in DOMAIN retired : retired[i] = c

\* A job holds handles of contexts that are ready, all of them while it is
\* queued; a context is being deleted when nobody holds a handle any more.
HandleInv ==
    /\ \A c \in Contexts : \A j \in handles[c] \ {"public"} :
        c \in HandlesOf[j] /\ built[c] = "ready" /\ job[j] \in {"queued", "running"}
    /\ \A j \in Jobs : job[j] = "queued" =>
        \A c \in HandlesOf[j] : j \in handles[c]
    /\ \A c \in Contexts : deletion[c] = "none" <=> handles[c] # {}

\* The stacks of the threads: who deletes a context is alone in it and none of
\* its own threads, and a job is on its thread as long as it runs.
BusyInv ==
    /\ \A t \in Threads : Once(t)
    /\ \A t \in Threads, c \in Contexts : On(t, c) =>
        /\ t \notin Workers(c)
        /\ deletion[c] \in {"agent", "waiter", "device"}
        /\ \A u \in Threads : On(u, c) => u = t
    /\ \A t \in Threads, j \in Jobs : On(t, j) => t = ThreadOf[j] /\ job[j] = "running"
    /\ \A j \in Jobs : job[j] = "running" => On(ThreadOf[j], j)

\* A thread that was joined belongs to a context whose handles are gone.
ExitInv ==
    /\ JoinedIsIdle
    /\ \A t \in exited : \E c \in Contexts : t \in Workers(c) /\ handles[c] = {}

\* The reaper leaves when no handle is left to drop.
ReaperInv ==
    /\ ReaperDrains
    /\ reaper # "running" => \A c \in Contexts : handles[c] = {}

LifeIInv == LifeTypeOK /\ HandleInv /\ BusyInv /\ ExitInv /\ ReaperInv

-----------------------------------------------------------------------------
(* Threads *)

\* The main thread and the reaper's are nobody's, and no two contexts share a
\* worker.
LEMMA ThreadsApart ==
    /\ Main \in Threads /\ Reaper \in Threads
    /\ \A c \in Contexts : Main \notin Workers(c) /\ Reaper \notin Workers(c)
    /\ \A c, d \in Contexts : Workers(c) \cap Workers(d) # {} => c = d
    /\ \A c \in Contexts : Workers(c) \subseteq Threads
<1>1. Main \in Threads /\ Reaper \in Threads
    BY DEF Main, Reaper, Threads
<1>2. \A c \in Contexts : Main \notin Workers(c) /\ Reaper \notin Workers(c)
    BY DEF Main, Reaper, Workers, Agent, Waiter
<1>3. \A c, d \in Contexts : Workers(c) \cap Workers(d) # {} => c = d
    BY DEF Workers, Agent, Waiter
<1>4. \A c \in Contexts : Workers(c) \subseteq Threads
    BY DEF Threads
<1> QED BY <1>1, <1>2, <1>3, <1>4

\* A job runs on a worker of one of its contexts.
LEMMA JobThread ==
    ASSUME NEW j \in Jobs
    PROVE  /\ j # "public" /\ j \notin Contexts /\ HandlesOf[j] \subseteq Contexts
           /\ ThreadOf[j] \in Threads
           /\ \A c \in Contexts : ThreadOf[j] \in Workers(c) => c \in HandlesOf[j]
           /\ ThreadOf[j] # Main /\ ThreadOf[j] # Reaper
<1>1. PICK c \in HandlesOf[j] : HandlesOf[j] \subseteq Contexts /\ ThreadOf[j] \in Workers(c)
    BY LifetimeAssumption
<1>2. \A d \in Contexts : ThreadOf[j] \in Workers(d) => d = c
    BY <1>1, ThreadsApart
<1> QED BY <1>1, <1>2, ThreadsApart, LifetimeAssumption

\* An idle thread runs nothing.
LEMMA IdleRunsNothing ==
    ASSUME LifeTypeOK, NEW t \in Threads
    PROVE  /\ Idle(t) <=> \A what \in Jobs \cup Contexts : ~ On(t, what)
           /\ \A what : Runs(t, what) => On(t, what)
<1>1. busy[t] \in Seq(Jobs \cup Contexts)
    BY DEF LifeTypeOK
<1>2. DOMAIN busy[t] = 1 .. Len(busy[t]) /\ Len(busy[t]) \in Nat
      /\ \A i \in DOMAIN busy[t] : busy[t][i] \in Jobs \cup Contexts
    BY <1>1, LenProperties, ElementOfSeq
<1>3. busy[t] = <<>> <=> Len(busy[t]) = 0
    BY <1>1, EmptySeq
<1>4. busy[t] # <<>> => Len(busy[t]) \in DOMAIN busy[t]
    BY <1>2, <1>3
<1>5. Idle(t) => \A what \in Jobs \cup Contexts : ~ On(t, what)
    BY <1>2, <1>3 DEF Idle, On
<1>6. ~ Idle(t) => \E what \in Jobs \cup Contexts : On(t, what)
    BY <1>2, <1>4 DEF Idle, On
<1>7. \A what : Runs(t, what) => On(t, what)
    BY <1>4 DEF Runs, Idle, Top, On
<1> QED BY <1>5, <1>6, <1>7

\* What a thread begins to run.
LEMMA Pushed ==
    ASSUME LifeTypeOK, NEW t \in Threads, NEW what \in Jobs \cup Contexts,
           Push(t, what), \A u \in Threads : Once(u), ~ On(t, what)
    PROVE  /\ busy' \in [Threads -> Seq(Jobs \cup Contexts)]
           /\ \A u \in Threads : Once(u)'
           /\ \A u \in Threads : \A x : On(u, x)' <=> On(u, x) \/ (u = t /\ x = what)
           /\ \A u \in Threads : u # t => (Idle(u)' <=> Idle(u))
<1>1. /\ busy \in [Threads -> Seq(Jobs \cup Contexts)]
      /\ busy' = [busy EXCEPT ![t] = Append(busy[t], what)]
      /\ busy[t] \in Seq(Jobs \cup Contexts)
    BY DEF LifeTypeOK, Push
<1>2. /\ Append(busy[t], what) \in Seq(Jobs \cup Contexts)
      /\ Len(Append(busy[t], what)) = Len(busy[t]) + 1
      /\ \A i \in 1 .. Len(busy[t]) : Append(busy[t], what)[i] = busy[t][i]
      /\ Append(busy[t], what)[Len(busy[t]) + 1] = what
    BY <1>1, AppendProperties
<1>3. /\ busy'[t] = Append(busy[t], what)
      /\ \A u \in Threads : u # t => busy'[u] = busy[u]
      /\ busy' \in [Threads -> Seq(Jobs \cup Contexts)]
    BY <1>1, <1>2
<1>4. /\ DOMAIN busy[t] = 1 .. Len(busy[t]) /\ Len(busy[t]) \in Nat
      /\ DOMAIN busy'[t] = 1 .. Len(busy[t]) + 1
    BY <1>1, <1>2, <1>3, LenProperties
<1>5. \A x : On(t, x)' <=> On(t, x) \/ x = what
    BY <1>2, <1>3, <1>4 DEF On
<1>6. Once(t)'
    BY <1>2, <1>3, <1>4 DEF On, Once
<1>7. \A u \in Threads : u # t => /\ Once(u)' /\ (Idle(u)' <=> Idle(u))
                                  /\ \A x : On(u, x)' <=> On(u, x)
    BY <1>3 DEF Once, On, Idle
<1> QED BY <1>3, <1>5, <1>6, <1>7

\* What a thread has run.
LEMMA Popped ==
    ASSUME LifeTypeOK, NEW t \in Threads, NEW what,
           Runs(t, what), Pop(t), \A u \in Threads : Once(u)
    PROVE  /\ busy' \in [Threads -> Seq(Jobs \cup Contexts)]
           /\ \A u \in Threads : Once(u)'
           /\ \A u \in Threads : \A x : On(u, x)' <=> On(u, x) /\ ~ (u = t /\ x = what)
           /\ \A u \in Threads : Idle(u) => Idle(u)'
<1> DEFINE n == Len(busy[t])
<1>1. /\ busy \in [Threads -> Seq(Jobs \cup Contexts)]
      /\ busy' = [busy EXCEPT ![t] = SubSeq(busy[t], 1, n - 1)]
      /\ busy[t] \in Seq(Jobs \cup Contexts)
    BY DEF LifeTypeOK, Pop
<1>2. n \in Nat /\ n > 0 /\ DOMAIN busy[t] = 1 .. n /\ busy[t][n] = what /\ ~ Idle(t)
    BY <1>1, LenProperties, EmptySeq DEF Runs, Idle, Top
<1>3. /\ SubSeq(busy[t], 1, n - 1) \in Seq(Jobs \cup Contexts)
      /\ Len(SubSeq(busy[t], 1, n - 1)) = n - 1
      /\ \A i \in 1 .. n - 1 : SubSeq(busy[t], 1, n - 1)[i] = busy[t][i]
    BY <1>1, <1>2
<1>4. /\ busy'[t] = SubSeq(busy[t], 1, n - 1)
      /\ \A u \in Threads : u # t => busy'[u] = busy[u]
      /\ busy' \in [Threads -> Seq(Jobs \cup Contexts)]
    BY <1>1, <1>3
<1>5. DOMAIN busy'[t] = 1 .. n - 1
    BY <1>3, <1>4, LenProperties
<1> HIDE DEF n
<1>6. \A i \in 1 .. n - 1 : busy'[t][i] = busy[t][i]
    BY <1>3, <1>4 DEF n
<1>7. Once(t)
    OBVIOUS
<1>8. \A x : On(t, x)' <=> On(t, x) /\ x # what
    <2>1. ASSUME NEW x, On(t, x)' PROVE On(t, x) /\ x # what
        <3>1. PICK i \in 1 .. n - 1 : busy'[t][i] = x
            BY <2>1, <1>5 DEF On
        <3>2. i \in DOMAIN busy[t] /\ n \in DOMAIN busy[t] /\ i # n /\ busy[t][i] = x
            BY <1>2, <1>6, <3>1
        <3> QED BY <1>2, <1>7, <3>2 DEF On, Once
    <2>2. ASSUME NEW x, On(t, x), x # what PROVE On(t, x)'
        <3>1. PICK i \in DOMAIN busy[t] : busy[t][i] = x
            BY <2>2 DEF On
        <3>2. i \in 1 .. n - 1
            BY <1>2, <2>2, <3>1
        <3> QED BY <1>5, <1>6, <3>1, <3>2 DEF On
    <2> QED BY <2>1, <2>2
<1>9. Once(t)'
    BY <1>2, <1>5, <1>6, <1>7 DEF Once
<1>10. \A u \in Threads : u # t => /\ Once(u)' /\ (Idle(u) => Idle(u)')
                                   /\ \A x : On(u, x)' <=> On(u, x)
    BY <1>4 DEF Once, On, Idle
<1> QED BY <1>2, <1>4, <1>8, <1>9, <1>10

-----------------------------------------------------------------------------
(* Steps that run nothing new *)

\* Stacks that do not change say the same.
LEMMA SameStacks ==
    ASSUME UNCHANGED busy
    PROVE  /\ \A t \in Threads : Once(t)' <=> Once(t)
           /\ \A t \in Threads : \A x : On(t, x)' <=> On(t, x)
           /\ \A t \in Threads : Idle(t)' <=> Idle(t)
    BY DEF Once, On, Idle

\* Neither do they when jobs are posted or deletions go on.
LEMMA BusyKept ==
    ASSUME BusyInv, UNCHANGED busy,
           \A j \in Jobs : job'[j] = "running" <=> job[j] = "running",
           \A c \in Contexts : deletion[c] \in {"agent", "waiter", "device"}
                => deletion'[c] \in {"agent", "waiter", "device"}
    PROVE  BusyInv'
<1>1. \A t \in Threads : Once(t)'
    BY DEF BusyInv, Once
<1>2. ASSUME NEW t \in Threads, NEW x PROVE On(t, x)' = On(t, x)
    BY DEF On
<1>3. \A t \in Threads, c \in Contexts : On(t, c)' =>
        /\ t \notin Workers(c)
        /\ deletion'[c] \in {"agent", "waiter", "device"}
        /\ \A u \in Threads : On(u, c)' => u = t
    BY <1>2 DEF BusyInv
<1>4. \A t \in Threads, j \in Jobs : On(t, j)' => t = ThreadOf[j] /\ job'[j] = "running"
    BY <1>2 DEF BusyInv
<1>5. \A j \in Jobs : job'[j] = "running" => On(ThreadOf[j], j)'
    BY <1>2, JobThread DEF BusyInv
<1> QED BY <1>1, <1>3, <1>4, <1>5 DEF BusyInv

\* Only the workers of contexts are joined.
LEMMA JoinedAreWorkers ==
    ASSUME LifeIInv
    PROVE  Main \notin exited /\ Reaper \notin exited /\ exited \subseteq Threads
    BY ThreadsApart DEF LifeIInv, ExitInv, LifeTypeOK

LEMMA BuildKeeps ==
    ASSUME LifeIInv, NEW c \in Contexts, Build(c)
    PROVE  LifeIInv'
<1>1. /\ built' = [built EXCEPT ![c] = built'[c]]
      /\ built'[c] \in {"device", "waiter", "ready"} /\ built[c] # "ready"
      /\ UNCHANGED <<handles, job, busy, deletion, retired, reaper, exited>>
    BY DEF Build, LifeIInv, LifeTypeOK
<1>2. LifeTypeOK'
    BY <1>1 DEF LifeIInv, LifeTypeOK
<1>3. HandleInv'
    BY <1>1 DEF LifeIInv, LifeTypeOK, HandleInv
<1>4. BusyInv'
    BY <1>1, BusyKept DEF LifeIInv
<1>5. ExitInv' /\ ReaperInv'
    BY <1>1 DEF LifeIInv, ExitInv, JoinedIsIdle, ReaperInv, ReaperDrains, Idle
<1> QED BY <1>2, <1>3, <1>4, <1>5 DEF LifeIInv

LEMMA PostKeeps ==
    ASSUME LifeIInv, NEW j \in Jobs, Post(j)
    PROVE  LifeIInv'
<1>1. /\ job[j] = "new" /\ job' = [job EXCEPT ![j] = "queued"]
      /\ handles' = [c \in Contexts |-> IF c \in HandlesOf[j]
                                        THEN handles[c] \cup {j} ELSE handles[c]]
      /\ \A c \in HandlesOf[j] : "public" \in handles[c] /\ built[c] = "ready"
      /\ UNCHANGED <<built, busy, deletion, retired, reaper, exited>>
    BY DEF Post
<1>2. j # "public" /\ HandlesOf[j] \subseteq Contexts
    BY JobThread
<1>3. \A c \in Contexts : handles'[c] = {} <=> handles[c] = {}
    BY <1>1
<1>4. LifeTypeOK'
    BY <1>1 DEF LifeIInv, LifeTypeOK
<1>5. HandleInv'
    <2>1. \A c \in Contexts : \A k \in handles'[c] \ {"public"} :
            c \in HandlesOf[k] /\ built[c] = "ready" /\ job'[k] \in {"queued", "running"}
        <3> SUFFICES ASSUME NEW c \in Contexts, NEW k \in handles'[c] \ {"public"}
                     PROVE  /\ c \in HandlesOf[k] /\ built[c] = "ready"
                            /\ job'[k] \in {"queued", "running"}
            OBVIOUS
        <3>1. CASE k = j
            <4>1. c \in HandlesOf[j]
                BY <1>1, <3>1 DEF LifeIInv, HandleInv
            <4> QED BY <1>1, <3>1, <4>1 DEF LifeIInv, LifeTypeOK
        <3>2. CASE k # j
            <4>1. k \in handles[c] \ {"public"}
                BY <1>1, <3>2
            <4> QED BY <1>1, <3>2, <4>1 DEF LifeIInv, LifeTypeOK, HandleInv
        <3> QED BY <3>1, <3>2
    <2>2. \A k \in Jobs : job'[k] = "queued" => \A c \in HandlesOf[k] : k \in handles'[c]
        <3> SUFFICES ASSUME NEW k \in Jobs, job'[k] = "queued", NEW c \in HandlesOf[k]
                     PROVE  k \in handles'[c]
            OBVIOUS
        <3>1. c \in Contexts
            BY JobThread
        <3>2. k # j => k \in handles[c]
            BY <1>1 DEF LifeIInv, LifeTypeOK, HandleInv
        <3> QED BY <1>1, <3>1, <3>2
    <2> QED BY <1>1, <1>3, <2>1, <2>2 DEF LifeIInv, HandleInv
<1>6. BusyInv'
    BY <1>1, BusyKept DEF LifeIInv, LifeTypeOK
<1>7. ExitInv'
    <2>1. ThreadOf[j] \notin exited
        <3> SUFFICES ASSUME ThreadOf[j] \in exited PROVE FALSE
            OBVIOUS
        <3>1. PICK c \in Contexts : ThreadOf[j] \in Workers(c) /\ handles[c] = {}
            BY DEF LifeIInv, ExitInv
        <3> QED BY <1>1, <3>1, JobThread
    <2> QED BY <1>1, <1>3, <2>1, SameStacks, JoinedAreWorkers
            DEF LifeIInv, LifeTypeOK, ExitInv, JoinedIsIdle
<1>8. ReaperInv'
    BY <1>1, <1>3 DEF LifeIInv, ReaperInv, ReaperDrains
<1> QED BY <1>4, <1>5, <1>6, <1>7, <1>8 DEF LifeIInv

LEMMA JoinKeeps ==
    ASSUME LifeIInv, NEW t \in Threads, NEW c \in Contexts, JoinAgent(t, c) \/ JoinWaiter(t, c)
    PROVE  LifeIInv'
<1>1. PICK worker \in Workers(c) :
        /\ Runs(t, c) /\ deletion[c] \in {"agent", "waiter"}
        /\ worker \in Workforce(c) => Idle(worker)
        /\ exited' = exited \cup ({worker} \cap Workforce(c))
        /\ \E to \in {"waiter", "device"} : deletion' = [deletion EXCEPT ![c] = to]
        /\ UNCHANGED <<built, handles, job, busy, retired, reaper>>
    BY DEF JoinAgent, JoinWaiter, Joins, Workers
<1>2. handles[c] = {}
    BY <1>1 DEF LifeIInv, HandleInv
<1>3. worker \in Threads
    BY ThreadsApart
<1>4. LifeTypeOK'
    BY <1>1, <1>3 DEF LifeIInv, LifeTypeOK
<1>5. HandleInv'
    BY <1>1, <1>2 DEF LifeIInv, LifeTypeOK, HandleInv
<1>6. BusyInv'
    BY <1>1, BusyKept DEF LifeIInv, LifeTypeOK
<1>7. ExitInv'
    <2>1. ASSUME NEW j \in Jobs, ThreadOf[j] = worker, Idle(worker)
          PROVE  job[j] \in {"new", "done"}
        <3>1. c \in HandlesOf[j]
            BY <2>1, JobThread
        <3>2. job[j] # "queued"
            BY <1>2, <3>1 DEF LifeIInv, HandleInv
        <3>3. job[j] # "running"
            BY <1>3, <2>1, IdleRunsNothing DEF LifeIInv, BusyInv
        <3> QED BY <3>2, <3>3 DEF LifeIInv, LifeTypeOK
    <2>2. \A u \in exited' : Idle(u)' /\ \A j \in Jobs : ThreadOf[j] = u => job'[j] \in {"new", "done"}
        BY <1>1, <1>3, <2>1, SameStacks, JoinedAreWorkers DEF LifeIInv, ExitInv, JoinedIsIdle
    <2>3. \A u \in exited' : \E d \in Contexts : u \in Workers(d) /\ handles'[d] = {}
        BY <1>1, <1>2 DEF LifeIInv, ExitInv
    <2> QED BY <2>2, <2>3 DEF ExitInv, JoinedIsIdle
<1>8. ReaperInv'
    BY <1>1 DEF LifeIInv, LifeTypeOK, ReaperInv, ReaperDrains
<1> QED BY <1>4, <1>5, <1>6, <1>7, <1>8 DEF LifeIInv

LEMMA ReaperKeeps ==
    ASSUME LifeIInv, StopReaper \/ ReaperLeaves
    PROVE  LifeIInv'
<1>1. /\ UNCHANGED <<built, handles, job, busy, deletion, retired, exited>>
      /\ reaper' \in {"stopping", "gone"}
      /\ reaper = "running" => \A c \in Contexts : handles[c] = {}
      /\ reaper' = "gone" => retired = <<>>
    BY DEF StopReaper, ReaperLeaves
<1>2. LifeTypeOK' /\ HandleInv'
    BY <1>1 DEF LifeIInv, LifeTypeOK, HandleInv
<1>3. BusyInv'
    BY <1>1, BusyKept DEF LifeIInv
<1>4. ExitInv'
    BY <1>1 DEF LifeIInv, ExitInv, JoinedIsIdle, Idle
<1>5. ReaperInv'
    BY <1>1 DEF LifeIInv, ReaperInv, ReaperDrains
<1> QED BY <1>2, <1>3, <1>4, <1>5 DEF LifeIInv

-----------------------------------------------------------------------------
(* Steps of the stacks *)

LEMMA RunKeeps ==
    ASSUME LifeIInv, NEW j \in Jobs, RunJob(j)
    PROVE  LifeIInv'
<1>1. /\ job[j] = "queued" /\ Idle(ThreadOf[j]) /\ Push(ThreadOf[j], j)
      /\ job' = [job EXCEPT ![j] = "running"]
      /\ UNCHANGED <<built, handles, deletion, retired, reaper, exited>>
    BY DEF RunJob
<1>2. ThreadOf[j] \in Threads /\ j \notin Contexts /\ j # "public"
    BY JobThread
<1>3. ~ On(ThreadOf[j], j)
    BY <1>1, <1>2, IdleRunsNothing DEF LifeIInv
<1>4. /\ busy' \in [Threads -> Seq(Jobs \cup Contexts)]
      /\ \A u \in Threads : Once(u)'
      /\ \A u \in Threads : \A x : On(u, x)' <=> On(u, x) \/ (u = ThreadOf[j] /\ x = j)
      /\ \A u \in Threads : u # ThreadOf[j] => (Idle(u)' <=> Idle(u))
    BY <1>1, <1>2, <1>3, Pushed DEF LifeIInv, BusyInv
<1>5. LifeTypeOK'
    BY <1>1, <1>4 DEF LifeIInv, LifeTypeOK
<1>6. HandleInv'
    BY <1>1 DEF LifeIInv, LifeTypeOK, HandleInv
<1>7. BusyInv'
    BY <1>1, <1>2, <1>4, JobThread DEF LifeIInv, LifeTypeOK, BusyInv
<1>8. ThreadOf[j] \notin exited
    BY <1>1 DEF LifeIInv, ExitInv, JoinedIsIdle
<1>9. ExitInv'
    BY <1>1, <1>4, <1>8, JoinedAreWorkers DEF LifeIInv, LifeTypeOK, ExitInv, JoinedIsIdle
<1>10. ReaperInv'
    BY <1>1 DEF LifeIInv, ReaperInv, ReaperDrains
<1> QED BY <1>5, <1>6, <1>7, <1>9, <1>10 DEF LifeIInv

LEMMA ReturnKeeps ==
    ASSUME LifeIInv, NEW j \in Jobs, ReturnJob(j)
    PROVE  LifeIInv'
<1>1. /\ Runs(ThreadOf[j], j) /\ Pop(ThreadOf[j])
      /\ \A c \in Contexts : j \notin handles[c]
      /\ job' = [job EXCEPT ![j] = "done"]
      /\ UNCHANGED <<built, handles, deletion, retired, reaper, exited>>
    BY DEF ReturnJob
<1>2. ThreadOf[j] \in Threads /\ j \notin Contexts /\ j # "public"
    BY JobThread
<1>3. /\ busy' \in [Threads -> Seq(Jobs \cup Contexts)]
      /\ \A u \in Threads : Once(u)'
      /\ \A u \in Threads : \A x : On(u, x)' <=> On(u, x) /\ ~ (u = ThreadOf[j] /\ x = j)
      /\ \A u \in Threads : Idle(u) => Idle(u)'
    BY <1>1, <1>2, Popped DEF LifeIInv, BusyInv
<1>4. LifeTypeOK'
    BY <1>1, <1>3 DEF LifeIInv, LifeTypeOK
<1>5. HandleInv'
    BY <1>1 DEF LifeIInv, LifeTypeOK, HandleInv
<1>6. BusyInv'
    BY <1>1, <1>2, <1>3, JobThread DEF LifeIInv, LifeTypeOK, BusyInv
<1>7. ExitInv'
    BY <1>1, <1>3, JoinedAreWorkers DEF LifeIInv, LifeTypeOK, ExitInv, JoinedIsIdle
<1>8. ReaperInv'
    BY <1>1 DEF LifeIInv, ReaperInv, ReaperDrains
<1> QED BY <1>4, <1>5, <1>6, <1>7, <1>8 DEF LifeIInv

LEMMA DestroyKeeps ==
    ASSUME LifeIInv, NEW t \in Threads, NEW c \in Contexts, DestroyDevice(t, c)
    PROVE  LifeIInv'
<1>1. /\ Runs(t, c) /\ Pop(t) /\ deletion[c] = "device"
      /\ deletion' = [deletion EXCEPT ![c] = "done"]
      /\ UNCHANGED <<built, handles, job, retired, reaper, exited>>
    BY DEF DestroyDevice
<1>2. /\ busy' \in [Threads -> Seq(Jobs \cup Contexts)]
      /\ \A u \in Threads : Once(u)'
      /\ \A u \in Threads : \A x : On(u, x)' <=> On(u, x) /\ ~ (u = t /\ x = c)
      /\ \A u \in Threads : Idle(u) => Idle(u)'
    BY <1>1, Popped DEF LifeIInv, BusyInv
<1>3. On(t, c)
    BY <1>1, IdleRunsNothing DEF LifeIInv
<1>4. LifeTypeOK'
    BY <1>1, <1>2 DEF LifeIInv, LifeTypeOK
<1>5. HandleInv'
    BY <1>1 DEF LifeIInv, LifeTypeOK, HandleInv
<1>6. BusyInv'
    BY <1>1, <1>2, <1>3, JobThread DEF LifeIInv, LifeTypeOK, BusyInv
<1>7. ExitInv'
    BY <1>1, <1>2, JoinedAreWorkers DEF LifeIInv, LifeTypeOK, ExitInv, JoinedIsIdle
<1>8. ReaperInv'
    BY <1>1 DEF LifeIInv, LifeTypeOK, ReaperInv, ReaperDrains
<1> QED BY <1>4, <1>5, <1>6, <1>7, <1>8 DEF LifeIInv

\* A deletion begins on a thread that is not the context's own.
LEMMA BeginKeeps ==
    ASSUME LifeIInv, NEW t \in Threads, NEW c \in Contexts, t \notin Workers(c),
           t \notin exited, \A u \in Threads : ~ On(u, c), Push(t, c)
    PROVE  /\ busy' \in [Threads -> Seq(Jobs \cup Contexts)]
           /\ \A u \in Threads : Once(u)'
           /\ \A u \in Threads : \A x : On(u, x)' <=> On(u, x) \/ (u = t /\ x = c)
           /\ \A u \in exited : Idle(u)' <=> Idle(u)
<1>1. ~ On(t, c)
    OBVIOUS
<1> QED BY <1>1, Pushed, JoinedAreWorkers DEF LifeIInv, BusyInv

LEMMA TakeKeeps ==
    ASSUME LifeIInv, ReaperTakes
    PROVE  LifeIInv'
<1> DEFINE c == Head(retired)
<1>1. /\ retired \in Seq(Contexts) /\ retired # <<>> /\ retired' = Tail(retired)
      /\ deletion' = [deletion EXCEPT ![c] = "agent"]
      /\ Push(Reaper, c) /\ reaper # "gone"
      /\ UNCHANGED <<built, handles, job, reaper, exited>>
    BY DEF ReaperTakes, LifeIInv, LifeTypeOK
<1>2. /\ c \in Contexts /\ c = retired[1] /\ Tail(retired) \in Seq(Contexts)
      /\ Len(Tail(retired)) = Len(retired) - 1
      /\ \A i \in 1 .. Len(Tail(retired)) : Tail(retired)[i] = retired[i + 1]
    BY <1>1, HeadTailProperties
<1>3. /\ Len(retired) \in Nat /\ Len(retired) > 0
      /\ DOMAIN retired = 1 .. Len(retired) /\ DOMAIN retired' = 1 .. Len(retired) - 1
    BY <1>1, <1>2, LenProperties, EmptySeq
<1> HIDE DEF c
<1>4. /\ 1 \in DOMAIN retired
      /\ \A i \in DOMAIN retired' : i + 1 \in DOMAIN retired /\ retired'[i] = retired[i + 1]
                                    /\ i \in Nat \ {0}
      /\ \A i \in DOMAIN retired \ {1} : i - 1 \in DOMAIN retired' /\ retired'[i - 1] = retired[i]
    BY <1>1, <1>2, <1>3
<1>5. deletion[c] = "queued"
    BY <1>2, <1>4 DEF LifeIInv, ReaperInv, ReaperDrains
<1>6. \A u \in Threads : ~ On(u, c)
    BY <1>2, <1>5 DEF LifeIInv, BusyInv
<1>7. /\ busy' \in [Threads -> Seq(Jobs \cup Contexts)]
      /\ \A u \in Threads : Once(u)'
      /\ \A u \in Threads : \A x : On(u, x)' <=> On(u, x) \/ (u = Reaper /\ x = c)
      /\ \A u \in exited : Idle(u)' <=> Idle(u)
    BY <1>1, <1>2, <1>6, BeginKeeps, ThreadsApart, JoinedAreWorkers
<1>8. LifeTypeOK'
    BY <1>1, <1>2, <1>7 DEF LifeIInv, LifeTypeOK
<1>9. HandleInv'
    BY <1>1, <1>2, <1>5 DEF LifeIInv, LifeTypeOK, HandleInv
<1>10. BusyInv'
    BY <1>1, <1>2, <1>6, <1>7, ThreadsApart, JobThread DEF LifeIInv, LifeTypeOK, BusyInv
<1>11. ExitInv'
    BY <1>1, <1>7 DEF LifeIInv, LifeTypeOK, ExitInv, JoinedIsIdle
<1>12. ReaperInv'
    <2>1. \A i, k \in DOMAIN retired' : i # k => retired'[i] # retired'[k]
        <3> SUFFICES ASSUME NEW i \in DOMAIN retired', NEW k \in DOMAIN retired', i # k
                     PROVE  retired'[i] # retired'[k]
            OBVIOUS
        <3>1. i + 1 # k + 1
            BY <1>4
        <3> QED BY <1>4, <3>1 DEF LifeIInv, ReaperInv, ReaperDrains
    <2>2. \A i \in DOMAIN retired' : retired'[i] # c
        <3> SUFFICES ASSUME NEW i \in DOMAIN retired' PROVE retired'[i] # c
            OBVIOUS
        <3>1. i + 1 # 1
            BY <1>4
        <3> QED BY <1>2, <1>4, <3>1 DEF LifeIInv, ReaperInv, ReaperDrains
    <2>3. ASSUME NEW d \in Contexts
          PROVE  deletion'[d] = "queued" <=> \E i \in DOMAIN retired' : retired'[i] = d
        <3>1. CASE d = c
            BY <1>1, <1>2, <2>2, <3>1 DEF LifeIInv, LifeTypeOK
        <3>2. CASE d # c
            <4>1. deletion'[d] = deletion[d]
                BY <1>1, <3>2
            <4>2. (\E i \in DOMAIN retired' : retired'[i] = d)
                    <=> \E i \in DOMAIN retired : retired[i] = d
                BY <1>2, <1>4, <3>2
            <4> QED BY <4>1, <4>2 DEF LifeIInv, ReaperInv, ReaperDrains
        <3> QED BY <3>1, <3>2
    <2> QED BY <1>1, <2>1, <2>3 DEF LifeIInv, ReaperInv, ReaperDrains
<1> QED BY <1>8, <1>9, <1>10, <1>11, <1>12 DEF LifeIInv

\* A handle goes, and with the last one the context.
LEMMA DropKeeps ==
    ASSUME LifeIInv, NEW t \in Threads, NEW c \in Contexts, NEW holder \in handles[c],
           Drop(t, c, holder), UNCHANGED <<built, job, reaper, exited>>,
           t \notin exited, t \notin Workforce(c) => t \notin Workers(c),
           holder # "public" => job[holder] = "running"
    PROVE  LifeIInv'
<1>1. /\ handles' = [handles EXCEPT ![c] = handles[c] \ {holder}]
      /\ handles'[c] = handles[c] \ {holder}
      /\ \A d \in Contexts : d # c => handles'[d] = handles[d]
    BY DEF Drop, LifeIInv, LifeTypeOK
<1>2. deletion[c] = "none" /\ reaper = "running"
    BY DEF LifeIInv, HandleInv, ReaperInv
<1>3. /\ \A u \in Threads : ~ On(u, c)
      /\ ~ \E i \in DOMAIN retired : retired[i] = c
    BY <1>2 DEF LifeIInv, BusyInv, ReaperInv, ReaperDrains
<1>4. \A d \in Contexts : \A j \in handles'[d] \ {"public"} :
        d \in HandlesOf[j] /\ built[d] = "ready" /\ job[j] \in {"queued", "running"}
    BY <1>1 DEF LifeIInv, HandleInv
<1>5. \A j \in Jobs : job[j] = "queued" => \A d \in HandlesOf[j] : j \in handles'[d]
    <2> SUFFICES ASSUME NEW j \in Jobs, job[j] = "queued", NEW d \in HandlesOf[j]
                 PROVE  j \in handles'[d]
        OBVIOUS
    <2>1. d \in Contexts /\ j \in handles[d] /\ j # "public"
        BY JobThread DEF LifeIInv, HandleInv
    <2> QED BY <1>1, <2>1
<1>6. \A d \in Contexts : handles[d] = {} => handles'[d] = {}
    BY <1>1
<1>7. CASE handles[c] # {holder}
    <2>1. UNCHANGED <<deletion, busy, retired>>
        BY <1>7 DEF Drop
    <2>2. \A d \in Contexts : handles'[d] = {} <=> handles[d] = {}
        BY <1>1, <1>7
    <2>3. LifeTypeOK'
        BY <1>1, <2>1 DEF LifeIInv, LifeTypeOK
    <2>4. HandleInv'
        BY <1>4, <1>5, <2>1, <2>2 DEF LifeIInv, HandleInv
    <2>5. BusyInv'
        BY <2>1, BusyKept DEF LifeIInv
    <2>6. ExitInv'
        BY <2>1, <2>2, SameStacks, JoinedAreWorkers DEF LifeIInv, ExitInv, JoinedIsIdle
    <2>7. ReaperInv'
        BY <1>2, <2>1 DEF LifeIInv, ReaperInv, ReaperDrains
    <2> QED BY <2>3, <2>4, <2>5, <2>6, <2>7 DEF LifeIInv
<1>8. CASE handles[c] = {holder} /\ t \in Workforce(c)
    <2>1. /\ retired' = Append(retired, c) /\ busy' = busy
          /\ deletion' = [deletion EXCEPT ![c] = "queued"]
        BY <1>8 DEF Drop, DeleteOn
    <2>2. handles'[c] = {} /\ retired \in Seq(Contexts)
        BY <1>1, <1>8 DEF LifeIInv, LifeTypeOK
    <2>3. /\ retired' \in Seq(Contexts)
          /\ DOMAIN retired = 1 .. Len(retired) /\ DOMAIN retired' = 1 .. Len(retired) + 1
          /\ Len(retired) \in Nat
          /\ \A i \in DOMAIN retired : retired'[i] = retired[i]
          /\ retired'[Len(retired) + 1] = c
        BY <2>1, <2>2, AppendProperties, LenProperties
    <2>4. LifeTypeOK'
        BY <1>1, <2>1, <2>3 DEF LifeIInv, LifeTypeOK
    <2>5. HandleInv'
        BY <1>1, <1>4, <1>5, <2>1, <2>2 DEF LifeIInv, LifeTypeOK, HandleInv
    <2>6. BusyInv'
        BY <1>2, <2>1, BusyKept DEF LifeIInv, LifeTypeOK
    <2>7. ExitInv'
        BY <1>6, <2>1, SameStacks, JoinedAreWorkers DEF LifeIInv, ExitInv, JoinedIsIdle
    <2>8. ReaperInv'
        <3>1. \A i, k \in DOMAIN retired' : i # k => retired'[i] # retired'[k]
            BY <1>3, <2>3 DEF LifeIInv, ReaperInv, ReaperDrains
        <3>2. ASSUME NEW d \in Contexts
              PROVE  deletion'[d] = "queued" <=> \E i \in DOMAIN retired' : retired'[i] = d
            <4>1. CASE d = c
                <5>1. Len(retired) + 1 \in DOMAIN retired'
                    BY <2>3
                <5>2. deletion'[d] = "queued"
                    BY <2>1, <4>1 DEF LifeIInv, LifeTypeOK
                <5> QED BY <2>3, <4>1, <5>1, <5>2
            <4>2. CASE d # c
                <5>1. (\E i \in DOMAIN retired' : retired'[i] = d)
                        <=> \E i \in DOMAIN retired : retired[i] = d
                    BY <2>3, <4>2
                <5> QED BY <2>1, <4>2, <5>1 DEF LifeIInv, LifeTypeOK, ReaperInv, ReaperDrains
            <4> QED BY <4>1, <4>2
        <3> QED BY <1>2, <3>1, <3>2 DEF ReaperInv, ReaperDrains
    <2> QED BY <2>4, <2>5, <2>6, <2>7, <2>8 DEF LifeIInv
<1>9. CASE handles[c] = {holder} /\ t \notin Workforce(c)
    <2>1. /\ Push(t, c) /\ retired' = retired
          /\ deletion' = [deletion EXCEPT ![c] = "agent"]
        BY <1>9 DEF Drop, DeleteOn
    <2>2. handles'[c] = {} /\ t \notin Workers(c)
        BY <1>1, <1>9
    <2>3. /\ busy' \in [Threads -> Seq(Jobs \cup Contexts)]
          /\ \A u \in Threads : Once(u)'
          /\ \A u \in Threads : \A x : On(u, x)' <=> On(u, x) \/ (u = t /\ x = c)
          /\ \A u \in exited : Idle(u)' <=> Idle(u)
        BY <1>3, <2>1, <2>2, BeginKeeps
    <2>4. LifeTypeOK'
        BY <1>1, <2>1, <2>3 DEF LifeIInv, LifeTypeOK
    <2>5. HandleInv'
        BY <1>1, <1>4, <1>5, <2>1, <2>2 DEF LifeIInv, LifeTypeOK, HandleInv
    <2>6. BusyInv'
        BY <1>3, <2>1, <2>2, <2>3, JobThread DEF LifeIInv, LifeTypeOK, BusyInv
    <2>7. ExitInv'
        BY <1>6, <2>1, <2>3 DEF LifeIInv, ExitInv, JoinedIsIdle
    <2>8. ReaperInv'
        BY <1>2, <1>3, <2>1 DEF LifeIInv, LifeTypeOK, ReaperInv, ReaperDrains
    <2> QED BY <2>4, <2>5, <2>6, <2>7, <2>8 DEF LifeIInv
<1> QED BY <1>7, <1>8, <1>9

LEMMA DropPublicKeeps ==
    ASSUME LifeIInv, NEW c \in Contexts, DropPublic(c)
    PROVE  LifeIInv'
    BY DropKeeps, ThreadsApart, JoinedAreWorkers DEF DropPublic

LEMMA DropHandleKeeps ==
    ASSUME LifeIInv, NEW j \in Jobs, NEW c \in Contexts, DropHandle(j, c)
    PROVE  LifeIInv'
<1>1. /\ Runs(ThreadOf[j], j) /\ j \in handles[c] /\ Drop(ThreadOf[j], c, j)
      /\ UNCHANGED <<built, job, reaper, exited>>
    BY DEF DropHandle
<1>2. ThreadOf[j] \in Threads /\ j # "public"
    BY JobThread
<1>3. job[j] = "running"
    BY <1>1, <1>2, IdleRunsNothing DEF LifeIInv, BusyInv
<1>4. ThreadOf[j] \notin exited
    BY <1>3 DEF LifeIInv, ExitInv, JoinedIsIdle
<1>5. built[c] = "ready"
    BY <1>1, <1>2 DEF LifeIInv, HandleInv
<1>6. Workforce(c) = Workers(c)
    BY <1>5 DEF Workforce, Workers
<1> QED BY <1>1, <1>2, <1>3, <1>4, <1>6, DropKeeps

-----------------------------------------------------------------------------
(* Theorems *)

LEMMA LifeInvariant == LifeSpec => []LifeIInv
<1>1. LifeInit => LifeIInv
    <2> SUFFICES ASSUME LifeInit PROVE LifeIInv
        OBVIOUS
    <2>1. LifeTypeOK
        BY DEF LifeInit, LifeTypeOK
    <2>2. HandleInv
        BY DEF LifeInit, HandleInv
    <2>3. BusyInv
        BY JobThread DEF LifeInit, BusyInv, Once, On
    <2>4. ExitInv /\ ReaperInv
        BY DEF LifeInit, ExitInv, JoinedIsIdle, ReaperInv, ReaperDrains
    <2> QED BY <2>1, <2>2, <2>3, <2>4 DEF LifeIInv
<1>2. LifeIInv /\ [LifeNext]_lifeVars => LifeIInv'
    <2>1. ASSUME LifeIInv, LifeNext PROVE LifeIInv'
        BY <2>1, BuildKeeps, DropPublicKeeps, PostKeeps, RunKeeps, DropHandleKeeps, ReturnKeeps,
           JoinKeeps, DestroyKeeps, TakeKeeps, ReaperKeeps
        DEF LifeNext, JobStep, DeleteStep
    <2>2. ASSUME LifeIInv, UNCHANGED lifeVars PROVE LifeIInv'
        <3>1. UNCHANGED <<built, handles, job, busy, deletion, retired, reaper, exited>>
            BY <2>2 DEF lifeVars
        <3>2. LifeTypeOK' /\ HandleInv'
            BY <2>2, <3>1 DEF LifeIInv, LifeTypeOK, HandleInv
        <3>3. BusyInv'
            BY <2>2, <3>1, BusyKept DEF LifeIInv
        <3>4. ExitInv' /\ ReaperInv'
            BY <2>2, <3>1 DEF LifeIInv, ExitInv, JoinedIsIdle, ReaperInv, ReaperDrains, Idle
        <3> QED BY <3>2, <3>3, <3>4 DEF LifeIInv
    <2> QED BY <2>1, <2>2
<1> QED BY <1>1, <1>2, PTL DEF LifeSpec

\* make_context_state's deleter and the reaper: wherever the last handle of a
\* context is dropped, no thread of the context deletes it, nobody else does
\* so too, its workers are idle for good when they are joined, and the reaper
\* forgets none.
THEOREM DeletionIsSafe == LifeSpec => []DeletionSafe
<1>1. LifeIInv => DeletedFromOutside
    BY DEF LifeIInv, BusyInv, HandleInv, DeletedFromOutside, Deleting, On
<1>2. LifeIInv => JoinedIsIdle /\ ReaperDrains
    BY DEF LifeIInv, ExitInv, ReaperInv
<1> QED BY <1>1, <1>2, LifeInvariant, PTL DEF DeletionSafe

-----------------------------------------------------------------------------
(* How a context is created *)

Requirements ==
    [api : Versions, props2 : BOOLEAN, exts : SUBSET Capabilities, optExts : SUBSET Capabilities,
     feats : SUBSET Capabilities, optFeats : SUBSET Capabilities]

RequirementsOK(req) ==
    /\ req \in Requirements
    /\ \A f \in req.feats : req.api >= PromotedIn[f] \/ f \in req.exts
    /\ req.optFeats \subseteq {Untyped}
    /\ Untyped \in req.optFeats => Untyped \in req.optExts

CreationTypes ==
    /\ creation \in {"ask", "instance", "device", "queues", "loaded", "ready", "refused", "aborted"}
    /\ origin \in {"headless", "surface", "adopted"}
    /\ loader \in BOOLEAN
    /\ blamed \in {"nobody", "instance", "device", "queues", "commands"}
    /\ caps = [api |-> caps.api, has |-> caps.has]

\* What became of the requirements, and of the device.
NeedsInv ==
    Owned /\ creation # "ask" =>
        /\ needs = OptionalSync2(asked, ResolveVersion(asked), loader)
        /\ caps.api = ResolveVersion(asked)

HasDevice == creation \in {"device", "queues", "loaded", "ready"}

DeviceInv ==
    /\ HasDevice => backend = SelectBackend(caps.has, caps.api)
    /\ Owned /\ HasDevice =>
        /\ gpu \in Gpus /\ Suitable(gpu, needs, caps.api)
        /\ caps.has = EnabledCaps(gpu, needs, caps.api)
        /\ enabled = [api |-> caps.api, feats |-> caps.has, exts |-> EnabledExts(gpu, needs)]

QueuesInv ==
    /\ creation \in {"queues", "loaded", "ready"} =>
        \A r \in Roles : queueOfRole[r] # "none" /\ familyOfRole[r] = FamilyOfQueue[queueOfRole[r]]
    /\ creation = "ready" => known = {queueOfRole[r] : r \in Roles} \ {"none"}

CommandsInv ==
    creation \in {"loaded", "ready"} =>
        /\ backend # "legacy" => backend \in CommandsOf(enabled)
        /\ commands = IF backend = "legacy" THEN "none" ELSE backend

BlamedInv ==
    creation \in {"refused", "aborted"} /\ Owned =>
        /\ blamed # "commands"
        /\ blamed = "instance" => needs.props2 /\ ~ loader
        /\ blamed = "device" => ~ Suitable(gpu, needs, caps.api)

CreationIInv ==
    /\ CreationTypes /\ RequirementsOK(asked)
    /\ NeedsInv /\ DeviceInv /\ QueuesInv /\ CommandsInv /\ BlamedInv

-----------------------------------------------------------------------------
\* What the constants are.
LEMMA NamesDiffer ==
    /\ Sync2 \in Capabilities /\ Untyped \in Capabilities /\ Address \in Capabilities
    /\ Sync2 # Untyped
    /\ MaxApi \in Nat /\ \A api \in Versions : api \in Nat /\ api <= MaxApi
    /\ \A f \in Capabilities : PromotedIn[f] \in Nat
    /\ PromotedIn[Untyped] > MaxApi
    /\ 0 \in Versions
<1>1. /\ Sync2 \in Capabilities /\ Untyped \in Capabilities /\ Address \in Capabilities
      /\ \A f \in Capabilities : PromotedIn[f] \in Nat
    BY CreationAssumption
<1>2. MaxApi \in Nat /\ (\A api \in Versions : api \in Nat /\ api <= MaxApi) /\ 0 \in Versions
    BY CreationAssumption DEF Versions
<1> QED BY <1>1, <1>2, LibraryAssumption DEF Sync2, Untyped

\* What a caller configures keeps its requirements complete.
LEMMA FeatureAsked ==
    ASSUME NEW req, RequirementsOK(req), NEW f \in Capabilities
    PROVE  /\ RequirementsOK(WithFeature(req, f))
           /\ WithFeature(req, f).api = req.api
BY NamesDiffer DEF RequirementsOK, Requirements, WithFeature, AtLeast

\* The empty requirements are well formed.
LEMMA NothingAskedOK == RequirementsOK(NothingAsked)
BY NamesDiffer DEF RequirementsOK, Requirements, NothingAsked

\* Whatever is asked for next keeps them so.
LEMMA AskedOK ==
    ASSUME RequirementsOK(asked), Ask
    PROVE  RequirementsOK(asked')
<1>1. ASSUME NEW api \in Versions, api > asked.api, asked' = [asked EXCEPT !.api = api]
      PROVE  RequirementsOK(asked')
    BY <1>1, NamesDiffer DEF RequirementsOK, Requirements
<1>2. ASSUME NEW f \in Capabilities, asked' = WithFeature(asked, f)
      PROVE  RequirementsOK(asked')
    BY <1>2, FeatureAsked
<1>3. ASSUME asked' = WithSync2(asked) PROVE RequirementsOK(asked')
    <2>1. PICK req : req = WithFeature(asked, Sync2)
        OBVIOUS
    <2>2. RequirementsOK(req)
        BY <2>1, FeatureAsked, NamesDiffer
    <2>3. asked' = req \/ asked' = [req EXCEPT !.props2 = TRUE]
        BY <1>3, <2>1 DEF WithSync2
    <2> QED BY <2>2, <2>3 DEF RequirementsOK, Requirements
<1>4. ASSUME asked' = WithHeap(asked) PROVE RequirementsOK(asked')
    <2>1. PICK req : req = WithFeature(asked, Address)
        OBVIOUS
    <2>2. RequirementsOK(req)
        BY <2>1, FeatureAsked, NamesDiffer
    <2>3. asked' = [req EXCEPT !.optExts = @ \cup {Untyped}, !.optFeats = @ \cup {Untyped}]
        BY <1>4, <2>1 DEF WithHeap
    <2> QED BY <2>2, <2>3, NamesDiffer DEF RequirementsOK, Requirements
<1>5. ASSUME \/ asked' = [asked EXCEPT !.exts = @ \cup {Sync2}]
             \/ asked' = [asked EXCEPT !.optExts = @ \cup {Sync2}]
      PROVE  RequirementsOK(asked')
    BY <1>5, NamesDiffer DEF RequirementsOK, Requirements
<1> QED BY <1>1, <1>2, <1>3, <1>4, <1>5 DEF Ask

\* The version asked for is not below the library's own minimum.
LEMMA ResolvedVersion ==
    ASSUME NEW req, RequirementsOK(req)
    PROVE  ResolveVersion(req) \in Versions /\ ResolveVersion(req) = req.api
BY CreationAssumption, LibraryAssumption, NamesDiffer DEF RequirementsOK, Requirements, ResolveVersion, Versions

\* The two halves of an option: each adds one name and leaves the rest alone.
LEMMA FeatureOption ==
    ASSUME NEW req \in Requirements
    PROVE  LET new == OptionalFeature(req) IN
           /\ new \in Requirements
           /\ new.exts = req.exts /\ new.feats = req.feats /\ new.optExts = req.optExts
           /\ new.props2 = req.props2
           /\ new.optFeats \subseteq req.optFeats \cup {Sync2}
           /\ Sync2 \in new.feats \cup new.optFeats
BY NamesDiffer DEF Requirements, OptionalFeature, FeatureRequested

\* The other half: the extension.
LEMMA ExtensionOption ==
    ASSUME NEW req \in Requirements
    PROVE  LET new == OptionalExtension(req) IN
           /\ new \in Requirements
           /\ new.exts = req.exts /\ new.feats = req.feats /\ new.optFeats = req.optFeats
           /\ new.props2 = req.props2
           /\ req.optExts \subseteq new.optExts
           /\ Sync2 \in new.exts \cup new.optExts
BY NamesDiffer DEF Requirements, OptionalExtension

\* The library adds synchronization2 as an option, asks for the extension of
\* the instance only where the loader has it, and leaves the rest alone.
OptionOf(req, api, has, new) ==
    /\ new \in Requirements
    /\ new.exts = req.exts /\ new.feats = req.feats
    /\ new.optFeats \subseteq {Untyped, Sync2}
    /\ Untyped \in new.optFeats => Untyped \in new.optExts
    /\ new.props2 => req.props2 \/ has
    /\ api >= PromotedIn[Sync2] => Sync2 \in new.feats \cup new.optFeats
    /\ api >= 1 \/ has =>
         /\ Sync2 \in new.feats \cup new.optFeats
         /\ api < PromotedIn[Sync2] => Sync2 \in new.exts \cup new.optExts

\* So OptionalSync2 adds synchronization2 where it can be had, and nothing
\* else.
LEMMA OptionAdded ==
    ASSUME NEW req, RequirementsOK(req), NEW has \in BOOLEAN, NEW api \in Versions
    PROVE  OptionOf(req, api, has, OptionalSync2(req, api, has))
<1> DEFINE new == OptionalSync2(req, api, has)
<1>0. /\ req \in Requirements /\ req.optFeats \subseteq {Untyped}
      /\ Untyped \in req.optFeats => Untyped \in req.optExts
      /\ api \in Nat /\ PromotedIn[Sync2] \in Nat
    BY NamesDiffer DEF RequirementsOK
<1>1. CASE api >= PromotedIn[Sync2]
    <2>1. new = OptionalFeature(req)
        BY <1>1 DEF OptionalSync2
    <2> HIDE DEF new
    <2>2. OptionOf(req, api, has, new)
        BY <1>0, <1>1, <2>1, FeatureOption, NamesDiffer DEF OptionOf
    <2> QED BY <2>2 DEF new
<1>2. CASE ~ (api >= PromotedIn[Sync2]) /\ (api >= 1 \/ req.props2)
    <2>1. PICK ext : ext = OptionalExtension(req)
        OBVIOUS
    <2>2. new = OptionalFeature(ext)
        BY <1>2, <2>1 DEF OptionalSync2
    <2> HIDE DEF new
    <2>3. /\ ext \in Requirements
          /\ ext.exts = req.exts /\ ext.feats = req.feats /\ ext.optFeats = req.optFeats
          /\ ext.props2 = req.props2
          /\ req.optExts \subseteq ext.optExts
          /\ Sync2 \in ext.exts \cup ext.optExts
        BY <1>0, <2>1, ExtensionOption
    <2>4. OptionOf(req, api, has, new)
        BY <1>0, <2>2, <2>3, FeatureOption, NamesDiffer DEF OptionOf
    <2> QED BY <2>4 DEF new
<1>3. CASE ~ (api >= PromotedIn[Sync2]) /\ ~ (api >= 1 \/ req.props2) /\ ~ has
    <2>1. new = req
        BY <1>3 DEF OptionalSync2
    <2> HIDE DEF new
    <2>2. OptionOf(req, api, has, new)
        BY <1>0, <1>3, <2>1, NamesDiffer DEF OptionOf
    <2> QED BY <2>2 DEF new
<1>4. CASE ~ (api >= PromotedIn[Sync2]) /\ ~ (api >= 1 \/ req.props2) /\ has
    <2>1. PICK instance : instance = [req EXCEPT !.props2 = TRUE]
        OBVIOUS
    <2>2. /\ instance \in Requirements
          /\ instance.exts = req.exts /\ instance.feats = req.feats
          /\ instance.optFeats = req.optFeats /\ instance.optExts = req.optExts
        BY <1>0, <2>1 DEF Requirements
    <2>3. PICK ext : ext = OptionalExtension(instance)
        OBVIOUS
    <2>4. new = OptionalFeature(ext)
        BY <1>4, <2>1, <2>3 DEF OptionalSync2
    <2> HIDE DEF new
    <2>5. /\ ext \in Requirements
          /\ ext.exts = req.exts /\ ext.feats = req.feats /\ ext.optFeats = req.optFeats
          /\ req.optExts \subseteq ext.optExts
          /\ Sync2 \in ext.exts \cup ext.optExts
        BY <2>2, <2>3, ExtensionOption
    <2>6. OptionOf(req, api, has, new)
        BY <1>0, <1>4, <2>4, <2>5, FeatureOption, NamesDiffer DEF OptionOf
    <2> QED BY <2>6 DEF new
<1> QED BY <1>1, <1>2, <1>3, <1>4

\* Of a suitable device every capability is enabled with what it needs, and
\* synchronization2 whenever the device has it.
LEMMA CapabilityUsable ==
    ASSUME NEW req, RequirementsOK(req), NEW has, NEW new, OptionOf(req, req.api, has, new),
           NEW d \in Gpus, NEW f \in EnabledCaps(d, new, req.api)
    PROVE  req.api >= PromotedIn[f] \/ f \in EnabledExts(d, new)
<1>0. /\ new.exts = req.exts /\ new.feats = req.feats /\ new.optFeats \subseteq {Untyped, Sync2}
      /\ Untyped \in new.optFeats => Untyped \in new.optExts
      /\ new \in Requirements /\ req \in Requirements
    BY DEF OptionOf, RequirementsOK
<1>1. CASE f \in req.feats
    BY <1>0, <1>1 DEF RequirementsOK, EnabledExts
<1>2. CASE f \notin req.feats /\ f = Sync2
    <2>1. req.api < PromotedIn[Sync2] => Sync2 \in EnabledExts(d, new)
        BY <1>0, <1>2 DEF EnabledCaps, EnablesFeature
    <2>2. req.api \in Nat /\ PromotedIn[Sync2] \in Nat
        BY <1>0, NamesDiffer DEF Requirements
    <2> QED BY <1>2, <2>1, <2>2
<1>3. CASE f \notin req.feats /\ f = Untyped
    <2>1. Untyped \in new.optExts /\ Untyped \in d.feats
        BY <1>0, <1>3 DEF EnabledCaps, EnablesFeature
    <2>2. d.api \in Versions /\ (Untyped \in d.feats \ d.exts => PromotedIn[Untyped] <= d.api)
        BY DEF Gpus
    <2>3. Untyped \in d.exts
        BY <2>1, <2>2, NamesDiffer
    <2> QED BY <1>3, <2>1, <2>3 DEF EnabledExts
<1>4. f \in req.feats \/ f = Sync2 \/ f = Untyped
    BY <1>0 DEF EnabledCaps
<1> QED BY <1>1, <1>2, <1>3, <1>4

\* A device with the option enabled has the capability, as a feature or as an
\* extension.
LEMMA Sync2Enabled ==
    ASSUME NEW req, RequirementsOK(req), NEW has, NEW new, OptionOf(req, req.api, has, new),
           NEW d, Sync2 \in d.feats,
           req.api >= PromotedIn[Sync2] \/ Sync2 \in d.exts,
           req.api >= 1 \/ has
    PROVE  Sync2 \in EnabledCaps(d, new, req.api)
<1>1. Sync2 \in new.feats \cup new.optFeats
    BY DEF OptionOf
<1>2. EnablesFeature(d, new, req.api, Sync2)
    <2>1. req.api \in Nat /\ PromotedIn[Sync2] \in Nat
        BY NamesDiffer DEF RequirementsOK, Requirements
    <2>2. req.api < PromotedIn[Sync2] => Sync2 \in EnabledExts(d, new)
        BY <2>1 DEF OptionOf, EnabledExts
    <2> QED BY <2>2 DEF EnablesFeature
<1> QED BY <1>1, <1>2 DEF EnabledCaps

-----------------------------------------------------------------------------
(* The steps *)

\* Nothing is asked for yet.
LEMMA CreationInitial == CreationInit => CreationIInv
<1> SUFFICES ASSUME CreationInit PROVE CreationIInv
    OBVIOUS
<1> USE DEF CreationInit
<1>1. CreationTypes
    BY DEF CreationTypes
<1>2. RequirementsOK(asked)
    BY NothingAskedOK
<1>3. NeedsInv /\ DeviceInv /\ QueuesInv /\ CommandsInv /\ BlamedInv
    BY DEF NeedsInv, DeviceInv, HasDevice, QueuesInv, CommandsInv, BlamedInv
<1> QED BY <1>1, <1>2, <1>3 DEF CreationIInv

\* One more requirement.
LEMMA AskKeeps ==
    ASSUME CreationIInv, Ask
    PROVE  CreationIInv'
<1>1. /\ creation = "ask" /\ creation' = "ask" /\ origin' = origin /\ loader' = loader
      /\ blamed' = blamed /\ caps' = caps
    BY DEF Ask, asking
<1>2. RequirementsOK(asked')
    BY AskedOK DEF CreationIInv
<1>3. CreationTypes'
    BY <1>1 DEF CreationIInv, CreationTypes
<1>4. (NeedsInv /\ DeviceInv /\ QueuesInv /\ CommandsInv /\ BlamedInv)'
    BY <1>1 DEF NeedsInv, DeviceInv, HasDevice, QueuesInv, CommandsInv, BlamedInv, Owned
<1> QED BY <1>2, <1>3, <1>4 DEF CreationIInv

\* The instance is made, for the caller's requirements and the option; or is
\* blamed.
LEMMA BuildInstanceKeeps ==
    ASSUME CreationIInv, BuildInstance
    PROVE  CreationIInv'
<1> USE DEF BuildInstance
<1>1. CreationTypes'
    BY DEF CreationIInv, CreationTypes
<1>2. RequirementsOK(asked)'
    BY DEF CreationIInv
<1>3. NeedsInv'
    BY DEF NeedsInv
<1>4. DeviceInv' /\ QueuesInv' /\ CommandsInv'
    BY DEF DeviceInv, HasDevice, QueuesInv, CommandsInv
<1>5. BlamedInv'
    BY DEF BlamedInv
<1> QED BY <1>1, <1>2, <1>3, <1>4, <1>5 DEF CreationIInv

\* A device that meets the requirements is chosen, with its options.
LEMMA SelectDeviceKeeps ==
    ASSUME CreationIInv, SelectDevice
    PROVE  CreationIInv'
<1> USE DEF SelectDevice
<1>0. /\ caps'.api = caps.api /\ needs' = needs /\ asked' = asked /\ loader' = loader
      /\ origin' = origin /\ creation = "instance" /\ creation' \in {"device", "refused"}
      /\ caps' = [api |-> caps'.api, has |-> caps'.has]
    BY DEF CreationIInv, CreationTypes
<1>1. CreationTypes'
    BY <1>0 DEF CreationIInv, CreationTypes
<1>2. RequirementsOK(asked)'
    BY DEF CreationIInv
<1>3. NeedsInv'
    BY <1>0 DEF CreationIInv, NeedsInv, Owned
<1>4. DeviceInv'
    <2>1. CASE creation' = "device"
        <3>1. /\ gpu' \in Gpus /\ Suitable(gpu', needs, caps.api)
              /\ caps' = [caps EXCEPT !.has = EnabledCaps(gpu', needs, caps.api)]
              /\ enabled' = [api |-> caps.api, feats |-> EnabledCaps(gpu', needs, caps.api),
                             exts |-> EnabledExts(gpu', needs)]
              /\ backend' = SelectBackend(EnabledCaps(gpu', needs, caps.api), caps.api)
            BY <2>1
        <3>2. caps'.has = EnabledCaps(gpu', needs, caps.api)
            BY <3>1 DEF CreationIInv, CreationTypes
        <3> HIDE DEF SelectDevice
        <3> QED BY <1>0, <3>1, <3>2 DEF DeviceInv
    <2>2. CASE creation' = "refused"
        BY <2>2 DEF DeviceInv, HasDevice
    <2> QED BY <1>0, <2>1, <2>2
<1>5. QueuesInv' /\ CommandsInv'
    BY DEF QueuesInv, CommandsInv
<1>6. BlamedInv'
    BY DEF BlamedInv
<1> QED BY <1>1, <1>2, <1>3, <1>4, <1>5, <1>6 DEF CreationIInv

\* Every role has a queue, or the queues are blamed.
LEMMA FetchQueuesKeeps ==
    ASSUME CreationIInv, FetchQueues
    PROVE  CreationIInv'
<1> USE DEF FetchQueues
<1>1. CreationTypes'
    BY DEF CreationIInv, CreationTypes
<1>2. RequirementsOK(asked)'
    BY DEF CreationIInv
<1>3. NeedsInv'
    BY DEF CreationIInv, NeedsInv, Owned
<1>4. DeviceInv'
    BY DEF CreationIInv, DeviceInv, HasDevice, Owned
<1>5. QueuesInv'
    BY DEF QueuesInv, Families
<1>6. CommandsInv' /\ BlamedInv'
    BY DEF CommandsInv, BlamedInv
<1> QED BY <1>1, <1>2, <1>3, <1>4, <1>5, <1>6 DEF CreationIInv

\* An adopted device comes with what its owner enabled.
LEMMA AdoptDeviceKeeps ==
    ASSUME CreationIInv, AdoptDevice
    PROVE  CreationIInv'
<1> USE DEF AdoptDevice
<1>1. CreationTypes'
    BY DEF CreationIInv, CreationTypes
<1>2. RequirementsOK(asked)'
    BY DEF CreationIInv
<1>3. NeedsInv' /\ BlamedInv' /\ CommandsInv'
    BY DEF NeedsInv, BlamedInv, Owned, CommandsInv
<1>4. DeviceInv'
    BY DEF DeviceInv, HasDevice, Owned
<1>5. QueuesInv'
    BY DEF QueuesInv, Families, AdoptedQueues, Roles
<1> QED BY <1>1, <1>2, <1>3, <1>4, <1>5 DEF CreationIInv

\* What an own device was asked for.
LEMMA OwnOption ==
    ASSUME CreationIInv, Owned, creation # "ask"
    PROVE  /\ OptionOf(asked, asked.api, loader, needs)
           /\ caps.api = asked.api /\ caps.api \in Nat
<1>1. /\ RequirementsOK(asked) /\ loader \in BOOLEAN
      /\ needs = OptionalSync2(asked, ResolveVersion(asked), loader)
      /\ caps.api = ResolveVersion(asked)
    BY DEF CreationIInv, NeedsInv, CreationTypes
<1>2. ResolveVersion(asked) = asked.api /\ asked.api \in Versions
    BY <1>1, ResolvedVersion
<1> QED BY <1>1, <1>2, OptionAdded, NamesDiffer

\* An own device has the commands of its back end.
LEMMA OwnCommands ==
    ASSUME CreationIInv, Owned, HasDevice
    PROVE  backend = "legacy" \/ backend \in CommandsOf(enabled)
<1>1. /\ backend = SelectBackend(caps.has, caps.api) /\ gpu \in Gpus
      /\ caps.has = EnabledCaps(gpu, needs, caps.api)
      /\ enabled = [api |-> caps.api, feats |-> caps.has, exts |-> EnabledExts(gpu, needs)]
      /\ RequirementsOK(asked)
    BY DEF CreationIInv, DeviceInv
<1>2. OptionOf(asked, asked.api, loader, needs) /\ caps.api = asked.api
    BY OwnOption DEF HasDevice
<1>3. CASE Sync2 \in caps.has /\ ~ (caps.api >= PromotedIn[Sync2])
    <2>1. Sync2 \in EnabledExts(gpu, needs)
        BY <1>1, <1>2, <1>3, CapabilityUsable
    <2> QED BY <1>1, <1>3, <2>1 DEF SelectBackend, CommandsOf
<1> QED BY <1>1, <1>3 DEF SelectBackend, CommandsOf

\* The commands are loaded, or the missing ones are blamed.
LEMMA LoadProcsKeeps ==
    ASSUME CreationIInv, LoadProcs
    PROVE  CreationIInv'
<1>0. Owned => backend = "legacy" \/ backend \in CommandsOf(enabled)
    BY OwnCommands DEF LoadProcs, HasDevice
<1> USE DEF LoadProcs
<1>1. CreationTypes'
    BY DEF CreationIInv, CreationTypes
<1>2. RequirementsOK(asked)'
    BY DEF CreationIInv
<1>3. NeedsInv' /\ DeviceInv'
    BY DEF CreationIInv, NeedsInv, DeviceInv, HasDevice, Owned
<1>4. QueuesInv'
    BY DEF CreationIInv, QueuesInv
<1>5. CommandsInv'
    BY DEF CommandsInv
<1>6. BlamedInv'
    BY <1>0 DEF BlamedInv, Owned
<1> QED BY <1>1, <1>2, <1>3, <1>4, <1>5, <1>6 DEF CreationIInv

\* The context is ready.
LEMMA RegisterQueuesKeeps ==
    ASSUME CreationIInv, RegisterQueues
    PROVE  CreationIInv'
<1> USE DEF RegisterQueues
<1>1. CreationTypes' /\ RequirementsOK(asked)'
    BY DEF CreationIInv, CreationTypes
<1>2. NeedsInv' /\ DeviceInv'
    BY DEF CreationIInv, NeedsInv, DeviceInv, HasDevice, Owned
<1>3. QueuesInv' /\ CommandsInv' /\ BlamedInv'
    BY DEF CreationIInv, QueuesInv, CommandsInv, BlamedInv
<1> QED BY <1>1, <1>2, <1>3 DEF CreationIInv

\* Every step keeps the invariant.
LEMMA CreationStep ==
    ASSUME CreationIInv, [CreationNext]_creationVars
    PROVE  CreationIInv'
<1>1. CASE UNCHANGED creationVars
    BY <1>1 DEF creationVars, CreationIInv, CreationTypes, NeedsInv, DeviceInv, HasDevice, QueuesInv,
       CommandsInv, BlamedInv, Owned
<1>2. CASE CreationNext
    BY <1>2, AskKeeps, BuildInstanceKeeps, SelectDeviceKeeps, FetchQueuesKeeps, AdoptDeviceKeeps,
       LoadProcsKeeps, RegisterQueuesKeeps DEF CreationNext
<1> QED BY <1>1, <1>2

\* The property is what the phases of creation leave behind.
LEMMA CreationImplies == CreationIInv => CreationHonest
<1> SUFFICES ASSUME CreationIInv PROVE CreationHonest
    OBVIOUS
<1>0. ASSUME creation = "ready", Owned
      PROVE  /\ backend = SelectBackend(caps.has, caps.api) /\ gpu \in Gpus
             /\ Suitable(gpu, needs, caps.api)
             /\ caps.has = EnabledCaps(gpu, needs, caps.api)
             /\ enabled = [api |-> caps.api, feats |-> caps.has, exts |-> EnabledExts(gpu, needs)]
             /\ RequirementsOK(asked)
             /\ OptionOf(asked, asked.api, loader, needs) /\ caps.api = asked.api
    BY <1>0, OwnOption DEF CreationIInv, DeviceInv, HasDevice
<1>1. CapabilitiesUsable
    <2> SUFFICES ASSUME creation = "ready", Owned, NEW f \in caps.has
                 PROVE  f \in enabled.feats /\ (enabled.api >= PromotedIn[f] \/ f \in enabled.exts)
        BY DEF CapabilitiesUsable
    <2>1. f \in EnabledCaps(gpu, needs, asked.api)
        BY <1>0
    <2>2. asked.api >= PromotedIn[f] \/ f \in EnabledExts(gpu, needs)
        BY <1>0, <2>1, CapabilityUsable
    <2>3. enabled.feats = caps.has /\ enabled.api = asked.api /\ enabled.exts = EnabledExts(gpu, needs)
        BY <1>0
    <2> QED BY <2>2, <2>3
<1>2. Sync2Used
    <2> SUFFICES ASSUME creation = "ready", Owned, Sync2 \in gpu.feats,
                        caps.api >= PromotedIn[Sync2] \/ Sync2 \in gpu.exts,
                        caps.api >= 1 \/ loader
                 PROVE  backend # "legacy" /\ commands = backend
        BY DEF Sync2Used
    <2>1. Sync2 \in caps.has
        BY <1>0, Sync2Enabled
    <2>2. backend # "legacy"
        BY <1>0, <2>1 DEF SelectBackend
    <2> QED BY <2>2 DEF CreationIInv, CommandsInv
<1>3. RefusedForOwnNeeds
    <2> SUFFICES ASSUME creation \in {"refused", "aborted"}, Owned
                 PROVE  /\ blamed # "commands"
                        /\ blamed = "instance" => asked.props2
                        /\ blamed = "device" => ~ Suitable(gpu, asked, asked.api)
        BY DEF RefusedForOwnNeeds
    <2>1. /\ blamed # "commands"
          /\ blamed = "instance" => needs.props2 /\ ~ loader
          /\ blamed = "device" => ~ Suitable(gpu, needs, caps.api)
        BY DEF CreationIInv, BlamedInv
    <2>2. OptionOf(asked, asked.api, loader, needs) /\ caps.api = asked.api
        BY OwnOption
    <2> QED BY <2>1, <2>2 DEF OptionOf, Suitable
<1>4. NeedsKept
    BY <1>0 DEF NeedsKept, OptionOf, EnabledExts, EnabledCaps
<1>5. QueuesKnown /\ CommandsThere
    BY DEF CreationIInv, QueuesInv, CommandsInv, QueuesKnown, CommandsThere
<1> QED BY <1>1, <1>2, <1>3, <1>4, <1>5 DEF CreationHonest

\* However a context is created: capabilities are reported only when they
\* were enabled and their names exist, synchronization2 is used where the
\* device has it, no context is refused for the sake of an option, no
\* requirement is weakened, and every queue has its family and its lock.
THEOREM CreationIsHonest == CreationSpec => []CreationHonest
<1>1. CreationIInv /\ [CreationNext]_creationVars => CreationIInv'
    BY CreationStep
<1> QED BY <1>1, CreationInitial, CreationImplies, PTL DEF CreationSpec
=============================================================================
