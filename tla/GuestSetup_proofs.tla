------------------------- MODULE GuestSetup_proofs --------------------------
(***************************************************************************)
(* A uc-go-peer guest is configured once and acknowledges what it runs,    *)
(* and a guest of either profile keeps its types, for any number of        *)
(* requests, configurations, failures and reboots; and Discovery finds     *)
(* what was published, for every set of writers and options and any number *)
(* of posts and pages.                                                     *)
(***************************************************************************)
EXTENDS GuestSetup, Discovery, FiniteSetTheorems, FunctionTheorems,
        WellFoundedInduction, TLAPS

Pcs == {"loop", "idle", "acquire", "write", "touch", "start", "report", "signal", "ended", "died"}

(* A thread is in the configure script, or reports on it; or before the    *)
(* script has written the environment; or before it marks the guest ready; *)
(* or after.                                                               *)
Configuring(t) == thread[t].pc \in {"write", "touch", "start", "report", "signal"}
Unready(t) == thread[t].pc \in {"write", "touch"}
Written(t) == thread[t].pc \in {"touch", "start", "report", "signal"}
Applied(t) == thread[t].pc \in {"start", "report", "signal"}

Typed ==
    /\ thread \in [Threads -> [pc: Pcs, cfg: Configs \cup {None}]]
    /\ record \in Configs \cup {None}
    /\ ready \in BOOLEAN
    /\ refresh = [pc |-> refresh.pc, env |-> refresh.env]

LockHeld == \A t \in Threads : Configuring(t) => lock = t

(* The guest is ready from the one time on that the script says so.        *)
ReadyOnce ==
    /\ applied = IF ready THEN 1 ELSE 0
    /\ \A t \in Threads : (Unready(t) => ~ready) /\ (Applied(t) => ready)
    /\ refresh.pc \in {"waiting", "restart", "finish"} => ready

(* The environment is that of the thread that wrote it, and then of the    *)
(* relay.                                                                  *)
OneEnvironment ==
    /\ \A t \in Threads : Written(t) => env.cfg = thread[t].cfg
    /\ ready \/ (\E t \in Threads : Written(t))
         => env = [cfg |-> env.cfg, announce |-> env.announce]
    /\ relay # None => ready /\ relay.cfg = env.cfg
    /\ \A s \in signals : ready /\ s.cfg = env.cfg

UcInv == Typed /\ LockHeld /\ ReadyOnce /\ OneEnvironment

IInv == profile = "uc-go-peer" => UcInv

-----------------------------------------------------------------------------
LEMMA ProfileStays == ASSUME [Next]_vars PROVE profile' = profile
<1>1. CASE UNCHANGED vars
  BY <1>1 DEF vars
<1>2. CASE Poll \/ Signals \/ GenerateMetadata \/ StopService \/ Zoned \/ \E k \in Certificates : Certified(k)
  BY <1>2 DEF Poll, Signals, GenerateMetadata, StopService, Zoned, Certified
<1>3. CASE \E t \in Threads : Configure(t)
  BY <1>3 DEF Configure, Acquire, ScriptWrites, ScriptTouches, ScriptStarts, Reports
<1>4. CASE Refresh
  BY <1>4 DEF Refresh, RefreshStarts, TimerFires, RefreshWrites, RefreshRestarts, RefreshFinishes
<1>5. CASE Deployer
  BY <1>5 DEF Deployer, PublishRecord, Post, Await, GetMetadata
<1>6. CASE Faults
  BY <1>6 DEF Faults, ScriptFails, PollDies, SignalFails, RefreshFails, Reboot
<1>7. QED
  BY <1>1, <1>2, <1>3, <1>4, <1>5, <1>6 DEF Next

LEMMA InitInv == Init => IInv
<1> SUFFICES ASSUME Init PROVE UcInv
  BY DEF IInv
<1>1. Typed
  BY DEF Init, Typed, Pcs
<1>2. \A t \in Threads : ~Configuring(t)
  BY DEF Init, Configuring
<1>3. LockHeld /\ ReadyOnce
  BY <1>2 DEF Init, LockHeld, ReadyOnce, Configuring, Unready, Applied
<1>4. OneEnvironment
  BY <1>2 DEF Init, OneEnvironment, Configuring, Written
<1>5. QED
  BY <1>1, <1>3, <1>4 DEF UcInv

(* Steps that move a thread between labels outside the script, or none.    *)
LEMMA OutsideSteps ==
  ASSUME UcInv, Typed', UNCHANGED <<ready, applied, env, relay, signals>>,
         \A t \in Threads : thread'[t] = thread[t] \/ ~Configuring(t)',
         \A t \in Threads : lock = t => lock' = t \/ ~Configuring(t)',
         refresh'.pc \in {"waiting", "restart", "finish"} => ready
  PROVE  UcInv'
<1>1. LockHeld'
  BY DEF UcInv, LockHeld, Configuring
<1>2. ReadyOnce'
  BY DEF UcInv, ReadyOnce, Configuring, Unready, Applied
<1>3. OneEnvironment'
  BY DEF UcInv, OneEnvironment, Configuring, Written
<1>4. QED
  BY <1>1, <1>2, <1>3 DEF UcInv

(* Steps that touch neither the threads nor what the guest is configured   *)
(* with.                                                                   *)
LEMMA IdleSteps ==
  ASSUME UcInv,
         UNCHANGED <<ready, applied, env, relay, signals, thread, lock, refresh>>,
         record' \in Configs \cup {None}
  PROVE  UcInv'
<1>1. Typed'
  BY DEF UcInv, Typed
<1>2. QED
  BY <1>1, OutsideSteps DEF UcInv, ReadyOnce

LEMMA Moved ==
  ASSUME Typed, NEW t \in Threads, NEW label \in Pcs, thread' = goes(t, label)
  PROVE  /\ thread' \in [Threads -> [pc: Pcs, cfg: Configs \cup {None}]]
         /\ thread'[t].pc = label /\ thread'[t].cfg = thread[t].cfg
         /\ \A u \in Threads \ {t} : thread'[u] = thread[u]
BY DEF Typed, goes

LEMMA LockIsSomeones == None \notin Threads
BY GuestAssumption

-----------------------------------------------------------------------------
(* The setup server *)

LEMMA PollStep ==
  ASSUME UcInv, Poll PROVE UcInv'
<1> DEFINE t == "poll"
<1>0. t \in Threads
  BY DEF Threads
<1>1. CASE thread' = goes(t, "ended")
  <2>1. /\ thread' \in [Threads -> [pc: Pcs, cfg: Configs \cup {None}]]
        /\ thread'[t].pc = "ended"
        /\ \A u \in Threads \ {t} : thread'[u] = thread[u]
    BY <1>0, <1>1, Moved DEF UcInv, Pcs
  <2>2. Typed'
    BY <2>1 DEF UcInv, Typed, Poll, deployVars, fileVars
  <2>3. QED
    BY <2>1, <2>2, OutsideSteps DEF UcInv, ReadyOnce, Poll, deployVars, fileVars, relayVars, Configuring
<1>2. CASE thread' = [thread EXCEPT ![t] = [pc |-> "acquire", cfg |-> record]]
  <2>1. /\ thread' \in [Threads -> [pc: Pcs, cfg: Configs \cup {None}]]
        /\ thread'[t].pc = "acquire"
        /\ \A u \in Threads \ {t} : thread'[u] = thread[u]
    BY <1>0, <1>2 DEF UcInv, Typed, Pcs
  <2>2. Typed'
    BY <2>1 DEF UcInv, Typed, Poll, deployVars, fileVars
  <2>3. QED
    BY <2>1, <2>2, OutsideSteps DEF UcInv, ReadyOnce, Poll, deployVars, fileVars, relayVars, Configuring
<1>3. QED
  BY <1>1, <1>2 DEF Poll

LEMMA PollDiesStep ==
  ASSUME UcInv, PollDies PROVE UcInv'
<1>0. "poll" \in Threads /\ thread' = goes("poll", "died")
  BY DEF PollDies, Threads
<1>1. /\ thread' \in [Threads -> [pc: Pcs, cfg: Configs \cup {None}]]
      /\ thread'["poll"].pc = "died"
      /\ \A u \in Threads \ {"poll"} : thread'[u] = thread[u]
  BY <1>0, Moved DEF UcInv, Pcs
<1>2. Typed'
  BY <1>1 DEF UcInv, Typed, PollDies, deployVars, fileVars
<1>3. QED
  BY <1>1, <1>2, OutsideSteps DEF UcInv, ReadyOnce, PollDies, deployVars, fileVars, relayVars, Configuring

LEMMA PostStep ==
  ASSUME UcInv, profile = "uc-go-peer", NEW t \in Requests, NEW cfg \in Configs, Post(t, cfg)
  PROVE  UcInv'
<1>0. t \in Threads
  BY DEF Threads
<1>1. /\ thread' \in [Threads -> [pc: Pcs, cfg: Configs \cup {None}]]
      /\ thread'[t].pc \in {"ended", "acquire"}
      /\ \A u \in Threads \ {t} : thread'[u] = thread[u]
  BY <1>0 DEF UcInv, Typed, Post, Pcs, ucPosted
<1>2. Typed'
  BY <1>1 DEF UcInv, Typed, Post, deployVars, fileVars
<1>3. QED
  BY <1>1, <1>2, OutsideSteps DEF UcInv, ReadyOnce, Post, deployVars, fileVars, relayVars, Configuring

LEMMA AcquireStep ==
  ASSUME UcInv, NEW t \in Threads, Acquire(t)
  PROVE  UcInv'
<1>0. /\ UNCHANGED <<ready, applied, env, relay, signals, record, refresh>>
      /\ thread[t].pc = "acquire" /\ lock = None
  BY DEF Acquire, at, deployVars, fileVars, relayVars
<1>1. CASE thread' = goes(t, "ended") /\ lock' = lock
  <2>1. /\ thread' \in [Threads -> [pc: Pcs, cfg: Configs \cup {None}]]
        /\ thread'[t].pc = "ended"
        /\ \A u \in Threads \ {t} : thread'[u] = thread[u]
    BY <1>1, Moved DEF UcInv, Pcs
  <2>2. Typed'
    BY <1>0, <2>1 DEF UcInv, Typed
  <2>3. QED
    BY <1>0, <1>1, <2>1, <2>2, OutsideSteps DEF UcInv, ReadyOnce, Configuring
<1>2. CASE ~ready /\ thread' = goes(t, "write") /\ lock' = t
  <2>1. /\ thread' \in [Threads -> [pc: Pcs, cfg: Configs \cup {None}]]
        /\ thread'[t].pc = "write"
        /\ \A u \in Threads \ {t} : thread'[u] = thread[u]
    BY <1>2, Moved DEF UcInv, Pcs
  <2>2. Typed'
    BY <1>0, <2>1 DEF UcInv, Typed
  <2>3. \A u \in Threads : ~Configuring(u)
    BY <1>0, LockIsSomeones DEF UcInv, LockHeld
  <2>4. \A u \in Threads \ {t} : ~Configuring(u)' /\ ~Unready(u)' /\ ~Applied(u)' /\ ~Written(u)'
    BY <2>1, <2>3 DEF Configuring, Unready, Applied, Written
  <2>5. LockHeld'
    BY <1>2, <2>4 DEF LockHeld
  <2>6. ReadyOnce'
    BY <1>0, <1>2, <2>1, <2>4 DEF UcInv, ReadyOnce, Applied
  <2>7. OneEnvironment'
    BY <1>0, <1>2, <2>1, <2>4 DEF UcInv, OneEnvironment, Written
  <2>8. QED
    BY <2>2, <2>5, <2>6, <2>7 DEF UcInv
<1>3. QED
  BY <1>1, <1>2 DEF Acquire

LEMMA OnlyOne ==
  ASSUME LockHeld, NEW t \in Threads, Configuring(t)
  PROVE  lock = t /\ \A u \in Threads \ {t} : ~Configuring(u)
BY DEF LockHeld

LEMMA ScriptWritesStep ==
  ASSUME UcInv, NEW t \in Threads, ScriptWrites(t)
  PROVE  UcInv'
<1>1. /\ UNCHANGED <<ready, applied, relay, signals, record, refresh, lock>>
      /\ thread[t].pc = "write" /\ thread' = goes(t, "touch")
  BY DEF ScriptWrites, at, deployVars, relayVars
<1>2. /\ thread' \in [Threads -> [pc: Pcs, cfg: Configs \cup {None}]]
      /\ thread'[t].pc = "touch" /\ thread'[t].cfg = thread[t].cfg
      /\ \A u \in Threads \ {t} : thread'[u] = thread[u]
  BY <1>1, Moved DEF UcInv, Pcs
<1>3. ~ready /\ lock = t /\ \A u \in Threads \ {t} : ~Configuring(u)
  BY <1>1, OnlyOne DEF UcInv, ReadyOnce, Unready, Configuring
<1>4. \A u \in Threads \ {t} : ~Configuring(u)' /\ ~Unready(u)' /\ ~Applied(u)' /\ ~Written(u)'
  BY <1>2, <1>3 DEF Configuring, Unready, Applied, Written
<1>5. env'.cfg = thread[t].cfg /\ env' = [cfg |-> env'.cfg, announce |-> env'.announce]
  BY DEF ScriptWrites
<1>6. Typed'
  BY <1>1, <1>2 DEF UcInv, Typed
<1>7. LockHeld'
  BY <1>1, <1>3, <1>4 DEF LockHeld
<1>8. ReadyOnce'
  BY <1>1, <1>2, <1>3, <1>4 DEF UcInv, ReadyOnce, Applied, Unready
<1>9. OneEnvironment'
  BY <1>1, <1>2, <1>3, <1>4, <1>5 DEF UcInv, OneEnvironment, Written
<1>10. QED
  BY <1>6, <1>7, <1>8, <1>9 DEF UcInv

LEMMA ScriptTouchesStep ==
  ASSUME UcInv, NEW t \in Threads, ScriptTouches(t)
  PROVE  UcInv'
<1>1. /\ UNCHANGED <<env, relay, signals, record, refresh, lock>>
      /\ ready' = TRUE /\ applied' = applied + 1
      /\ thread[t].pc = "touch" /\ thread' = goes(t, "start")
  BY DEF ScriptTouches, at, deployVars, relayVars
<1>2. /\ thread' \in [Threads -> [pc: Pcs, cfg: Configs \cup {None}]]
      /\ thread'[t].pc = "start" /\ thread'[t].cfg = thread[t].cfg
      /\ \A u \in Threads \ {t} : thread'[u] = thread[u]
  BY <1>1, Moved DEF UcInv, Pcs
<1>3. ~ready /\ lock = t /\ \A u \in Threads \ {t} : ~Configuring(u)
  BY <1>1, OnlyOne DEF UcInv, ReadyOnce, Unready, Configuring
<1>4. \A u \in Threads \ {t} : ~Configuring(u)' /\ ~Unready(u)' /\ ~Applied(u)' /\ ~Written(u)'
  BY <1>2, <1>3 DEF Configuring, Unready, Applied, Written
<1>5. Written(t) /\ Written(t)'
  BY <1>1, <1>2 DEF Written
<1>6. Typed'
  BY <1>1, <1>2 DEF UcInv, Typed
<1>7. LockHeld'
  BY <1>1, <1>3, <1>4 DEF LockHeld
<1>8. ReadyOnce'
  <2>1. applied' = 1
    BY <1>1, <1>3 DEF UcInv, ReadyOnce
  <2>2. QED
    BY <1>1, <1>2, <1>4, <2>1 DEF UcInv, ReadyOnce, Applied, Unready
<1>9. OneEnvironment'
  BY <1>1, <1>2, <1>3, <1>4, <1>5 DEF UcInv, OneEnvironment
<1>10. QED
  BY <1>6, <1>7, <1>8, <1>9 DEF UcInv

LEMMA ScriptStartsStep ==
  ASSUME UcInv, NEW t \in Threads, ScriptStarts(t)
  PROVE  UcInv'
<1>1. /\ UNCHANGED <<env, ready, applied, signals, record, lock>>
      /\ thread[t].pc = "start" /\ thread' = goes(t, "report")
      /\ relay' \in {relay, env}
      /\ refresh' \in {refresh, [pc |-> "due", env |-> None]}
  BY DEF ScriptStarts, at, deployVars, fileVars, relayVars
<1>2. /\ thread' \in [Threads -> [pc: Pcs, cfg: Configs \cup {None}]]
      /\ thread'[t].pc = "report" /\ thread'[t].cfg = thread[t].cfg
      /\ \A u \in Threads \ {t} : thread'[u] = thread[u]
  BY <1>1, Moved DEF UcInv, Pcs
<1>3. ready /\ lock = t /\ \A u \in Threads \ {t} : ~Configuring(u)
  BY <1>1, OnlyOne DEF UcInv, ReadyOnce, Applied, Configuring
<1>4. \A u \in Threads \ {t} : ~Configuring(u)' /\ ~Unready(u)' /\ ~Applied(u)' /\ ~Written(u)'
  BY <1>2, <1>3 DEF Configuring, Unready, Applied, Written
<1>5. Written(t) /\ Written(t)'
  BY <1>1, <1>2 DEF Written
<1>6. Typed'
  BY <1>1, <1>2 DEF UcInv, Typed
<1>7. LockHeld'
  BY <1>1, <1>3, <1>4 DEF LockHeld
<1>8. ReadyOnce'
  BY <1>1, <1>2, <1>3, <1>4 DEF UcInv, ReadyOnce, Unready
<1>9. OneEnvironment'
  BY <1>1, <1>2, <1>3, <1>4, <1>5 DEF UcInv, OneEnvironment
<1>10. QED
  BY <1>6, <1>7, <1>8, <1>9 DEF UcInv

(* A request leaves the script, the poll thread goes on to the signal.     *)
LEMMA ReportsStep ==
  ASSUME UcInv, profile = "uc-go-peer", NEW t \in Threads, Reports(t)
  PROVE  UcInv'
<1>1. /\ UNCHANGED <<env, ready, applied, relay, signals, record, refresh>>
      /\ thread[t].pc = "report"
  BY DEF Reports, at, deployVars, fileVars, relayVars
<1>2. PICK label \in {"signal", "ended"} :
        thread' = goes(t, label) /\ (label = "signal" => lock' = lock)
  BY DEF Reports
<1>3. /\ thread' \in [Threads -> [pc: Pcs, cfg: Configs \cup {None}]]
      /\ thread'[t].pc = label /\ thread'[t].cfg = thread[t].cfg
      /\ \A u \in Threads \ {t} : thread'[u] = thread[u]
  BY <1>2, Moved DEF UcInv, Pcs
<1>4. ready /\ lock = t /\ \A u \in Threads \ {t} : ~Configuring(u)
  BY <1>1, OnlyOne DEF UcInv, ReadyOnce, Applied, Configuring
<1>5. \A u \in Threads \ {t} : ~Configuring(u)' /\ ~Unready(u)' /\ ~Applied(u)' /\ ~Written(u)'
  BY <1>3, <1>4 DEF Configuring, Unready, Applied, Written
<1>6. Written(t) /\ (Configuring(t)' => lock' = t) /\ ~Unready(t)'
  BY <1>1, <1>2, <1>3, <1>4 DEF Written, Configuring, Unready
<1>7. Typed'
  BY <1>1, <1>3 DEF UcInv, Typed
<1>8. LockHeld'
  BY <1>5, <1>6 DEF LockHeld
<1>9. ReadyOnce'
  BY <1>1, <1>4, <1>5, <1>6 DEF UcInv, ReadyOnce
<1>10. OneEnvironment'
  BY <1>1, <1>3, <1>4, <1>5, <1>6 DEF UcInv, OneEnvironment
<1>11. QED
  BY <1>7, <1>8, <1>9, <1>10 DEF UcInv

(* Leaving the script, after it or out of it.                              *)
LEMMA LeavesStep ==
  ASSUME UcInv, NEW t \in Threads, Configuring(t), NEW label \in {"loop", "ended"},
         thread' = goes(t, label),
         UNCHANGED <<env, ready, applied, relay, record, refresh>>,
         \A s \in signals' : s \in signals \/ (Applied(t) /\ s.cfg = thread[t].cfg)
  PROVE  UcInv'
<1>1. /\ thread' \in [Threads -> [pc: Pcs, cfg: Configs \cup {None}]]
      /\ thread'[t].pc = label
      /\ \A u \in Threads \ {t} : thread'[u] = thread[u]
  BY Moved DEF UcInv, Pcs
<1>2. \A u \in Threads \ {t} : ~Configuring(u)
  BY OnlyOne DEF UcInv
<1>3. \A u \in Threads : ~Configuring(u)' /\ ~Unready(u)' /\ ~Applied(u)' /\ ~Written(u)'
  BY <1>1, <1>2 DEF Configuring, Unready, Applied, Written
<1>4. Typed'
  BY <1>1 DEF UcInv, Typed
<1>5. LockHeld'
  BY <1>3 DEF LockHeld
<1>6. ReadyOnce'
  BY <1>3 DEF UcInv, ReadyOnce
<1>7. Applied(t) => ready /\ env.cfg = thread[t].cfg
  BY DEF UcInv, ReadyOnce, OneEnvironment, Applied, Written
<1>8. \A s \in signals' : ready /\ s.cfg = env.cfg
  BY <1>7 DEF UcInv, OneEnvironment
<1>9. OneEnvironment'
  BY <1>3, <1>8 DEF UcInv, OneEnvironment
<1>10. QED
  BY <1>4, <1>5, <1>6, <1>9 DEF UcInv

LEMMA SignalsStep ==
  ASSUME UcInv, Signals \/ SignalFails PROVE UcInv'
<1>1. /\ "poll" \in Threads /\ thread["poll"].pc = "signal"
      /\ UNCHANGED <<env, ready, applied, relay, record, refresh>>
  BY DEF Signals, SignalFails, at, fileVars, relayVars, Threads
<1>2. PICK label \in {"loop", "ended"} : thread' = goes("poll", label)
  BY DEF Signals, SignalFails, Fails
<1>3. \A s \in signals' : s \in signals \/ s.cfg = thread["poll"].cfg
  BY DEF Signals, SignalFails, signalOf
<1>4. Configuring("poll") /\ Applied("poll")
  BY <1>1 DEF Configuring, Applied
<1>5. QED
  BY <1>1, <1>2, <1>3, <1>4, LeavesStep

LEMMA ScriptFailsStep ==
  ASSUME UcInv, NEW t \in Threads, ScriptFails(t)
  PROVE  UcInv'
<1>1. /\ thread[t].pc \in {"write", "start"}
      /\ UNCHANGED <<env, ready, applied, relay, record, refresh, signals>>
  BY DEF ScriptFails, at, deployVars, fileVars, relayVars
<1>2. PICK label \in {"loop", "ended"} : thread' = goes(t, label)
  BY DEF ScriptFails, Fails
<1>3. QED
  BY <1>1, <1>2, LeavesStep DEF Configuring

-----------------------------------------------------------------------------
(* The service stops, the guest reboots *)

LEMMA EndedSteps ==
  ASSUME UcInv, UNCHANGED <<env, ready, applied, record, signals>>,
         thread' \in [Threads -> [pc: Pcs, cfg: Configs \cup {None}]],
         \A t \in Threads : ~Configuring(t)',
         relay' # None => ready /\ relay' \in {relay, env},
         refresh' = [pc |-> refresh'.pc, env |-> refresh'.env],
         refresh'.pc \in {"waiting", "restart", "finish"} => ready
  PROVE  UcInv'
<1>1. \A u \in Threads : ~Unready(u)' /\ ~Applied(u)' /\ ~Written(u)'
  BY DEF Configuring, Unready, Applied, Written
<1>2. Typed'
  BY DEF UcInv, Typed
<1>3. LockHeld'
  BY DEF LockHeld
<1>4. ReadyOnce'
  BY <1>1 DEF UcInv, ReadyOnce
<1>5. OneEnvironment'
  BY <1>1 DEF UcInv, OneEnvironment
<1>6. QED
  BY <1>2, <1>3, <1>4, <1>5 DEF UcInv

LEMMA StopServiceStep ==
  ASSUME UcInv, StopService PROVE UcInv'
<1>1. thread' \in [Threads -> [pc: Pcs, cfg: Configs \cup {None}]]
  BY DEF UcInv, Typed, StopService, Pcs
<1>2. \A t \in Threads : ~Configuring(t)'
  BY DEF UcInv, Typed, StopService, Configuring
<1>3. UNCHANGED <<env, ready, applied, record, signals, relay, refresh>>
  BY DEF StopService, deployVars, fileVars, relayVars
<1>4. QED
  BY <1>1, <1>2, <1>3, EndedSteps DEF UcInv, Typed, ReadyOnce, OneEnvironment

LEMMA RebootStep ==
  ASSUME UcInv, Reboot PROVE UcInv'
<1>1. /\ thread' \in [Threads -> [pc: Pcs, cfg: Configs \cup {None}]]
      /\ \A t \in Threads : thread'[t].pc \in {"loop", "idle", "ended"}
  BY DEF UcInv, Typed, Reboot, Pcs
<1>2. \A t \in Threads : ~Configuring(t)'
  BY <1>1 DEF Configuring
<1>3. UNCHANGED <<env, ready, applied, record, signals>>
  BY DEF Reboot, deployVars, fileVars
<1>4. /\ relay' # None => ready /\ relay' \in {relay, env}
      /\ refresh' = [pc |-> refresh'.pc, env |-> refresh'.env]
      /\ refresh'.pc \in {"waiting", "restart", "finish"} => ready
  BY DEF Reboot
<1>5. QED
  BY <1>1, <1>2, <1>3, <1>4, EndedSteps

-----------------------------------------------------------------------------
(* The AutoTLS refresh unit and the surroundings *)

LEMMA RefreshSteps ==
  ASSUME UcInv, UNCHANGED <<ready, applied, record, signals, thread, lock>>,
         env' = env \/ (ready /\ \E new : env' = [env EXCEPT !.announce = new]),
         relay' = relay \/ (ready /\ relay' = env /\ env' = env),
         refresh' = [pc |-> refresh'.pc, env |-> refresh'.env],
         refresh'.pc \in {"waiting", "restart", "finish"} => ready
  PROVE  UcInv'
<1>1. Typed' /\ LockHeld' /\ ReadyOnce'
  BY DEF UcInv, Typed, LockHeld, ReadyOnce, Configuring, Unready, Applied
<1>2. ready \/ (\E t \in Threads : Written(t))
        => env'.cfg = env.cfg /\ env' = [cfg |-> env'.cfg, announce |-> env'.announce]
  BY DEF UcInv, OneEnvironment
<1>3. (\E t \in Threads : Written(t)') <=> \E t \in Threads : Written(t)
  BY DEF Written
<1>4. OneEnvironment'
  <2>1. \A t \in Threads : Written(t)' => env'.cfg = thread'[t].cfg
    BY <1>2 DEF UcInv, OneEnvironment, Written
  <2>2. relay' # None => ready' /\ relay'.cfg = env'.cfg
    BY <1>2 DEF UcInv, OneEnvironment
  <2>3. \A s \in signals' : ready' /\ s.cfg = env'.cfg
    BY <1>2 DEF UcInv, OneEnvironment
  <2>4. QED
    BY <1>2, <1>3, <2>1, <2>2, <2>3 DEF OneEnvironment
<1>5. QED
  BY <1>1, <1>4 DEF UcInv

LEMMA RefreshStep ==
  ASSUME UcInv, Refresh \/ RefreshFails PROVE UcInv'
<1>0. refresh.pc \in {"waiting", "restart", "finish"} => ready
  BY DEF UcInv, ReadyOnce
<1>1. UNCHANGED <<ready, applied, record, signals, thread, lock>>
  BY DEF Refresh, RefreshStarts, TimerFires, RefreshWrites, RefreshRestarts,
         RefreshFinishes, RefreshFails, deployVars, fileVars, serverVars
<1>2. env' = env \/ (ready /\ \E new : env' = [env EXCEPT !.announce = new])
  BY <1>0 DEF Refresh, RefreshStarts, TimerFires, RefreshWrites, RefreshRestarts,
         RefreshFinishes, RefreshFails, fileVars
<1>3. relay' = relay \/ (ready /\ relay' = env /\ env' = env)
  BY <1>0 DEF Refresh, RefreshStarts, TimerFires, RefreshWrites, RefreshRestarts,
         RefreshFinishes, RefreshFails, relayVars, fileVars
<1>4. /\ refresh' = [pc |-> refresh'.pc, env |-> refresh'.env]
      /\ refresh'.pc \in {"waiting", "restart", "finish"} => ready
  BY <1>0 DEF UcInv, Typed, Refresh, RefreshStarts, TimerFires, RefreshWrites,
         RefreshRestarts, RefreshFinishes, RefreshFails
<1>5. QED
  BY <1>1, <1>2, <1>3, <1>4, RefreshSteps

LEMMA DeployerStep ==
  ASSUME UcInv, profile = "uc-go-peer", Deployer PROVE UcInv'
<1>1. CASE Await \/ GetMetadata \/ \E cfg \in Configs : PublishRecord(cfg)
  <2>1. /\ UNCHANGED <<ready, applied, env, relay, signals, thread, lock, refresh>>
        /\ record' \in Configs \cup {None}
    BY <1>1 DEF UcInv, Typed, Await, GetMetadata, PublishRecord, fileVars, relayVars, serverVars
  <2>2. QED
    BY <2>1, IdleSteps
<1>2. CASE \E cfg \in Configs : \E r \in Requests : Post(r, cfg)
  BY <1>2, PostStep
<1>3. QED
  BY <1>1, <1>2 DEF Deployer

LEMMA SurroundingsStep ==
  ASSUME UcInv, GenerateMetadata \/ Zoned \/ \E k \in Certificates : Certified(k)
  PROVE  UcInv'
<1>1. /\ UNCHANGED <<ready, applied, env, relay, signals, thread, lock, refresh>>
      /\ record' \in Configs \cup {None}
  BY DEF UcInv, Typed, GenerateMetadata, Zoned, Certified, deployVars, fileVars, relayVars, serverVars
<1>2. QED
  BY <1>1, IdleSteps

-----------------------------------------------------------------------------
(* The invariant of a guest of uc-go-peer is an invariant.                 *)
THEOREM Invariance == Spec => []IInv
<1>1. ASSUME IInv, [Next]_vars PROVE IInv'
  <2> SUFFICES ASSUME profile = "uc-go-peer" PROVE UcInv'
    BY <1>1, ProfileStays DEF IInv
  <2>0. UcInv
    BY <1>1 DEF IInv
  <2>1. CASE UNCHANGED vars
    <3>1. /\ UNCHANGED <<ready, applied, env, relay, signals, thread, lock, refresh>>
          /\ record' = record
      BY <2>1 DEF vars, deployVars, fileVars, relayVars, serverVars
    <3>2. QED
      BY <2>0, <3>1, IdleSteps DEF UcInv, Typed
  <2>2. CASE Poll
    BY <2>0, <2>2, PollStep
  <2>3. CASE Signals
    BY <2>0, <2>3, SignalsStep
  <2>4. CASE GenerateMetadata \/ Zoned \/ \E k \in Certificates : Certified(k)
    BY <2>0, <2>4, SurroundingsStep
  <2>5. CASE StopService
    BY <2>0, <2>5, StopServiceStep
  <2>6. CASE \E t \in Threads : Configure(t)
    BY <2>0, <2>6, AcquireStep, ScriptWritesStep, ScriptTouchesStep, ScriptStartsStep,
       ReportsStep DEF Configure
  <2>7. CASE Refresh
    BY <2>0, <2>7, RefreshStep
  <2>8. CASE Deployer
    BY <2>0, <2>8, DeployerStep
  <2>9. CASE Faults
    BY <2>0, <2>9, PollDiesStep, ScriptFailsStep, SignalsStep, RefreshStep, RebootStep DEF Faults
  <2>10. QED
    BY <1>1, <2>1, <2>2, <2>3, <2>4, <2>5, <2>6, <2>7, <2>8, <2>9 DEF Next
<1>2. QED
  BY <1>1, InitInv, PTL DEF Spec

(* A guest of uc-go-peer is configured once, however many requests arrive, *)
(* whatever fails and however often it reboots: the lock is held from the  *)
(* check of READY_FILE to the signal (_run_configure_process).             *)
THEOREM ConfiguredOnce == Spec => []OneConfiguration
<1>1. IInv => OneConfiguration
  BY DEF IInv, UcInv, ReadyOnce, OneConfiguration
<1>2. QED
  BY <1>1, Invariance, PTL

(* What a guest of uc-go-peer acknowledges is what its relay runs with,    *)
(* from then on.                                                           *)
THEOREM AcknowledgedApplied == Spec => []AcknowledgedIsApplied
<1>1. IInv => AcknowledgedIsApplied
  BY DEF IInv, UcInv, OneEnvironment, AcknowledgedIsApplied
<1>2. QED
  BY <1>1, Invariance, PTL

-----------------------------------------------------------------------------
(* The types of a guest of either profile                                  *)

ThreadType == [pc: Pcs, cfg: Configs \cup {None}]

(* A thread that has a configuration to apply, has written the             *)
(* environment, and has marked the guest ready.                            *)
ThreadsFit ==
    /\ thread \in [Threads -> ThreadType]
    /\ \A t \in Threads : thread[t].pc \notin {"loop", "idle", "ended", "died"} => thread[t].cfg \in Configs
    /\ \A t \in Threads : thread[t].pc \in {"touch", "start", "report", "signal"} => env # None
    /\ \A t \in Threads : thread[t].pc \in {"start", "report", "signal"} => ready

LockFits ==
    /\ lock \in Threads \cup {None}
    /\ lock # None => Configuring(lock)

EnvironmentFits ==
    /\ env \in EnvType \cup {None} /\ relay \in EnvType \cup {None}
    /\ ready \in BOOLEAN
    /\ ready => env # None
    /\ relay # None => ready
    /\ refresh = [pc |-> refresh.pc, env |-> refresh.env]
    /\ refresh.pc \in {"off", "due", "waiting", "restart", "finish"}
    /\ refresh.pc = "waiting" => refresh.env \in EnvType
    /\ refresh.pc \in {"waiting", "restart", "finish"} => ready

DeployerFits ==
    /\ profile \in Profiles /\ handoff \in {"push", "pull", "both"}
    /\ record \in Configs \cup {None}
    /\ deployer \in [pc: {"wait", "heard", "gaveup"}, attempts: 0..MaxAttempts]
    /\ deployer.pc = "wait" => deployer.attempts < MaxAttempts

(* Threads that may yet have the metadata generated: each does it once, as *)
(* the guest is ready by then.                                             *)
MayReport ==
    {t \in Threads : \/ thread[t].pc \in {"idle", "write", "touch", "start", "report"}
                     \/ thread[t].pc \in {"loop", "acquire"} /\ ~ready}

GeneratingFits ==
    /\ generating \in Nat
    /\ generating + Cardinality(MayReport) <= Cardinality(Threads)

GuestTyped ==
    ThreadsFit /\ LockFits /\ EnvironmentFits /\ DeployerFits /\ GeneratingFits

LEMMA ThreadsFinite ==
    /\ IsFiniteSet(Threads) /\ Cardinality(Threads) \in Nat
    /\ \A S \in SUBSET Threads : /\ IsFiniteSet(S) /\ Cardinality(S) \in Nat
                                 /\ Cardinality(S) <= Cardinality(Threads)
<1>1. IsFiniteSet(Threads)
  <2>1. IsFiniteSet(Requests \cup {"poll"})
    BY GuestAssumption, FS_AddElement
  <2>2. Threads = Requests \cup {"poll"}
    BY DEF Threads
  <2>3. QED
    BY <2>1, <2>2
<1>2. QED
  BY <1>1, FS_Subset, FS_CardinalityType

(* A thread moves on, and none comes back to what it has done.             *)
LEMMA ThreadMoves ==
    ASSUME GuestTyped, NEW t \in Threads, NEW new \in ThreadType,
           thread' = [thread EXCEPT ![t] = new],
           new.pc \notin {"loop", "idle", "ended", "died"} => new.cfg \in Configs,
           new.pc \in {"touch", "start", "report", "signal"} => env' # None,
           new.pc \in {"start", "report", "signal"} => ready',
           \/ new.pc \in {"ended", "died", "signal"}
           \/ ready' /\ new.pc \in {"loop", "acquire"}
           \/ t \in MayReport,
           env # None => env' # None, ready => ready'
    PROVE  /\ ThreadsFit'
           /\ MayReport' \subseteq MayReport
           /\ new.pc \in {"ended", "died", "signal"} => t \notin MayReport'
           /\ thread'[t] = new /\ \A u \in Threads \ {t} : thread'[u] = thread[u]
<1>1. thread' \in [Threads -> ThreadType] /\ thread'[t] = new /\ \A u \in Threads \ {t} : thread'[u] = thread[u]
  BY DEF GuestTyped, ThreadsFit
<1>2. ThreadsFit'
  BY <1>1 DEF GuestTyped, ThreadsFit
<1>3. ASSUME NEW u \in MayReport' PROVE u \in MayReport
  BY <1>1, <1>3 DEF MayReport
<1>4. QED
  BY <1>1, <1>2, <1>3 DEF MayReport

LEMMA ThreadGoes ==
    ASSUME GuestTyped, NEW t \in Threads, NEW label \in Pcs, thread' = goes(t, label)
    PROVE  \E new \in ThreadType :
              /\ new.pc = label /\ new.cfg = thread[t].cfg
              /\ thread' = [thread EXCEPT ![t] = new]
<1> DEFINE new == [pc |-> label, cfg |-> thread[t].cfg]
<1>1. thread[t] \in ThreadType
  BY DEF GuestTyped, ThreadsFit
<1>2. new \in ThreadType
  BY <1>1 DEF ThreadType
<1>3. [thread[t] EXCEPT !.pc = label] = new
  BY <1>1 DEF ThreadType
<1>4. thread' = [thread EXCEPT ![t] = new]
  BY <1>3 DEF goes
<1>5. QED
  BY <1>2, <1>4

LEMMA GeneratingStays ==
    ASSUME GuestTyped, generating' \in Nat,
           MayReport' \subseteq MayReport,
           \/ generating' <= generating
           \/ generating' = generating + 1 /\ \E t \in MayReport : t \notin MayReport'
    PROVE  GeneratingFits'
<1>1. PICK A, B : A = MayReport /\ B = MayReport'
  OBVIOUS
<1>2. A \in SUBSET Threads /\ B \in SUBSET A
  BY <1>1 DEF MayReport
<1>3. /\ IsFiniteSet(A) /\ Cardinality(A) \in Nat /\ Cardinality(B) \in Nat
      /\ Cardinality(Threads) \in Nat
  BY <1>2, ThreadsFinite
<1>4. Cardinality(B) <= Cardinality(A)
  BY <1>2, <1>3, FS_Subset
<1>5. ASSUME NEW t \in A, t \notin B PROVE Cardinality(B) + 1 <= Cardinality(A)
  <2>1. B \cup {t} \in SUBSET A /\ IsFiniteSet(B)
    BY <1>2, <1>3, <1>5, FS_Subset
  <2>2. Cardinality(B \cup {t}) = Cardinality(B) + 1
    BY <1>5, <2>1, FS_AddElement
  <2>3. Cardinality(B \cup {t}) <= Cardinality(A)
    BY <1>3, <2>1, FS_Subset
  <2>4. QED
    BY <2>2, <2>3
<1>6. generating + Cardinality(A) <= Cardinality(Threads) /\ generating \in Nat
  BY <1>1 DEF GuestTyped, GeneratingFits
<1>7. generating' + Cardinality(B) <= Cardinality(Threads)
  BY <1>1, <1>3, <1>4, <1>5, <1>6
<1>8. QED
  BY <1>1, <1>7 DEF GeneratingFits

(* What a step of one thread owes the rest of the invariant.               *)
LEMMA ThreadSteps ==
    ASSUME GuestTyped, NEW t \in Threads, NEW new \in ThreadType,
           thread' = [thread EXCEPT ![t] = new],
           new.pc \notin {"loop", "idle", "ended", "died"} => new.cfg \in Configs,
           new.pc \in {"touch", "start", "report", "signal"} => env' # None,
           new.pc \in {"start", "report", "signal"} => ready',
           \/ new.pc \in {"ended", "died", "signal"}
           \/ ready' /\ new.pc \in {"loop", "acquire"}
           \/ t \in MayReport,
           env # None => env' # None, ready => ready',
           EnvironmentFits', UNCHANGED <<profile, handoff, record, deployer>>,
           \/ lock' = lock /\ lock # t
           \/ lock' = released(t)
           \/ lock' \in {lock, t} /\ new.pc \in {"write", "touch", "start", "report", "signal"},
           \/ generating' = generating
           \/ /\ generating' = generating + 1
              /\ t \in MayReport /\ new.pc \in {"ended", "died", "signal"}
    PROVE  GuestTyped'
<1>1. /\ ThreadsFit'
      /\ MayReport' \subseteq MayReport
      /\ new.pc \in {"ended", "died", "signal"} => t \notin MayReport'
      /\ thread'[t] = new /\ \A u \in Threads \ {t} : thread'[u] = thread[u]
  BY ThreadMoves
<1>2. LockFits'
  <2>1. None \notin Threads
    BY GuestAssumption
  <2>2. lock \in Threads \cup {None} /\ (lock # None => Configuring(lock))
    BY DEF GuestTyped, LockFits
  <2>3. CASE lock' = lock /\ lock # t
    BY <1>1, <2>2, <2>3 DEF LockFits, Configuring
  <2>4. CASE lock' = released(t)
    BY <1>1, <2>1, <2>2, <2>4 DEF LockFits, Configuring, released
  <2>5. CASE lock' \in {lock, t} /\ new.pc \in {"write", "touch", "start", "report", "signal"}
    BY <1>1, <2>1, <2>2, <2>5 DEF LockFits, Configuring
  <2>6. QED
    BY <2>3, <2>4, <2>5
<1>3. DeployerFits'
  BY DEF GuestTyped, DeployerFits
<1>4. GeneratingFits'
  <2>1. generating \in Nat
    BY DEF GuestTyped, GeneratingFits
  <2>2. generating' \in Nat
    BY <2>1
  <2>3. \/ generating' <= generating
        \/ generating' = generating + 1 /\ \E u \in MayReport : u \notin MayReport'
    BY <1>1, <2>1
  <2>4. QED
    BY <1>1, <2>2, <2>3, GeneratingStays
<1>5. QED
  BY <1>1, <1>2, <1>3, <1>4 DEF GuestTyped

LEMMA LockFree ==
    ASSUME GuestTyped, NEW t \in Threads, ~Configuring(t) PROVE lock # t
BY GuestAssumption DEF GuestTyped, LockFits

LEMMA PollTyped ==
    ASSUME GuestTyped, Poll PROVE GuestTyped'
<1>0. /\ "poll" \in Threads /\ thread["poll"].pc = "loop"
      /\ UNCHANGED <<profile, handoff, record, deployer, env, ready, relay, refresh, lock, generating>>
  BY DEF Poll, at, Threads, deployVars, fileVars, relayVars
<1>1. EnvironmentFits'
  BY <1>0 DEF GuestTyped, EnvironmentFits
<1>2. lock # "poll"
  BY <1>0, LockFree DEF Configuring
<1>3. CASE thread' = goes("poll", "ended")
  <2>1. PICK new \in ThreadType : new.pc = "ended" /\ thread' = [thread EXCEPT !["poll"] = new]
    BY <1>0, <1>3, ThreadGoes DEF Pcs
  <2>2. QED
    BY <1>0, <1>1, <1>2, <2>1, ThreadSteps
<1>4. CASE ~ready /\ recordFound /\ thread' = [thread EXCEPT !["poll"] = [pc |-> "acquire", cfg |-> record]]
  <2>1. record \in Configs
    BY <1>4 DEF recordFound, GuestTyped, DeployerFits
  <2>2. PICK new : new = [pc |-> "acquire", cfg |-> record]
    OBVIOUS
  <2>3. new \in ThreadType /\ new.pc = "acquire" /\ new.cfg \in Configs
    BY <2>1, <2>2 DEF ThreadType, Pcs
  <2>4. "poll" \in MayReport
    BY <1>0, <1>4 DEF MayReport
  <2>5. QED
    BY <1>0, <1>1, <1>2, <1>4, <2>2, <2>3, <2>4, ThreadSteps
<1>5. QED
  BY <1>3, <1>4 DEF Poll

LEMMA PollDiesTyped ==
    ASSUME GuestTyped, PollDies PROVE GuestTyped'
<1>0. /\ "poll" \in Threads /\ thread["poll"].pc = "loop"
      /\ thread' = goes("poll", "died")
      /\ UNCHANGED <<profile, handoff, record, deployer, env, ready, relay, refresh, lock, generating>>
  BY DEF PollDies, at, Threads, deployVars, fileVars, relayVars
<1>1. EnvironmentFits'
  BY <1>0 DEF GuestTyped, EnvironmentFits
<1>2. lock # "poll"
  BY <1>0, LockFree DEF Configuring
<1>3. PICK new \in ThreadType : new.pc = "died" /\ thread' = [thread EXCEPT !["poll"] = new]
  BY <1>0, ThreadGoes DEF Pcs
<1>4. QED
  BY <1>0, <1>1, <1>2, <1>3, ThreadSteps

LEMMA PostTyped ==
    ASSUME GuestTyped, NEW t \in Requests, NEW cfg \in Configs, Post(t, cfg)
    PROVE  GuestTyped'
<1>0. /\ t \in Threads /\ thread[t].pc = "idle"
      /\ UNCHANGED <<profile, handoff, record, deployer, env, ready, relay, refresh, lock, generating>>
  BY DEF Post, Threads, deployVars, fileVars, relayVars
<1>1. EnvironmentFits'
  BY <1>0 DEF GuestTyped, EnvironmentFits
<1>2. lock # t
  BY <1>0, LockFree DEF Configuring
<1>3. PICK label \in {"ended", "acquire", "write"} :
        thread' = [thread EXCEPT ![t] = [pc |-> label, cfg |-> cfg]]
  BY DEF Post, ucPosted, orbitPosted
<1>4. PICK new : new = [pc |-> label, cfg |-> cfg]
  OBVIOUS
<1>5. new \in ThreadType /\ new.pc = label /\ new.cfg \in Configs
  BY <1>4 DEF ThreadType, Pcs
<1>6. t \in MayReport
  BY <1>0 DEF MayReport
<1>7. QED
  BY <1>0, <1>1, <1>2, <1>3, <1>4, <1>5, <1>6, ThreadSteps

LEMMA AcquireTyped ==
    ASSUME GuestTyped, NEW t \in Threads, Acquire(t)
    PROVE  GuestTyped'
<1>0. /\ thread[t].pc = "acquire" /\ lock = None
      /\ UNCHANGED <<profile, handoff, record, deployer, env, ready, relay, refresh, generating>>
  BY DEF Acquire, at, deployVars, fileVars, relayVars
<1>1. EnvironmentFits' /\ lock # t
  BY <1>0, GuestAssumption DEF GuestTyped, EnvironmentFits
<1>2. thread[t].cfg \in Configs
  BY <1>0 DEF GuestTyped, ThreadsFit
<1>3. CASE thread' = goes(t, "ended") /\ UNCHANGED lock
  <2>1. PICK new \in ThreadType : new.pc = "ended" /\ thread' = [thread EXCEPT ![t] = new]
    BY <1>3, ThreadGoes DEF Pcs
  <2>2. QED
    BY <1>0, <1>1, <1>3, <2>1, ThreadSteps
<1>4. CASE ~ready /\ thread' = goes(t, "write") /\ lock' = t
  <2>1. PICK new \in ThreadType : /\ new.pc = "write" /\ new.cfg = thread[t].cfg
                                  /\ thread' = [thread EXCEPT ![t] = new]
    BY <1>4, ThreadGoes DEF Pcs
  <2>2. t \in MayReport
    BY <1>0, <1>4 DEF MayReport
  <2>3. QED
    BY <1>0, <1>1, <1>2, <1>4, <2>1, <2>2, ThreadSteps
<1>5. QED
  BY <1>3, <1>4 DEF Acquire

LEMMA ScriptWritesTyped ==
    ASSUME GuestTyped, NEW t \in Threads, ScriptWrites(t)
    PROVE  GuestTyped'
<1>0. /\ thread[t].pc = "write" /\ thread' = goes(t, "touch")
      /\ UNCHANGED <<profile, handoff, record, deployer, ready, relay, refresh, lock, generating>>
  BY DEF ScriptWrites, at, deployVars, relayVars
<1>1. thread[t].cfg \in Configs
  BY <1>0 DEF GuestTyped, ThreadsFit
<1>2. env' \in EnvType
  <2>1. PICK cfg \in Configs : cfg = thread[t].cfg
    BY <1>1
  <2>2. PICK new : /\ env' = [cfg |-> cfg, announce |-> new]
                   /\ new = {<<"direct", cfg>>} \cup
                         IF profile = "orbitdb-relay" /\ cfg.proxy THEN {<<"proxy", cfg>>} ELSE {}
    BY <2>1 DEF ScriptWrites
  <2>3. new \in SUBSET (Kinds \X Configs)
    BY <2>2 DEF Kinds
  <2>4. QED
    BY <2>2, <2>3 DEF EnvType
<1>3. env' # None
  BY <1>2, GuestAssumption
<1>4. EnvironmentFits'
  BY <1>0, <1>2, <1>3 DEF GuestTyped, EnvironmentFits
<1>5. PICK new \in ThreadType : /\ new.pc = "touch" /\ new.cfg = thread[t].cfg
                                /\ thread' = [thread EXCEPT ![t] = new]
  BY <1>0, ThreadGoes DEF Pcs
<1>6. t \in MayReport
  BY <1>0 DEF MayReport
<1>7. QED
  BY <1>0, <1>1, <1>3, <1>4, <1>5, <1>6, ThreadSteps

LEMMA ScriptTouchesTyped ==
    ASSUME GuestTyped, NEW t \in Threads, ScriptTouches(t)
    PROVE  GuestTyped'
<1>0. /\ thread[t].pc = "touch" /\ thread' = goes(t, "start") /\ ready' = TRUE
      /\ UNCHANGED <<profile, handoff, record, deployer, env, relay, refresh, lock, generating>>
  BY DEF ScriptTouches, at, deployVars, relayVars
<1>1. thread[t].cfg \in Configs /\ env # None
  BY <1>0 DEF GuestTyped, ThreadsFit
<1>2. EnvironmentFits'
  BY <1>0, <1>1 DEF GuestTyped, EnvironmentFits
<1>3. PICK new \in ThreadType : /\ new.pc = "start" /\ new.cfg = thread[t].cfg
                                /\ thread' = [thread EXCEPT ![t] = new]
  BY <1>0, ThreadGoes DEF Pcs
<1>4. t \in MayReport
  BY <1>0 DEF MayReport
<1>5. QED
  BY <1>0, <1>1, <1>2, <1>3, <1>4, ThreadSteps

LEMMA ScriptStartsTyped ==
    ASSUME GuestTyped, NEW t \in Threads, ScriptStarts(t)
    PROVE  GuestTyped'
<1>0. /\ thread[t].pc = "start" /\ thread' = goes(t, "report")
      /\ UNCHANGED <<profile, handoff, record, deployer, env, ready, lock, generating>>
      /\ relay' \in {relay, env}
      /\ refresh' \in {refresh, [pc |-> "due", env |-> None]}
  BY DEF ScriptStarts, at, deployVars, fileVars, relayVars
<1>1. thread[t].cfg \in Configs /\ env # None /\ ready
  BY <1>0 DEF GuestTyped, ThreadsFit
<1>2. EnvironmentFits'
  <2>1. relay' \in EnvType \cup {None} /\ (relay' # None => ready')
    BY <1>0, <1>1 DEF GuestTyped, EnvironmentFits
  <2>2. CASE refresh' = refresh
    BY <1>0, <1>1, <2>1, <2>2 DEF GuestTyped, EnvironmentFits
  <2>3. CASE refresh' = [pc |-> "due", env |-> None]
    BY <1>0, <1>1, <2>1, <2>3 DEF GuestTyped, EnvironmentFits
  <2>4. QED
    BY <1>0, <2>2, <2>3
<1>3. PICK new \in ThreadType : /\ new.pc = "report" /\ new.cfg = thread[t].cfg
                                /\ thread' = [thread EXCEPT ![t] = new]
  BY <1>0, ThreadGoes DEF Pcs
<1>4. t \in MayReport
  BY <1>0 DEF MayReport
<1>5. QED
  BY <1>0, <1>1, <1>2, <1>3, <1>4, ThreadSteps

LEMMA FailsTyped ==
    ASSUME GuestTyped, NEW t \in Threads, Fails(t),
           thread[t].pc \in {"write", "start", "signal"},
           UNCHANGED <<profile, handoff, record, deployer, env, ready, relay, refresh, generating>>
    PROVE  GuestTyped'
<1>1. EnvironmentFits'
  BY DEF GuestTyped, EnvironmentFits
<1>2. lock' = released(t)
  BY DEF Fails
<1>3. PICK label \in {"loop", "ended"} : thread' = goes(t, label)
  BY DEF Fails
<1>4. PICK new \in ThreadType : new.pc = label /\ thread' = [thread EXCEPT ![t] = new]
  BY <1>3, ThreadGoes DEF Pcs
<1>5. t \in MayReport \/ ready'
  BY DEF MayReport, GuestTyped, ThreadsFit
<1>6. QED
  BY <1>1, <1>2, <1>4, <1>5, ThreadSteps

LEMMA ReportsTyped ==
    ASSUME GuestTyped, NEW t \in Threads, Reports(t)
    PROVE  GuestTyped'
<1>0. /\ thread[t].pc = "report"
      /\ UNCHANGED <<profile, handoff, record, deployer, env, ready, relay, refresh>>
      /\ generating' \in {generating, generating + 1}
  BY DEF Reports, at, deployVars, fileVars, relayVars
<1>1. thread[t].cfg \in Configs /\ env # None /\ ready
  BY <1>0 DEF GuestTyped, ThreadsFit
<1>2. EnvironmentFits'
  BY <1>0 DEF GuestTyped, EnvironmentFits
<1>3. PICK label \in {"signal", "ended"} :
        /\ thread' = goes(t, label)
        /\ \/ lock' = lock /\ label = "signal"
           \/ lock' = released(t)
  BY DEF Reports
<1>4. PICK new \in ThreadType : /\ new.pc = label /\ new.cfg = thread[t].cfg
                                /\ thread' = [thread EXCEPT ![t] = new]
  BY <1>3, ThreadGoes DEF Pcs
<1>5. t \in MayReport
  BY <1>0 DEF MayReport
<1>6. QED
  BY <1>0, <1>1, <1>2, <1>3, <1>4, <1>5, ThreadSteps

LEMMA SignalsTyped ==
    ASSUME GuestTyped, Signals
    PROVE  GuestTyped'
<1>0. /\ "poll" \in Threads /\ thread' = goes("poll", "ended") /\ lock' = released("poll")
      /\ UNCHANGED <<profile, handoff, record, deployer, env, ready, relay, refresh, generating>>
  BY DEF Signals, Threads, fileVars, relayVars
<1>1. EnvironmentFits'
  BY <1>0 DEF GuestTyped, EnvironmentFits
<1>2. PICK new \in ThreadType : new.pc = "ended" /\ thread' = [thread EXCEPT !["poll"] = new]
  BY <1>0, ThreadGoes DEF Pcs
<1>3. QED
  BY <1>0, <1>1, <1>2, ThreadSteps

(* Steps that leave the threads alone.                                     *)
LEMMA SettledSteps ==
    ASSUME GuestTyped, UNCHANGED <<thread, lock, ready>>,
           env # None => env' # None,
           EnvironmentFits', DeployerFits',
           \/ generating' = generating
           \/ generating > 0 /\ generating' = generating - 1
    PROVE  GuestTyped'
<1>1. ThreadsFit' /\ LockFits'
  BY DEF GuestTyped, ThreadsFit, LockFits, Configuring
<1>2. MayReport' \subseteq MayReport
  BY DEF MayReport
<1>3. generating \in Nat
  BY DEF GuestTyped, GeneratingFits
<1>4. generating' \in Nat /\ generating' <= generating
  BY <1>3
<1>5. GeneratingFits'
  BY <1>2, <1>4, GeneratingStays
<1>6. QED
  BY <1>1, <1>5 DEF GuestTyped

LEMMA DeployerTyped ==
    ASSUME GuestTyped,
           Await \/ GetMetadata \/ \E cfg \in Configs : PublishRecord(cfg)
    PROVE  GuestTyped'
<1>1. UNCHANGED <<thread, lock, ready, env, relay, refresh, generating, profile, handoff>>
  BY DEF Await, GetMetadata, PublishRecord, fileVars, relayVars, serverVars
<1>2. EnvironmentFits'
  BY <1>1 DEF GuestTyped, EnvironmentFits
<1>3. record' \in Configs \cup {None}
  BY DEF GuestTyped, DeployerFits, Await, GetMetadata, PublishRecord
<1>4. /\ deployer' \in [pc: {"wait", "heard", "gaveup"}, attempts: 0..MaxAttempts]
      /\ deployer'.pc = "wait" => deployer'.attempts < MaxAttempts
  <2>0. /\ deployer \in [pc: {"wait", "heard", "gaveup"}, attempts: 0..MaxAttempts]
        /\ deployer.pc = "wait" => deployer.attempts < MaxAttempts
        /\ MaxAttempts \in Nat
    BY GuestAssumption DEF GuestTyped, DeployerFits
  <2>1. CASE Await
    <3>1. PICK n \in Nat, label \in {"wait", "heard", "gaveup"} :
            deployer = [pc |-> label, attempts |-> n] /\ n < MaxAttempts
      BY <2>0, <2>1 DEF Await
    <3>2. deployer' \in {[pc |-> "heard", attempts |-> n], [pc |-> "gaveup", attempts |-> n + 1],
                         [pc |-> label, attempts |-> n + 1]}
      BY <2>1, <3>1 DEF Await
    <3>3. deployer'.attempts = MaxAttempts => deployer'.pc # "wait"
      BY <2>1, <3>1 DEF Await
    <3>4. /\ deployer'.attempts \in 0..MaxAttempts
          /\ deployer' = [pc |-> deployer'.pc, attempts |-> deployer'.attempts]
      BY <2>0, <3>1, <3>2
    <3>5. QED
      BY <2>0, <3>2, <3>3, <3>4
  <2>2. CASE GetMetadata
    BY <2>0, <2>2 DEF GetMetadata, UcGetMetadata, OrbitGetMetadata
  <2>3. CASE UNCHANGED deployer
    BY <2>0, <2>3
  <2>4. QED
    BY <2>1, <2>2, <2>3 DEF PublishRecord
<1>5. DeployerFits'
  BY <1>1, <1>3, <1>4 DEF GuestTyped, DeployerFits
<1>6. QED
  BY <1>1, <1>2, <1>5, SettledSteps

LEMMA RefreshTyped ==
    ASSUME GuestTyped, Refresh \/ RefreshFails
    PROVE  GuestTyped'
<1>0. /\ env \in EnvType \cup {None} /\ relay \in EnvType \cup {None}
      /\ ready => env # None
      /\ relay # None => ready
      /\ refresh = [pc |-> refresh.pc, env |-> refresh.env]
      /\ refresh.pc \in {"off", "due", "waiting", "restart", "finish"}
      /\ refresh.pc = "waiting" => refresh.env \in EnvType
      /\ refresh.pc \in {"waiting", "restart", "finish"} => ready
      /\ ready \in BOOLEAN
  BY DEF GuestTyped, EnvironmentFits
<1>1. /\ UNCHANGED <<thread, lock, ready, generating>>
      /\ UNCHANGED <<profile, handoff, record, deployer>>
  BY DEF Refresh, RefreshStarts, TimerFires, RefreshWrites, RefreshRestarts,
         RefreshFinishes, RefreshFails, deployVars, fileVars, serverVars
<1>2. DeployerFits'
  BY <1>1 DEF GuestTyped, DeployerFits
<1>3. CASE RefreshWrites
  <2>1. PICK new : /\ env' = [env EXCEPT !.announce = new]
                   /\ new = IF profile = "uc-go-peer" THEN ucAnnounce(refresh.env)
                            ELSE orbitAnnounce(refresh.env)
                   /\ \E label \in {"restart", "finish"} : refresh' = [refresh EXCEPT !.pc = label]
                   /\ refresh.pc = "waiting" /\ UNCHANGED relay
    BY <1>3 DEF RefreshWrites, relayVars
  <2>2. refresh.env \in EnvType /\ env \in EnvType
    BY <1>0, <2>1
  <2>3. PICK old \in EnvType : old = refresh.env
    BY <2>2
  <2>4. old.cfg \in Configs /\ old.announce \in SUBSET (Kinds \X Configs)
    BY DEF EnvType
  <2>5. ucAnnounce(old) \in SUBSET (Kinds \X Configs)
    BY <2>4 DEF ucAnnounce, Kinds
  <2>6. orbitAnnounce(old) \in SUBSET (Kinds \X Configs)
    BY <2>4 DEF orbitAnnounce, Kinds
  <2>7. new \in SUBSET (Kinds \X Configs)
    BY <2>1, <2>3, <2>5, <2>6
  <2>8. env' \in EnvType
    BY <2>1, <2>2, <2>7 DEF EnvType
  <2>9. env' # None
    BY <2>8, GuestAssumption
  <2>10. EnvironmentFits'
    BY <1>0, <1>1, <2>1, <2>8, <2>9 DEF EnvironmentFits
  <2>11. QED
    BY <1>1, <1>2, <2>9, <2>10, SettledSteps
<1>4. CASE UNCHANGED env
  <2>1. CASE RefreshStarts
    BY <1>0, <1>1, <1>2, <1>4, <2>1, SettledSteps DEF RefreshStarts, EnvironmentFits, relayVars
  <2>2. CASE TimerFires
    BY <1>0, <1>1, <1>2, <1>4, <2>2, SettledSteps DEF TimerFires, EnvironmentFits, relayVars
  <2>3. CASE RefreshRestarts
    BY <1>0, <1>1, <1>2, <1>4, <2>3, SettledSteps DEF RefreshRestarts, EnvironmentFits
  <2>4. CASE RefreshFinishes
    BY <1>0, <1>1, <1>2, <1>4, <2>4, SettledSteps DEF RefreshFinishes, EnvironmentFits, relayVars
  <2>5. CASE RefreshFails
    BY <1>0, <1>1, <1>2, <1>4, <2>5, SettledSteps DEF RefreshFails, EnvironmentFits, relayVars
  <2>6. CASE RefreshWrites
    BY <1>3, <2>6
  <2>7. QED
    BY <2>1, <2>2, <2>3, <2>4, <2>5, <2>6 DEF Refresh
<1>5. QED
  BY <1>3, <1>4 DEF Refresh, RefreshStarts, TimerFires, RefreshRestarts, RefreshFinishes,
     RefreshFails, fileVars

LEMMA SurroundingsTyped ==
    ASSUME GuestTyped,
           GenerateMetadata \/ Zoned \/ \E k \in Certificates : Certified(k)
    PROVE  GuestTyped'
<1>1. /\ UNCHANGED <<thread, lock, ready, env, relay, refresh>>
      /\ UNCHANGED <<profile, handoff, record, deployer>>
      /\ \/ generating' = generating
         \/ generating > 0 /\ generating' = generating - 1
  BY DEF GenerateMetadata, Zoned, Certified, deployVars, fileVars, relayVars, serverVars
<1>2. EnvironmentFits'
  BY <1>1 DEF GuestTyped, EnvironmentFits
<1>3. DeployerFits'
  BY <1>1 DEF GuestTyped, DeployerFits
<1>4. QED
  BY <1>1, <1>2, <1>3, SettledSteps

(* Whatever ends every thread's work, with nothing left to generate.       *)
LEMMA EndedTyped ==
    ASSUME GuestTyped,
           thread' \in [Threads -> ThreadType],
           \A t \in Threads : thread'[t].pc \in {"loop", "idle", "ended"},
           lock' = None, generating' = 0,
           EnvironmentFits', UNCHANGED <<profile, handoff, record, deployer>>
    PROVE  GuestTyped'
<1>1. ThreadsFit'
  BY DEF ThreadsFit
<1>2. LockFits'
  BY DEF LockFits
<1>3. DeployerFits'
  BY DEF GuestTyped, DeployerFits
<1>4. GeneratingFits'
  <2>1. PICK B : B = MayReport'
    OBVIOUS
  <2>2. B \in SUBSET Threads
    BY <2>1 DEF MayReport
  <2>3. Cardinality(B) \in Nat /\ Cardinality(B) <= Cardinality(Threads)
    BY <2>2, ThreadsFinite
  <2>4. 0 + Cardinality(B) <= Cardinality(Threads)
    BY <2>3
  <2>5. QED
    BY <2>1, <2>4 DEF GeneratingFits
<1>5. QED
  BY <1>1, <1>2, <1>3, <1>4 DEF GuestTyped

LEMMA StopServiceTyped ==
    ASSUME GuestTyped, StopService
    PROVE  GuestTyped'
<1>1. /\ thread' \in [Threads -> ThreadType]
      /\ \A t \in Threads : thread'[t].pc \in {"loop", "idle", "ended"}
  BY DEF GuestTyped, ThreadsFit, ThreadType, StopService, Pcs
<1>2. UNCHANGED <<profile, handoff, record, deployer, env, ready, relay, refresh>>
  BY DEF StopService, deployVars, fileVars, relayVars
<1>3. EnvironmentFits'
  BY <1>2 DEF GuestTyped, EnvironmentFits
<1>4. QED
  BY <1>1, <1>2, <1>3, EndedTyped DEF StopService

LEMMA RebootTyped ==
    ASSUME GuestTyped, Reboot
    PROVE  GuestTyped'
<1>1. /\ thread' \in [Threads -> ThreadType]
      /\ \A t \in Threads : thread'[t].pc \in {"loop", "idle", "ended"}
  BY DEF GuestTyped, ThreadsFit, ThreadType, Reboot, Pcs
<1>2. UNCHANGED <<profile, handoff, record, deployer, env, ready>>
  BY DEF Reboot, deployVars, fileVars
<1>3. EnvironmentFits'
  BY <1>2 DEF GuestTyped, EnvironmentFits, Reboot
<1>4. QED
  BY <1>1, <1>2, <1>3, EndedTyped DEF Reboot

LEMMA InitTyped ==
    ASSUME Init PROVE GuestTyped
<1>1. ThreadsFit
  BY DEF Init, ThreadsFit, ThreadType, Pcs
<1>2. LockFits /\ EnvironmentFits
  BY DEF Init, LockFits, EnvironmentFits
<1>3. DeployerFits
  BY GuestAssumption DEF Init, DeployerFits
<1>4. GeneratingFits
  <2>1. generating = 0 /\ MayReport \in SUBSET Threads
    BY DEF Init, MayReport
  <2>2. Cardinality(MayReport) \in Nat /\ Cardinality(MayReport) <= Cardinality(Threads)
    BY <2>1, ThreadsFinite
  <2>3. QED
    BY <2>1, <2>2 DEF GeneratingFits
<1>5. QED
  BY <1>1, <1>2, <1>3, <1>4 DEF GuestTyped

(* A guest of either profile keeps the types of its variables, for any     *)
(* finite set of requests: it is ready only with an environment, its relay *)
(* runs only when it is ready, whoever has CONFIGURE_LOCK is in the script *)
(* or after it, and every thread has the metadata generated once at most.  *)
THEOREM GuestTypeCorrect == Spec => []TypeOK
<1>1. ASSUME GuestTyped, [Next]_vars PROVE GuestTyped'
  <2> USE <1>1
  <2>1. CASE UNCHANGED vars
    <3>1. /\ UNCHANGED <<thread, lock, ready, env, relay, refresh, generating>>
          /\ UNCHANGED <<profile, handoff, record, deployer>>
      BY <2>1 DEF vars, deployVars, fileVars, relayVars, serverVars
    <3>2. EnvironmentFits' /\ DeployerFits'
      BY <3>1 DEF GuestTyped, EnvironmentFits, DeployerFits
    <3>3. QED
      BY <3>1, <3>2, SettledSteps
  <2>2. CASE Poll
    BY <2>2, PollTyped
  <2>3. CASE Signals
    BY <2>3, SignalsTyped
  <2>4. CASE GenerateMetadata \/ Zoned \/ \E k \in Certificates : Certified(k)
    BY <2>4, SurroundingsTyped
  <2>5. CASE StopService
    BY <2>5, StopServiceTyped
  <2>6. CASE \E t \in Threads : Configure(t)
    BY <2>6, AcquireTyped, ScriptWritesTyped, ScriptTouchesTyped, ScriptStartsTyped,
       ReportsTyped DEF Configure
  <2>7. CASE Refresh \/ RefreshFails
    BY <2>7, RefreshTyped
  <2>8. CASE Deployer
    BY <2>8, DeployerTyped, PostTyped DEF Deployer
  <2>9. CASE \E t \in Threads : ScriptFails(t)
    <3>1. PICK t \in Threads : ScriptFails(t)
      BY <2>9
    <3>2. /\ Fails(t) /\ thread[t].pc \in {"write", "start", "signal"}
          /\ UNCHANGED <<profile, handoff, record, deployer, env, ready, relay, refresh, generating>>
      BY <3>1 DEF ScriptFails, at, deployVars, fileVars, relayVars
    <3>3. QED
      BY <3>2, FailsTyped
  <2>10. CASE SignalFails
    <3>1. /\ Fails("poll") /\ thread["poll"].pc = "signal" /\ "poll" \in Threads
          /\ UNCHANGED <<profile, handoff, record, deployer, env, ready, relay, refresh, generating>>
      BY <2>10 DEF SignalFails, at, Threads, fileVars, relayVars
    <3>2. QED
      BY <3>1, FailsTyped
  <2>11. CASE Reboot
    BY <2>11, RebootTyped
  <2>12. CASE PollDies
    BY <2>12, PollDiesTyped
  <2>13. QED
    BY <2>1, <2>2, <2>3, <2>4, <2>5, <2>6, <2>7, <2>8, <2>9, <2>10, <2>11, <2>12 DEF Next, Faults
<1>2. GuestTyped => TypeOK
  <2> SUFFICES ASSUME GuestTyped PROVE TypeOK
    OBVIOUS
  <2>1. generating \in 0..Cardinality(Threads)
    <3>1. MayReport \in SUBSET Threads
      BY DEF MayReport
    <3>2. /\ Cardinality(MayReport) \in Nat /\ Cardinality(Threads) \in Nat
          /\ generating \in Nat
          /\ generating + Cardinality(MayReport) <= Cardinality(Threads)
      BY <3>1, ThreadsFinite DEF GuestTyped, GeneratingFits
    <3>3. QED
      BY <3>2
  <2>2. QED
    BY <2>1 DEF GuestTyped, LockFits, EnvironmentFits, DeployerFits, Configuring, TypeOK
<1>3. QED
  BY <1>1, <1>2, InitTyped, PTL DEF Spec

-----------------------------------------------------------------------------
(***************************************************************************)
(* Discovery: what a scan of the channel finds                             *)
(*                                                                         *)
(* A page lists the posts of a stretch of ranks, newest first. While no    *)
(* post is forgotten, ranks only grow, so a post listed when the scan      *)
(* began is collected or on a page to come (PagesFit), and what was        *)
(* collected has everything newer with it (NewestFirst): the posts a       *)
(* registration replaced lose to their newer ones, and a page that is not  *)
(* full is the last (EmptyFits).                                           *)
(***************************************************************************)

(* A post of writer w: its number, the time of its proof and its own.      *)
PostBy(w, n, proofTime, time) ==
    [ serial |-> n, supported |-> w.supported, sender |-> w.sender,
      reg |-> w.reg, peer |-> w.peer, profile |-> w.profile,
      owner |-> w.owner, publisher |-> w.sender,
      authorization |-> authorizationOf(w),
      relayProof |-> proofOf(w, proofTime), malformed |-> w.malformed,
      addrs |-> selectCompact(w.addrs), updatedAt |-> time ]

IsPost(p) ==
    \E w \in Writers, n \in Nat, proofTime \in Nat, time \in Nat : p = PostBy(w, n, proofTime, time)

LEMMA PostFields ==
    ASSUME NEW p, IsPost(p)
    PROVE  /\ DOMAIN p = {"serial", "supported", "sender", "reg", "peer", "profile", "owner",
                          "publisher", "authorization", "relayProof", "malformed", "addrs", "updatedAt"}
           /\ p.serial \in Nat /\ p.updatedAt \in Nat
  BY DEF IsPost, PostBy

LEMMA NormalizedFacts ==
    ASSUME NEW p, IsPost(p)
    PROVE  /\ normalized(p).serial = p.serial
           /\ normalized(p).updatedAt = p.updatedAt
           /\ normalized(p).reg = p.reg
           /\ normalized(p).sender = p.sender
           /\ normalized(p).addrs = p.addrs
           /\ normalized(p).authorization # Absent
                => normalized(p).authorization.expiresAt \in Nat \cup {Absent}
<1>1. DOMAIN p = {"serial", "supported", "sender", "reg", "peer", "profile", "owner",
                          "publisher", "authorization", "relayProof", "malformed", "addrs", "updatedAt"}
  BY PostFields
<1> DEFINE a == IF "authorization" \in p.malformed THEN Absent ELSE p["authorization"]
           b == IF "relayProof" \in p.malformed THEN Absent ELSE p["relayProof"]
<1>2. PICK x, y : x = a /\ y = b
  OBVIOUS
<1>3. ASSUME x # Absent PROVE x.expiresAt \in Nat \cup {Absent}
  <2>1. PICK w \in Writers : p.authorization = authorizationOf(w)
    BY DEF IsPost, PostBy
  <2>2. x = authorizationOf(w)
    BY <1>2, <1>3, <2>1
  <2>3. x = [owner |-> w.owner, publisher |-> w.sender, peer |-> w.peer,
             expiresAt |-> w.expiresAt, key |-> w.ownerKey]
    BY <1>3, <2>2 DEF authorizationOf
  <2>4. w.expiresAt \in Nat \cup {Absent}
    BY DiscoveryAssumption DEF WriterType
  <2>5. QED
    BY <2>3, <2>4
<1> HIDE DEF a, b
<1>4. normalized(p) = [p EXCEPT !.authorization = x, !.relayProof = y]
  BY <1>2 DEF normalized, a, b
<1>5. QED
  BY <1>1, <1>3, <1>4

LEMMA LeastNumber ==
    ASSUME NEW S \in SUBSET Nat, S # {}
    PROVE  \E m \in S : \A n \in S : m <= n
<1>1. PICK m \in S : \A n \in S : ~(<<n, m>> \in OpToRel(<, Nat))
  BY NatLessThanWellFounded, WFMin
<1>2. \A n \in S : ~(n < m)
  BY <1>1 DEF OpToRel
<1>3. QED
  BY <1>2

-----------------------------------------------------------------------------
(* What a publisher signs can be used *)

Prefer(a) == preference[a.transport]

LEMMA PreferFacts ==
    ASSUME NEW a \in AddrType
    PROVE  /\ Prefer(a) \in Nat
           /\ a.transport \in {"tcp443-tls-ws", "tls-ws"} => Prefer(a) <= 1
           /\ Prefer(a) <= 1 => a.transport \in {"tcp443-tls-ws", "tls-ws"}
<1>1. a.transport \in {"tcp443-tls-ws", "tls-ws", "wss", "ws", "webtransport", "webrtc-direct", "tcp"}
  BY DEF AddrType
<1>2. QED
  BY <1>1 DEF Prefer, preference

Usable(a, allowInsecure) ==
    a.public /\ a.peerId /\ isBrowserDialable(a, allowInsecure)

LEMMA UsableFacts ==
    ASSUME NEW S, NEW a, NEW insecure \in BOOLEAN
    PROVE  a \in filterPublic(S, TRUE, insecure) <=> a \in S /\ Usable(a, insecure)
  BY DEF filterPublic, Usable

(* The best address of a transport, the first of those, is never cut.      *)
LEMMA BestIsKept ==
    ASSUME NEW addrs \in Seq(AddrType), NEW i \in DOMAIN addrs, Usable(addrs[i], TRUE)
    PROVE  \E m \in DOMAIN addrs :
              /\ addrs[m] \in selectCompact(addrs) /\ Usable(addrs[m], TRUE)
              /\ transportOf(addrs[m]) = transportOf(addrs[i])
              /\ Prefer(addrs[m]) <= Prefer(addrs[i])
<1> DEFINE dialable == {j \in DOMAIN addrs : addrs[j] \in filterPublic({addrs[j]}, TRUE, TRUE)}
           G == {j \in dialable : transportOf(addrs[j]) = transportOf(addrs[i])}
           before(j, k) == /\ transportOf(addrs[j]) = transportOf(addrs[k])
                           /\ \/ Prefer(addrs[j]) < Prefer(addrs[k])
                              \/ (Prefer(addrs[j]) = Prefer(addrs[k]) /\ j < k)
<1>1. \A j \in DOMAIN addrs : j \in dialable <=> Usable(addrs[j], TRUE)
  BY UsableFacts
<1>2. \A j \in DOMAIN addrs : j \in Nat /\ addrs[j] \in AddrType /\ Prefer(addrs[j]) \in Nat
  <2>1. \A j \in DOMAIN addrs : j \in Nat /\ addrs[j] \in AddrType
    OBVIOUS
  <2>2. QED
    BY <2>1, PreferFacts
<1>3. i \in G
  BY <1>1
<1>4. PICK r \in {Prefer(addrs[j]) : j \in G} : \A j \in G : r <= Prefer(addrs[j])
  <2> DEFINE R == {Prefer(addrs[j]) : j \in G}
  <2>1. \A j \in G : Prefer(addrs[j]) \in Nat
    BY <1>2
  <2> HIDE DEF G
  <2>2. R \in SUBSET Nat /\ R # {}
    BY <1>3, <2>1
  <2>3. PICK r \in R : \A x \in R : r <= x
    BY <2>2, LeastNumber
  <2>4. QED
    BY <2>3
<1>5. PICK m \in {j \in G : Prefer(addrs[j]) = r} : \A j \in {k \in G : Prefer(addrs[k]) = r} : m <= j
  <2>1. {j \in G : Prefer(addrs[j]) = r} # {}
    BY <1>4
  <2>2. {j \in G : Prefer(addrs[j]) = r} \in SUBSET Nat
    BY <1>2
  <2> HIDE DEF G
  <2>3. QED
    BY <2>1, <2>2, LeastNumber
<1>6. {j \in dialable : before(j, m)} = {}
  <2> SUFFICES ASSUME NEW j \in dialable, before(j, m) PROVE FALSE
    OBVIOUS
  <2>1. j \in G /\ m \in Nat /\ j \in Nat
    BY <1>2, <1>5
  <2>2. r <= Prefer(addrs[j]) /\ Prefer(addrs[m]) = r /\ Prefer(addrs[j]) \in Nat /\ r \in Nat
    BY <1>2, <1>4, <1>5, <2>1
  <2>3. Prefer(addrs[j]) = r /\ j < m
    BY <2>2
  <2>4. m <= j
    BY <1>5, <2>1, <2>3
  <2>5. QED
    BY <2>1, <2>3, <2>4
<1>7. Cardinality({j \in dialable : before(j, m)}) < CompactLimit
  <2> HIDE DEF dialable, before
  <2>1. Cardinality({j \in dialable : before(j, m)}) = 0
    BY <1>6, FS_EmptySet
  <2>2. QED
    BY <2>1, DiscoveryAssumption
<1>8. selectCompact(addrs) =
        {addrs[k] : k \in {x \in dialable : Cardinality({j \in dialable : before(j, x)}) < CompactLimit}}
  BY DEF selectCompact, Prefer
<1>9. addrs[m] \in selectCompact(addrs)
  <2>1. m \in dialable
    BY <1>5
  <2> HIDE DEF dialable, before
  <2>2. QED
    BY <1>7, <1>8, <2>1
<1>10. m \in DOMAIN addrs /\ Usable(addrs[m], TRUE) /\ transportOf(addrs[m]) = transportOf(addrs[i])
  BY <1>1, <1>5
<1>11. Prefer(addrs[m]) <= Prefer(addrs[i])
  BY <1>3, <1>4, <1>5
<1>12. QED
  BY <1>9, <1>10, <1>11

(* A relay a browser can dial, other than by a plain wss address, keeps an *)
(* address it can dial.                                                    *)
LEMMA DialableKept ==
    ASSUME NEW addrs \in Seq(AddrType), NEW i \in DOMAIN addrs,
           addrs[i].transport # "wss", Usable(addrs[i], FALSE)
    PROVE  filterPublic(selectCompact(addrs), TRUE, FALSE) # {}
<1>1. Usable(addrs[i], TRUE) /\ addrs[i] \in AddrType
  BY DEF Usable, isBrowserDialable
<1>2. PICK m \in DOMAIN addrs :
         /\ addrs[m] \in selectCompact(addrs) /\ Usable(addrs[m], TRUE)
         /\ transportOf(addrs[m]) = transportOf(addrs[i])
         /\ Prefer(addrs[m]) <= Prefer(addrs[i])
  BY <1>1, BestIsKept
<1>3. addrs[m] \in AddrType
  OBVIOUS
<1>4. addrs[i].transport \in {"tcp443-tls-ws", "tls-ws", "webtransport", "webrtc-direct"}
  BY DEF Usable, isBrowserDialable, isSecureWebSocket
<1>5. Usable(addrs[m], FALSE)
  <2>1. CASE addrs[i].transport \in {"tcp443-tls-ws", "tls-ws"}
    <3>1. Prefer(addrs[m]) <= 1
      BY <1>1, <1>2, <1>3, <2>1, PreferFacts
    <3>2. addrs[m].transport \in {"tcp443-tls-ws", "tls-ws"}
      BY <1>3, <3>1, PreferFacts
    <3>3. QED
      BY <1>2, <3>2 DEF Usable, isBrowserDialable, isSecureWebSocket
  <2>2. CASE addrs[i].transport \in {"webtransport", "webrtc-direct"}
    <3>1. addrs[m].transport = addrs[i].transport
      BY <1>2, <2>2 DEF transportOf
    <3>2. QED
      BY <1>2, <2>2, <3>1 DEF Usable, isBrowserDialable, isSecureWebSocket
  <2>3. QED
    BY <1>4, <2>1, <2>2
<1>6. QED
  BY <1>2, <1>5, UsableFacts

(* What a post is worth to a reader, given what its writer signed.         *)
WorthSigned(p, w) ==
    /\ p.sender = w.sender /\ p.reg = w.reg
    /\ /\ isDualKey(p) /\ p.malformed = {}
       /\ w.owner = w.ownerKey /\ w.sender = w.publisherKey
       /\ w.expiresAt = Absent \/ now <= w.expiresAt
       /\ p.relayProof.updatedAt = p.updatedAt
       => verifyDualKey(p)
    /\ (\E i \in DOMAIN w.addrs : /\ w.addrs[i].transport # "wss"
                                  /\ w.addrs[i] \in filterPublic({w.addrs[i]}, TRUE, FALSE))
       => filterPublic(p.addrs, TRUE, FALSE) # {}

LEMMA PostUsable ==
    ASSUME NEW w \in Writers, NEW n, NEW proofTime, NEW time, NEW p, p = PostBy(w, n, proofTime, time)
    PROVE  WorthSigned(p, w)
<1>1. /\ p.sender = w.sender /\ p.reg = w.reg /\ p.peer = w.peer /\ p.profile = w.profile
      /\ p.owner = w.owner /\ p.publisher = w.sender
      /\ p.authorization = authorizationOf(w) /\ p.relayProof = proofOf(w, proofTime)
      /\ p.addrs = selectCompact(w.addrs) /\ p.updatedAt = time
  BY DEF PostBy
<1>2. ASSUME isDualKey(p), w.owner = w.ownerKey, w.sender = w.publisherKey,
             w.expiresAt = Absent \/ now <= w.expiresAt, p.relayProof.updatedAt = p.updatedAt
      PROVE  verifyDualKey(p)
  <2> DEFINE auth == p.authorization
             proof == p.relayProof
  <2>1. /\ auth.owner = w.owner /\ auth.publisher = w.sender /\ auth.peer = w.peer
        /\ auth.expiresAt = w.expiresAt /\ auth.key = w.ownerKey
    <3>1. auth = [owner |-> w.owner, publisher |-> w.sender, peer |-> w.peer,
                  expiresAt |-> w.expiresAt, key |-> w.ownerKey]
      BY <1>1, <1>2 DEF isDualKey, authorizationOf
    <3> HIDE DEF auth
    <3>2. QED
      BY <3>1
  <2>2. /\ proof.peer = w.peer /\ proof.reg = w.reg /\ proof.profile = w.profile
        /\ proof.addrs = selectCompact(w.addrs) /\ proof.key = w.publisherKey
    <3>1. proof = [peer |-> w.peer, reg |-> w.reg, profile |-> w.profile,
                   addrs |-> selectCompact(w.addrs), updatedAt |-> proofTime,
                   key |-> w.publisherKey]
      BY <1>1, <1>2 DEF isDualKey, proofOf
    <3> HIDE DEF proof
    <3>2. QED
      BY <3>1
  <2>3. verifyAuthorization(auth)
    BY <1>2, <2>1 DEF verifyAuthorization
  <2>4. verifyProof(proof, p.publisher, p.peer)
    BY <1>1, <1>2, <2>2 DEF verifyProof
  <2>5. QED
    BY <1>1, <1>2, <2>1, <2>2, <2>3, <2>4 DEF verifyDualKey
<1>3. ASSUME NEW i \in DOMAIN w.addrs, w.addrs[i].transport # "wss",
             w.addrs[i] \in filterPublic({w.addrs[i]}, TRUE, FALSE)
      PROVE  filterPublic(p.addrs, TRUE, FALSE) # {}
  <2>1. w.addrs \in Seq(AddrType)
    BY DiscoveryAssumption DEF WriterType
  <2>2. Usable(w.addrs[i], FALSE)
    BY <1>3, UsableFacts
  <2>3. QED
    BY <1>1, <1>3, <2>1, <2>2, DialableKept
<1>4. QED
  BY <1>1, <1>2, <1>3 DEF WorthSigned

-----------------------------------------------------------------------------
(* The channel in its order *)

ahead(p) == {q \in channel : newer(q, p)}
rank(p) == Cardinality(ahead(p))

ChannelFits ==
    /\ IsFiniteSet(channel)
    /\ \A p \in channel : p.serial \in Nat /\ p.updatedAt \in Nat
    /\ \A p, q \in channel : p.serial = q.serial => p = q

LEMMA NewerOrder ==
    ASSUME NEW p, NEW q, NEW o,
           p.serial \in Nat, q.serial \in Nat, o.serial \in Nat,
           p.updatedAt \in Nat, q.updatedAt \in Nat, o.updatedAt \in Nat
    PROVE  /\ ~newer(p, p)
           /\ newer(p, q) /\ newer(q, o) => newer(p, o)
           /\ p.serial # q.serial => newer(p, q) \/ newer(q, p)
  BY DEF newer

LEMMA RankFacts ==
    ASSUME ChannelFits, NEW p \in channel
    PROVE  /\ IsFiniteSet(ahead(p)) /\ rank(p) \in Nat /\ rank(p) < Cardinality(channel)
           /\ \A q \in channel : newer(q, p) => rank(q) < rank(p)
<1>1. ASSUME NEW x \in channel PROVE IsFiniteSet(ahead(x)) /\ rank(x) \in Nat
  BY FS_Subset, FS_CardinalityType DEF ahead, rank, ChannelFits
<1>2. ASSUME NEW x \in channel, NEW S \in SUBSET channel, ahead(x) \subseteq S, x \in S
      PROVE  rank(x) < Cardinality(S)
  <2>1. x \notin ahead(x) /\ IsFiniteSet(S)
    BY <1>2, NewerOrder, FS_Subset DEF ahead, ChannelFits
  <2>2. Cardinality(ahead(x) \cup {x}) = rank(x) + 1
    BY <1>1, <2>1, FS_AddElement DEF rank
  <2>3. ahead(x) \cup {x} \in SUBSET S
    BY <1>2
  <2>4. rank(x) + 1 <= Cardinality(S)
    BY <2>1, <2>2, <2>3, FS_Subset
  <2>5. QED
    BY <1>1, <2>1, <2>4, FS_CardinalityType
<1>3. rank(p) < Cardinality(channel)
  BY <1>2 DEF ahead
<1>4. ASSUME NEW q \in channel, newer(q, p) PROVE rank(q) < rank(p)
  <2>1. ASSUME NEW x \in ahead(q) PROVE x \in ahead(p)
    BY <1>4, <2>1, NewerOrder DEF ahead, ChannelFits
  <2>2. q \in ahead(p) /\ ahead(p) \in SUBSET channel
    BY <1>4 DEF ahead
  <2>3. QED
    BY <1>2, <2>1, <2>2 DEF rank
<1>5. QED
  BY <1>1, <1>3, <1>4

(* The ranks of n posts are 0, ..., n - 1. *)
LEMMA EveryRank ==
    ASSUME ChannelFits, NEW i \in 0..(Cardinality(channel) - 1)
    PROVE  \E p \in channel : rank(p) = i
<1> DEFINE N == Cardinality(channel)
           f == [p \in channel |-> rank(p)]
<1>1. N \in Nat
  BY FS_CardinalityType DEF ChannelFits
<1>2. f \in [channel -> 0..(N - 1)]
  BY <1>1, RankFacts
<1>3. \A p, q \in channel : f[p] = f[q] => p = q
  <2> SUFFICES ASSUME NEW p \in channel, NEW q \in channel, rank(p) = rank(q), p # q PROVE FALSE
    OBVIOUS
  <2>1. newer(p, q) \/ newer(q, p)
    BY NewerOrder DEF ChannelFits
  <2>2. QED
    BY <2>1, RankFacts
<1> HIDE DEF f
<1>4. f \in Injection(channel, 0..(N - 1))
  BY <1>2, <1>3 DEF Injection, IsInjective
<1>5. IsFiniteSet(0..(N - 1)) /\ Cardinality(0..(N - 1)) = N
  BY <1>1, FS_Interval, FS_EmptySet
<1>6. f \in Surjection(channel, 0..(N - 1))
  BY <1>4, <1>5, FS_Injection
<1>7. QED
  BY <1>6 DEF Surjection, f

LEMMA OptionFacts ==
    ASSUME options \in Options
    PROVE  options.pagination \in Nat \ {0} /\ options.maxPages \in Nat \ {0}
  BY DiscoveryAssumption DEF OptionType

LEMMA PageFacts ==
    ASSUME NEW n, NEW p
    PROVE  p \in pageOf(n) <=> /\ p \in channel
                               /\ (n - 1) * options.pagination <= rank(p)
                               /\ rank(p) < n * options.pagination
  BY DEF pageOf, rank, ahead

(* After a page that is not full there is no post.                         *)
LEMMA NoneAfterShortPage ==
    ASSUME ChannelFits, options \in Options, NEW n \in Nat \ {0},
           Cardinality(pageOf(n)) < options.pagination, NEW p \in channel
    PROVE  rank(p) < n * options.pagination
<1>1. PICK k \in Nat \ {0} : k = options.pagination
  BY OptionFacts
<1>2. PICK first \in Nat, next \in Nat :
         first = (n - 1) * k /\ next = n * k /\ next = first + k
  <2>1. (n - 1) * k \in Nat /\ n * k \in Nat /\ n * k = (n - 1) * k + k
    OBVIOUS
  <2>2. QED
    BY <2>1
<1> DEFINE I == first..(next - 1)
           P == pageOf(n)
           f == [x \in P |-> rank(x)]
<1>3. \A x : x \in P <=> x \in channel /\ first <= rank(x) /\ rank(x) < next
  BY <1>1, <1>2, PageFacts
<1>4. IsFiniteSet(P)
  BY <1>3, FS_Subset DEF ChannelFits
<1>5. \A x \in channel : rank(x) \in Nat /\ rank(x) < Cardinality(channel)
  BY RankFacts
<1> HIDE DEF P
<1>6. SUFFICES ASSUME rank(p) >= next PROVE FALSE
  BY <1>1, <1>2, <1>5
<1>7. f \in [P -> I]
  BY <1>3, <1>5
<1>8. ASSUME NEW i \in I PROVE \E x \in P : f[x] = i
  <2>1. i \in 0..(Cardinality(channel) - 1)
    BY <1>5, <1>6, FS_CardinalityType DEF ChannelFits
  <2>2. PICK x \in channel : rank(x) = i
    BY <2>1, EveryRank
  <2>3. x \in P
    BY <1>3, <2>2
  <2>4. QED
    BY <2>2, <2>3
<1>9. f \in Surjection(P, I)
  BY <1>7, <1>8 DEF Surjection
<1>10. Cardinality(I) <= Cardinality(P)
  BY <1>4, <1>9, FS_Surjection
<1>11. Cardinality(I) = k
  BY <1>2, FS_Interval
<1>12. Cardinality(P) < k
  BY <1>1 DEF P
<1>13. QED
  BY <1>4, <1>10, <1>11, <1>12, FS_CardinalityType

-----------------------------------------------------------------------------
(* What a scan selects *)

Dated(p) ==
    /\ p.updatedAt \in Nat
    /\ p.authorization # Absent => p.authorization.expiresAt \in Nat \cup {Absent}

(* The same posts hold no more addresses later than now: posts age, and    *)
(* authorizations expire.                                                  *)
LEMMA FewerLater ==
    ASSUME NEW C, \A p \in C : Dated(p), options' = options,
           now \in Nat, now' \in Nat, now <= now'
    PROVE  addressesIn(C)' \subseteq addressesIn(C)
<1> DEFINE recent == {p \in C : now - p.updatedAt <= MaxAge}
           later == {p \in C : now' - p.updatedAt <= MaxAge}
<1>1. PICK t \in Nat, u \in Nat : t = now /\ u = now' /\ t <= u
  OBVIOUS
<1>2. MaxAge \in Nat
  BY DiscoveryAssumption
<1>3. \A p \in later : p \in recent
  BY <1>1, <1>2 DEF Dated
<1>4. ASSUME NEW p \in later, NEW q \in recent, newer(q, p) PROVE q \in later
  BY <1>1, <1>2, <1>4 DEF Dated, newer
<1>5. selectCurrent(C) = {p \in recent : \A q \in recent : identity(q) = identity(p) => ~newer(q, p)}
  BY DEF selectCurrent
<1>6. selectCurrent(C)' = {p \in later : \A q \in later : identity(q) = identity(p) => ~newer(q, p)}
  BY DEF selectCurrent
<1>7. ASSUME NEW p \in selectCurrent(C)' PROVE p \in selectCurrent(C) /\ p \in C
  <2> HIDE DEF recent, later
  <2>1. p \in later
    BY <1>6, <1>7
  <2>2. p \in recent /\ p \in C
    BY <1>3, <2>1 DEF later
  <2>3. \A q \in recent : identity(q) = identity(p) => ~newer(q, p)
    BY <1>4, <1>6, <1>7, <2>1
  <2>4. QED
    BY <1>5, <2>2, <2>3
<1>8. ASSUME NEW p \in C, p.authorization # Absent, verifyAuthorization(p.authorization)'
      PROVE  verifyAuthorization(p.authorization)
  <2>1. PICK e \in Nat \cup {Absent} : e = p.authorization.expiresAt
    BY <1>8 DEF Dated
  <2>2. e = Absent \/ u <= e
    BY <1>1, <1>8, <2>1 DEF verifyAuthorization
  <2>3. e = Absent \/ t <= e
    BY <1>1, <2>1, <2>2
  <2>4. QED
    BY <1>1, <1>8, <2>1, <2>3 DEF verifyAuthorization
<1> DEFINE S == selectCurrent(C)'
           T == trusted(inScope(selectCurrent(C)))'
<1>9. ASSUME NEW p \in T PROVE p \in trusted(inScope(selectCurrent(C)))
  <2>1. p \in selectCurrent(C)'
    BY <1>9 DEF trusted, inScope
  <2>2. p \in selectCurrent(C) /\ p \in C
    BY <1>7, <2>1
  <2>3. p \in inScope(selectCurrent(C))
    BY <1>9, <2>2 DEF trusted, inScope
  <2>4. IF isDualKey(p)
        THEN options.verifyDualKeyAttestation => verifyDualKey(p)'
        ELSE ~options.requireDualKeyAttestation
    BY <1>9 DEF trusted, isDualKey
  <2>5. isDualKey(p) /\ verifyDualKey(p)' => verifyDualKey(p)
    BY <1>8, <2>2 DEF isDualKey, verifyDualKey, verifyProof
  <2>6. QED
    BY <2>3, <2>4, <2>5 DEF trusted
<1>10. addressesIn(C)' = filterPublic(UNION {p.addrs : p \in T}, options.browserDialableOnly,
                                     options.allowInsecureWebSockets)
  BY DEF addressesIn, multiaddrsOf
<1>11. addressesIn(C) = filterPublic(UNION {p.addrs : p \in trusted(inScope(selectCurrent(C)))},
                            options.browserDialableOnly, options.allowInsecureWebSockets)
  BY DEF addressesIn, multiaddrsOf
<1> HIDE DEF T
<1>12. QED
  BY <1>9, <1>10, <1>11 DEF filterPublic

(* An address comes from a post that none of its registration replaces.    *)
LEMMA AddressOf ==
    ASSUME NEW C, \A p \in C : Dated(p), now \in Nat, NEW a \in addressesIn(C)
    PROVE  \E p \in C : a \in p.addrs /\ \A q \in C : identity(q) = identity(p) => ~newer(q, p)
<1>1. PICK p \in selectCurrent(C) : a \in p.addrs
  BY DEF addressesIn, multiaddrsOf, filterPublic, trusted, inScope
<1>2. PICK t \in Nat : t = now
  OBVIOUS
<1>3. MaxAge \in Nat
  BY DiscoveryAssumption
<1>4. p \in C /\ t - p.updatedAt <= MaxAge
  BY <1>1, <1>2 DEF selectCurrent
<1>5. ASSUME NEW q \in C, identity(q) = identity(p), newer(q, p) PROVE FALSE
  <2>1. t - q.updatedAt <= MaxAge
    BY <1>3, <1>4, <1>5 DEF Dated, newer
  <2>2. QED
    BY <1>1, <1>2, <1>5, <2>1 DEF selectCurrent
<1>6. QED
  BY <1>1, <1>4, <1>5

-----------------------------------------------------------------------------
(* The invariant *)

(* A post that was published, as the clock and the count of posts have it. *)
Fits(p) ==
    /\ IsPost(p)
    /\ p.serial \in 1..signed
    /\ p.updatedAt \in 0..now
    /\ p.addrs # {}

ClockFits ==
    /\ now \in 0..MaxTime
    /\ options \in Options
    /\ pc \in {"idle", "page", "done", "failed"}
    /\ page \in 1..options.maxPages
    /\ disturbed \in BOOLEAN

DraftsFit ==
    /\ IsFiniteSet(drafts)
    /\ \A d \in drafts : d \in [writer: Writers, time: 0..now]
    /\ signed \in Nat
    /\ signed + Cardinality(drafts) <= MaxPosts

PostsFit ==
    /\ \A p \in sent \cup channel \cup atStart : Fits(p)
    /\ \A p \in collected : \E q : Fits(q) /\ p = normalized(q)
    /\ IsFiniteSet(channel)
    /\ \A p, q \in sent \cup channel : p.serial = q.serial => p = q

StartFits == pc = "idle" => page = 1 /\ collected = {}

(* Of the posts listed when the scan began, those not collected are still  *)
(* listed, on a page to come.                                              *)
PagesFit ==
    pc = "page" /\ ~disturbed =>
        /\ atStart \subseteq channel
        /\ \A p \in atStart :
             p.supported => \/ normalized(p) \in collected
                            \/ (page - 1) * options.pagination <= rank(p)

(* They were collected newest first.                                       *)
NewestFirst ==
    pc \in {"page", "done"} /\ ~disturbed =>
        \A p \in collected, q \in usableOf(atStart) : newer(q, p) => q \in collected

EmptyFits ==
    pc = "done" /\ result = {} /\ page < options.maxPages /\ ~disturbed =>
        /\ usableOf(atStart) \subseteq collected
        /\ addressesIn(collected) = {}

DiscoveryInv ==
    /\ ClockFits /\ DraftsFit /\ PostsFit /\ StartFits /\ PagesFit
    /\ NewestFirst /\ EmptyFits /\ NothingSuperseded

LEMMA FitsFacts ==
    ASSUME NEW p, Fits(p), ClockFits, DraftsFit
    PROVE  /\ p.serial \in Nat /\ p.updatedAt \in Nat
           /\ normalized(p).serial = p.serial /\ normalized(p).updatedAt = p.updatedAt
           /\ normalized(p).addrs = p.addrs
           /\ Dated(normalized(p))
<1>1. p.serial \in Nat /\ p.updatedAt \in Nat
  BY DEF Fits, ClockFits, DraftsFit
<1>2. QED
  BY <1>1, NormalizedFacts DEF Fits, Dated

LEMMA ChannelFact ==
    ASSUME PostsFit, ClockFits, DraftsFit
    PROVE  ChannelFits
  BY FitsFacts DEF PostsFit, ChannelFits

LEMMA CollectedDated ==
    ASSUME PostsFit, ClockFits, DraftsFit
    PROVE  \A p \in collected : Dated(p)
  BY FitsFacts DEF PostsFit

LEMMA UsableFact ==
    ASSUME NEW S, NEW p
    PROVE  p \in usableOf(S) <=> \E q \in S : q.supported /\ p = normalized(q)
  BY DEF usableOf

LEMMA UsableFinite ==
    ASSUME NEW S, IsFiniteSet(S), \A q \in S : q.supported
    PROVE  IsFiniteSet(usableOf(S))
<1> DEFINE f == [p \in S |-> normalized(p)]
           U == usableOf(S)
<1>1. f \in [S -> U] /\ \A u \in U : \E p \in S : f[p] = u
  BY UsableFact
<1> HIDE DEF f, U
<1>2. f \in Surjection(S, U)
  BY <1>1 DEF Surjection
<1>3. IsFiniteSet(U)
  BY <1>2, FS_Surjection
<1>4. QED
  BY <1>3 DEF U

(* Later listings only push a post back.                                   *)
LEMMA RankGrows ==
    ASSUME ChannelFits, IsFiniteSet(channel'), channel \subseteq channel', NEW p \in channel
    PROVE  rank(p) \in Nat /\ rank(p)' \in Nat /\ rank(p) <= rank(p)'
<1>1. PICK A, B : A = ahead(p) /\ B = ahead(p)'
  OBVIOUS
<1>2. A \in SUBSET B /\ IsFiniteSet(B)
  <2>1. A \subseteq B
    BY <1>1 DEF ahead
  <2>2. B \subseteq channel'
    BY <1>1 DEF ahead
  <2>3. QED
    BY <2>1, <2>2, FS_Subset
<1>3. Cardinality(A) <= Cardinality(B) /\ Cardinality(A) \in Nat /\ Cardinality(B) \in Nat
  BY <1>2, FS_Subset, FS_CardinalityType
<1>4. QED
  BY <1>1, <1>3 DEF rank

(* A page of usable posts has as many as it lists.                         *)
LEMMA UsableCount ==
    ASSUME ChannelFits, \A p \in channel : IsPost(p), NEW n,
           \A p \in pageOf(n) : p.supported
    PROVE  Cardinality(pageOf(n)) <= Cardinality(usableOf(pageOf(n)))
<1>1. PICK P, U : P = pageOf(n) /\ U = usableOf(pageOf(n))
  OBVIOUS
<1> DEFINE f == [p \in P |-> normalized(p)]
<1>2. P \subseteq channel /\ IsFiniteSet(P)
  BY <1>1, PageFacts, FS_Subset DEF ChannelFits
<1>3. \A u : u \in U <=> \E p \in P : u = normalized(p)
  BY <1>1, UsableFact
<1>4. \A p, q \in P : normalized(p) = normalized(q) => p = q
  <2>1. \A p \in P : normalized(p).serial = p.serial
    BY <1>2, NormalizedFacts
  <2>2. QED
    BY <1>2, <2>1 DEF ChannelFits
<1>5. f \in [P -> U] /\ (\A u \in U : \E p \in P : f[p] = u) /\ (\A p, q \in P : f[p] = f[q] => p = q)
  BY <1>3, <1>4
<1> HIDE DEF f
<1>6. f \in Surjection(P, U) /\ f \in Injection(P, U)
  BY <1>5 DEF Surjection, Injection, IsInjective
<1>7. IsFiniteSet(U)
  BY <1>2, <1>6, FS_Surjection
<1>8. QED
  BY <1>1, <1>6, <1>7, FS_Injection

LEMMA FitsStays ==
    ASSUME NEW p, Fits(p), now \in Nat, now' \in Nat, now <= now',
           signed \in Nat, signed' \in Nat, signed <= signed'
    PROVE  Fits(p)'
  BY DEF Fits

LEMMA PostsStay ==
    ASSUME PostsFit, UNCHANGED collected,
           now \in Nat, now' \in Nat, now <= now', signed \in Nat, signed' \in Nat, signed <= signed',
           \A p \in sent' \cup channel' \cup atStart' : p \in sent \cup channel \cup atStart,
           \A p \in sent' \cup channel' : p \in sent \cup channel,
           IsFiniteSet(channel')
    PROVE  PostsFit'
<1>1. \A p \in sent' \cup channel' \cup atStart' : Fits(p)'
  BY FitsStays DEF PostsFit
<1>2. \A p \in collected' : \E q : Fits(q)' /\ p = normalized(q)
  BY FitsStays DEF PostsFit
<1>3. QED
  BY <1>1, <1>2 DEF PostsFit

(* A step that leaves the scan alone.                                      *)
LEMMA ScanStays ==
    ASSUME DiscoveryInv, UNCHANGED scanVars, now' \in Nat, now <= now', disturbed => disturbed'
    PROVE  StartFits' /\ NewestFirst' /\ EmptyFits' /\ NothingSuperseded'
<1> USE DEF scanVars
<1>1. StartFits' /\ NewestFirst'
  BY DEF DiscoveryInv, StartFits, NewestFirst
<1>2. PICK C : C = collected
  OBVIOUS
<1>3. EmptyFits'
  <2>1. addressesIn(C)' \subseteq addressesIn(C)
    BY <1>2, CollectedDated, FewerLater DEF DiscoveryInv, ClockFits
  <2>2. addressesIn(collected)' = addressesIn(C)'
    BY <1>2
  <2>3. QED
    BY <1>2, <2>1, <2>2 DEF DiscoveryInv, EmptyFits
<1>4. NothingSuperseded'
  BY DEF DiscoveryInv, NothingSuperseded
<1>5. QED
  BY <1>1, <1>3, <1>4

LEMMA PagesStay ==
    ASSUME DiscoveryInv, UNCHANGED scanVars, channel \subseteq channel', IsFiniteSet(channel'),
           disturbed => disturbed'
    PROVE  PagesFit'
<1>1. SUFFICES ASSUME pc = "page", ~disturbed
               PROVE  /\ atStart \subseteq channel'
                      /\ \A p \in atStart :
                            p.supported => \/ normalized(p) \in collected
                                           \/ (page - 1) * options.pagination <= rank(p)'
  BY DEF PagesFit, scanVars
<1>2. atStart \subseteq channel
  BY <1>1 DEF DiscoveryInv, PagesFit
<1>3. ASSUME NEW p \in atStart, p.supported, normalized(p) \notin collected
      PROVE  (page - 1) * options.pagination <= rank(p)'
  <2>1. PICK first \in Nat : first = (page - 1) * options.pagination
    BY OptionFacts DEF DiscoveryInv, ClockFits
  <2>2. first <= rank(p)
    BY <1>1, <1>3, <2>1 DEF DiscoveryInv, PagesFit
  <2>3. rank(p) \in Nat /\ rank(p)' \in Nat /\ rank(p) <= rank(p)'
    BY <1>2, <1>3, ChannelFact, RankGrows DEF DiscoveryInv
  <2>4. QED
    BY <2>1, <2>2, <2>3
<1>4. QED
  BY <1>2, <1>3

LEMMA SignProofFits ==
    ASSUME DiscoveryInv, NEW w \in Writers, SignProof(w)
    PROVE  DiscoveryInv'
<1>1. now \in Nat /\ signed \in Nat /\ MaxPosts \in Nat /\ MaxTime \in Nat
      /\ UNCHANGED <<now, signed, sent, channel, scanVars, disturbed>>
  BY DiscoveryAssumption DEF SignProof, DiscoveryInv, ClockFits, DraftsFit
<1>2. ClockFits'
  BY <1>1 DEF DiscoveryInv, ClockFits, scanVars
<1>3. DraftsFit'
  <2> DEFINE d == [writer |-> w, time |-> now]
  <2>1. d \in [writer: Writers, time: 0..now] /\ d.writer = w
    BY <1>1
  <2> HIDE DEF d
  <2>2. d \notin drafts
    BY <2>1 DEF SignProof
  <2>3. IsFiniteSet(drafts \cup {d}) /\ Cardinality(drafts \cup {d}) = Cardinality(drafts) + 1
    BY <2>2, FS_AddElement DEF DiscoveryInv, DraftsFit
  <2>4. drafts' = drafts \cup {d}
    BY DEF d, SignProof
  <2>5. Cardinality(drafts) \in Nat
    BY FS_CardinalityType DEF DiscoveryInv, DraftsFit
  <2>6. PICK c \in Nat : c = Cardinality(drafts) /\ Cardinality(drafts \cup {d}) = c + 1
    BY <2>3, <2>5
  <2>7. signed + c < MaxPosts
    BY <2>6 DEF SignProof
  <2>8. signed + Cardinality(drafts') <= MaxPosts
    BY <1>1, <2>4, <2>6, <2>7
  <2>9. QED
    BY <1>1, <2>1, <2>3, <2>4, <2>8 DEF DiscoveryInv, DraftsFit
<1>4. PostsFit'
  BY <1>1, PostsStay DEF DiscoveryInv, scanVars, PostsFit
<1>5. PagesFit'
  BY <1>1, PagesStay DEF DiscoveryInv, PostsFit
<1>6. StartFits' /\ NewestFirst' /\ EmptyFits' /\ NothingSuperseded'
  BY <1>1, ScanStays
<1>7. QED
  BY <1>2, <1>3, <1>4, <1>5, <1>6 DEF DiscoveryInv

LEMMA SendFits ==
    ASSUME DiscoveryInv, NEW d \in drafts, Send(d)
    PROVE  DiscoveryInv'
<1>1. /\ now \in Nat /\ signed \in Nat /\ signed' = signed + 1 /\ UNCHANGED <<now, channel, scanVars, disturbed>>
      /\ drafts' = drafts \ {d}
  BY DEF Send, DiscoveryInv, ClockFits, DraftsFit
<1>2. ClockFits'
  BY <1>1 DEF DiscoveryInv, ClockFits, scanVars
<1>3. DraftsFit'
  <2>1. IsFiniteSet(drafts') /\ Cardinality(drafts') = Cardinality(drafts) - 1
    BY <1>1, FS_RemoveElement DEF DiscoveryInv, DraftsFit
  <2>2. signed' + Cardinality(drafts') = signed + Cardinality(drafts)
    BY <1>1, <2>1, FS_CardinalityType DEF DiscoveryInv, DraftsFit
  <2>3. QED
    BY <1>1, <2>1, <2>2 DEF DiscoveryInv, DraftsFit
<1>4. PostsFit'
  <2> DEFINE t == IF d.writer.now THEN d.time ELSE now
             p == PostBy(d.writer, signed + 1, d.time, t)
  <2>1. /\ d.writer \in Writers /\ d.time \in Nat /\ t \in Nat /\ t \in 0..now
        /\ sent' = IF p.addrs = {} THEN sent ELSE sent \cup {p}
    <3>1. d.writer \in Writers /\ d.time \in Nat /\ d.time \in 0..now
      BY <1>1 DEF DiscoveryInv, DraftsFit
    <3>2. postOf(d.writer, d.time, t) = p
      BY DEF postOf, PostBy
    <3>3. sent' = IF p.addrs = {} THEN sent ELSE sent \cup {p}
      BY <3>2 DEF Send
    <3>4. QED
      BY <1>1, <3>1, <3>3
  <2>2. IsPost(p) /\ p.serial = signed + 1 /\ p.updatedAt = t
    <3> HIDE DEF t
    <3>1. IsPost(p)
      BY <1>1, <2>1 DEF IsPost
    <3>2. QED
      BY <3>1 DEF PostBy
  <2> HIDE DEF t, p
  <2>3. PICK post : post = p
    OBVIOUS
  <2>4. post.addrs # {} => Fits(post)'
    BY <1>1, <2>1, <2>2, <2>3 DEF Fits
  <2>5. \A q \in sent \cup channel \cup atStart : Fits(q)' /\ q.serial \in Nat /\ q.serial <= signed
    <3>1. \A q \in sent \cup channel \cup atStart : Fits(q)'
      BY <1>1, FitsStays DEF DiscoveryInv, PostsFit
    <3>2. QED
      BY <1>1, <3>1 DEF Fits, DiscoveryInv, PostsFit
  <2>6. \A q \in sent' \cup channel' \cup atStart' : Fits(q)'
    BY <1>1, <2>1, <2>3, <2>5, <2>4 DEF scanVars
  <2>7. \A q \in collected' : \E o : Fits(o)' /\ q = normalized(o)
    BY <1>1, FitsStays DEF DiscoveryInv, PostsFit, scanVars
  <2>8. \A q, o \in sent' \cup channel' : q.serial = o.serial => q = o
    <3>1. \A q \in sent' \cup channel' : q \in sent \cup channel \/ q = p
      BY <1>1, <2>1
    <3>2. \A q \in sent \cup channel : q.serial # p.serial
      BY <1>1, <2>2, <2>5
    <3>3. QED
      BY <3>1, <3>2 DEF DiscoveryInv, PostsFit
  <2>9. QED
    BY <1>1, <2>6, <2>7, <2>8 DEF DiscoveryInv, PostsFit
<1>5. PagesFit'
  BY <1>1, PagesStay DEF DiscoveryInv, PostsFit
<1>6. StartFits' /\ NewestFirst' /\ EmptyFits' /\ NothingSuperseded'
  BY <1>1, ScanStays
<1>7. QED
  BY <1>2, <1>3, <1>4, <1>5, <1>6 DEF DiscoveryInv

LEMMA ListedFits ==
    ASSUME DiscoveryInv, NEW p \in sent, Listed(p)
    PROVE  DiscoveryInv'
<1>1. /\ now \in Nat /\ signed \in Nat
      /\ UNCHANGED <<now, drafts, signed, scanVars, disturbed>>
      /\ channel' = channel \cup {p} /\ sent' = sent \ {p}
  BY DEF Listed, DiscoveryInv, ClockFits, DraftsFit
<1>2. IsFiniteSet(channel')
  BY <1>1, FS_AddElement DEF DiscoveryInv, PostsFit
<1>3. ClockFits' /\ DraftsFit'
  BY <1>1 DEF DiscoveryInv, ClockFits, DraftsFit, scanVars
<1>4. PostsFit'
  BY <1>1, <1>2, PostsStay DEF DiscoveryInv, scanVars
<1>5. PagesFit'
  BY <1>1, <1>2, PagesStay
<1>6. StartFits' /\ NewestFirst' /\ EmptyFits' /\ NothingSuperseded'
  BY <1>1, ScanStays
<1>7. QED
  BY <1>3, <1>4, <1>5, <1>6 DEF DiscoveryInv

LEMMA ForgottenFits ==
    ASSUME DiscoveryInv, NEW p \in channel, Forgotten(p)
    PROVE  DiscoveryInv'
<1>1. /\ now \in Nat /\ signed \in Nat
      /\ UNCHANGED <<now, drafts, signed, sent, scanVars>>
      /\ channel' = channel \ {p} /\ disturbed' = (disturbed \/ pc = "page")
  BY DEF Forgotten, publishVars, DiscoveryInv, ClockFits, DraftsFit
<1>2. IsFiniteSet(channel')
  BY <1>1, FS_RemoveElement DEF DiscoveryInv, PostsFit
<1>3. ClockFits' /\ DraftsFit'
  BY <1>1 DEF DiscoveryInv, ClockFits, DraftsFit, scanVars
<1>4. PostsFit'
  BY <1>1, <1>2, PostsStay DEF DiscoveryInv, scanVars
<1>5. PagesFit'
  BY <1>1 DEF PagesFit, scanVars
<1>6. StartFits' /\ NewestFirst' /\ EmptyFits' /\ NothingSuperseded'
  <2>1. now' \in Nat /\ now <= now'
    BY <1>1
  <2>2. disturbed => disturbed'
    BY <1>1
  <2>3. UNCHANGED scanVars
    BY <1>1
  <2>4. QED
    BY <2>1, <2>2, <2>3, ScanStays
<1>7. QED
  BY <1>3, <1>4, <1>5, <1>6 DEF DiscoveryInv

LEMMA TickFits ==
    ASSUME DiscoveryInv, Tick
    PROVE  DiscoveryInv'
<1>1. /\ now \in Nat /\ signed \in Nat /\ MaxTime \in Nat /\ now < MaxTime /\ now' = now + 1
      /\ UNCHANGED <<drafts, signed, sent, channel, scanVars, disturbed>>
  BY DiscoveryAssumption DEF Tick, publishVars, DiscoveryInv, ClockFits, DraftsFit
<1>2. ClockFits'
  BY <1>1 DEF DiscoveryInv, ClockFits, scanVars
<1>3. DraftsFit'
  BY <1>1 DEF DiscoveryInv, DraftsFit
<1>4. PostsFit'
  BY <1>1, PostsStay DEF DiscoveryInv, scanVars, PostsFit
<1>5. PagesFit'
  BY <1>1, PagesStay DEF DiscoveryInv, PostsFit
<1>6. StartFits' /\ NewestFirst' /\ EmptyFits' /\ NothingSuperseded'
  BY <1>1, ScanStays
<1>7. QED
  BY <1>2, <1>3, <1>4, <1>5, <1>6 DEF DiscoveryInv

LEMMA BeginFits ==
    ASSUME DiscoveryInv, Begin
    PROVE  DiscoveryInv'
<1>1. /\ now \in Nat /\ signed \in Nat /\ pc = "idle" /\ pc' = "page" /\ atStart' = channel
      /\ UNCHANGED <<now, drafts, signed, sent, channel, options, page, collected, result, disturbed>>
  BY DEF Begin, publishVars, DiscoveryInv, ClockFits, DraftsFit
<1>2. page = 1 /\ collected = {}
  BY <1>1 DEF DiscoveryInv, StartFits
<1>3. ClockFits' /\ DraftsFit'
  BY <1>1 DEF DiscoveryInv, ClockFits, DraftsFit
<1>4. PostsFit'
  BY <1>1, PostsStay DEF DiscoveryInv, PostsFit
<1>5. PagesFit'
  <2>1. ASSUME NEW p \in channel PROVE (page' - 1) * options'.pagination <= rank(p)'
    <3>1. rank(p) \in Nat
      BY RankFacts, ChannelFact DEF DiscoveryInv
    <3>2. rank(p)' \in Nat
      BY <1>1, <3>1 DEF rank, ahead
    <3>3. (page' - 1) * options'.pagination = 0
      BY <1>1, <1>2, OptionFacts DEF DiscoveryInv, ClockFits
    <3>4. QED
      BY <3>2, <3>3
  <2>2. QED
    BY <1>1, <2>1 DEF PagesFit
<1>6. StartFits' /\ NewestFirst' /\ EmptyFits' /\ NothingSuperseded'
  BY <1>1, <1>2 DEF StartFits, NewestFirst, EmptyFits, NothingSuperseded
<1>7. QED
  BY <1>3, <1>4, <1>5, <1>6 DEF DiscoveryInv

LEMMA LookupFailsFits ==
    ASSUME DiscoveryInv, LookupFails
    PROVE  DiscoveryInv'
<1>1. /\ now \in Nat /\ signed \in Nat /\ pc' = "failed"
      /\ UNCHANGED <<now, drafts, signed, sent, channel, options, page, collected, result,
                     atStart, disturbed>>
  BY DEF LookupFails, publishVars, DiscoveryInv, ClockFits, DraftsFit
<1>2. ClockFits' /\ DraftsFit'
  BY <1>1 DEF DiscoveryInv, ClockFits, DraftsFit
<1>3. PostsFit'
  BY <1>1, PostsStay DEF DiscoveryInv, PostsFit
<1>4. PagesFit' /\ StartFits' /\ NewestFirst' /\ EmptyFits' /\ NothingSuperseded'
  BY <1>1 DEF PagesFit, StartFits, NewestFirst, EmptyFits, NothingSuperseded
<1>5. QED
  BY <1>2, <1>3, <1>4 DEF DiscoveryInv

(* A page brings the posts that come next in the order of the channel.     *)
LEMMA PageBrings ==
    ASSUME DiscoveryInv, pc = "page", ~disturbed, \A p \in pageOf(page) : p.supported,
           NEW U, U = usableOf(pageOf(page)), NEW C, C = collected \cup U
    PROVE  /\ \A q \in atStart :
                q.supported => normalized(q) \in C \/ page * options.pagination <= rank(q)
           /\ \A p \in C, q \in usableOf(atStart) : newer(q, p) => q \in C
           /\ Cardinality(U) < options.pagination => usableOf(atStart) \subseteq C
<1>1. PICK k \in Nat \ {0}, n \in Nat \ {0} : k = options.pagination /\ n = page
  BY OptionFacts DEF DiscoveryInv, ClockFits
<1>2. PICK first \in Nat, next \in Nat : first = (n - 1) * k /\ next = n * k
  <2>1. (n - 1) * k \in Nat /\ n * k \in Nat
    OBVIOUS
  <2>2. QED
    BY <2>1
<1>3. ChannelFits /\ (\A p \in channel : IsPost(p)) /\ (\A p \in channel : rank(p) \in Nat)
  <2>1. ChannelFits
    BY ChannelFact DEF DiscoveryInv
  <2>2. QED
    BY <2>1, RankFacts DEF DiscoveryInv, PostsFit, Fits
<1>4. /\ atStart \subseteq channel
      /\ \A q \in atStart : q.supported => normalized(q) \in collected \/ first <= rank(q)
  BY <1>1, <1>2 DEF DiscoveryInv, PagesFit
<1>5. \A p : p \in pageOf(page) <=> p \in channel /\ first <= rank(p) /\ rank(p) < next
  BY <1>1, <1>2, PageFacts
<1>6. \A u : u \in U <=> \E p \in pageOf(page) : u = normalized(p)
  BY UsableFact
<1>7. ASSUME NEW q \in atStart, q.supported PROVE normalized(q) \in C \/ next <= rank(q)
  BY <1>2, <1>3, <1>4, <1>5, <1>6, <1>7
<1>8. ASSUME NEW p \in C, NEW q \in usableOf(atStart), newer(q, p) PROVE q \in C
  <2>1. PICK o \in atStart : o.supported /\ q = normalized(o)
    BY UsableFact
  <2>2. CASE p \in collected
    BY <1>8, <2>2 DEF DiscoveryInv, NewestFirst
  <2>3. CASE p \in U
    <3>1. PICK r \in channel : p = normalized(r) /\ rank(r) < next
      BY <1>5, <1>6, <2>3
    <3>2. newer(o, r)
      BY <1>3, <1>4, <1>8, <2>1, <3>1, NormalizedFacts DEF newer
    <3>3. rank(o) < rank(r)
      BY <1>3, <1>4, <3>1, <3>2, RankFacts
    <3>4. rank(o) < next
      BY <1>3, <1>4, <3>1, <3>3
    <3>5. QED
      BY <1>3, <1>4, <1>7, <2>1, <3>4
  <2>4. QED
    BY <2>2, <2>3
<1>9. ASSUME Cardinality(U) < k, NEW q \in usableOf(atStart) PROVE q \in C
  <2>1. PICK o \in atStart : o.supported /\ q = normalized(o)
    BY UsableFact
  <2>2. Cardinality(pageOf(page)) <= Cardinality(U)
    BY <1>3, UsableCount
  <2>3. IsFiniteSet(pageOf(page))
    BY <1>3, <1>5, FS_Subset DEF ChannelFits
  <2>4. Cardinality(pageOf(page)) \in Nat
    BY <2>3, FS_CardinalityType
  <2>5. Cardinality(U) \in Nat
    <3>1. IsFiniteSet(U)
      BY <2>3, UsableFinite
    <3>2. QED
      BY <3>1, FS_CardinalityType
  <2>6. Cardinality(pageOf(page)) < k
    BY <1>9, <2>2, <2>4, <2>5
  <2>7. rank(o) < next
    BY <1>1, <1>2, <1>3, <1>4, <2>6, NoneAfterShortPage DEF DiscoveryInv, ClockFits
  <2>8. QED
    BY <1>3, <1>4, <1>7, <2>1, <2>7
<1>10. QED
  BY <1>1, <1>2, <1>7, <1>8, <1>9

LEMMA ReadPageFits ==
    ASSUME DiscoveryInv, ReadPage
    PROVE  DiscoveryInv'
<1>1. PICK U, C : /\ U = usableOf(pageOf(page)) /\ C = collected \cup U
                  /\ collected' = C /\ result' = addressesIn(C)
  BY DEF ReadPage
<1>2. /\ now \in Nat /\ signed \in Nat /\ pc = "page" /\ page \in Nat /\ options.maxPages \in Nat
      /\ options.pagination \in Nat
      /\ UNCHANGED <<now, drafts, signed, sent, channel, options, atStart>>
      /\ disturbed' = (disturbed \/ \E p \in pageOf(page) : ~p.supported)
  BY OptionFacts DEF ReadPage, publishVars, DiscoveryInv, ClockFits, DraftsFit
<1>3. \/ pc' = "page" /\ page' = page + 1 /\ page < options.maxPages
      \/ /\ pc' = "done" /\ page' = page
         /\ result' = {} => ~(Cardinality(U) >= options.pagination /\ page < options.maxPages)
  BY <1>1, <1>2 DEF ReadPage
<1>4. ClockFits' /\ DraftsFit'
  <2>1. DraftsFit'
    BY <1>2 DEF DiscoveryInv, DraftsFit
  <2>2. page' \in 1..options.maxPages /\ pc' \in {"page", "done"}
    BY <1>2, <1>3 DEF DiscoveryInv, ClockFits
  <2>3. disturbed' \in BOOLEAN
    BY <1>2
  <2>4. QED
    BY <1>2, <2>1, <2>2, <2>3 DEF DiscoveryInv, ClockFits
<1>5. ASSUME NEW p \in C PROVE \E q : Fits(q) /\ p = normalized(q)
  <2>1. CASE p \in collected
    BY <2>1 DEF DiscoveryInv, PostsFit
  <2>2. CASE p \in U
    <3>1. PICK q \in pageOf(page) : p = normalized(q)
      BY <1>1, <2>2, UsableFact
    <3>2. q \in channel
      BY PageFacts
    <3>3. QED
      BY <3>1, <3>2 DEF DiscoveryInv, PostsFit
  <2>3. QED
    BY <1>1, <1>5, <2>1, <2>2
<1>6. PostsFit'
  <2>1. \A p \in sent' \cup channel' \cup atStart' : Fits(p)'
    BY <1>2, FitsStays DEF DiscoveryInv, PostsFit
  <2>2. \A p \in collected' : \E q : Fits(q)' /\ p = normalized(q)
    BY <1>1, <1>2, <1>5, FitsStays
  <2>3. QED
    BY <1>2, <2>1, <2>2 DEF DiscoveryInv, PostsFit
<1>7. \A p \in C : Dated(p)
  BY <1>5, FitsFacts DEF DiscoveryInv
<1>8. ASSUME ~disturbed'
      PROVE  PagesFit' /\ NewestFirst' /\ EmptyFits' /\ NothingSuperseded'
  <2>1. ~disturbed /\ \A p \in pageOf(page) : p.supported
    BY <1>2, <1>8
  <2>2. /\ \A q \in atStart :
             q.supported => normalized(q) \in C \/ page * options.pagination <= rank(q)
        /\ \A p \in C, q \in usableOf(atStart) : newer(q, p) => q \in C
        /\ Cardinality(U) < options.pagination => usableOf(atStart) \subseteq C
    BY <1>1, <1>2, <2>1, PageBrings
  <2>3. PagesFit'
    <3>1. SUFFICES ASSUME pc' = "page"
                   PROVE  /\ atStart \subseteq channel
                          /\ \A p \in atStart :
                               p.supported => \/ normalized(p) \in C
                                              \/ (page' - 1) * options.pagination <= rank(p)'
      BY <1>1, <1>2 DEF PagesFit
    <3>2. atStart \subseteq channel
      BY <1>2, <2>1 DEF DiscoveryInv, PagesFit
    <3>3. page' - 1 = page
      BY <1>2, <1>3, <3>1
    <3>4. \A p : rank(p)' = rank(p)
      BY <1>2 DEF rank, ahead
    <3>5. QED
      BY <2>2, <3>2, <3>3, <3>4
  <2>4. NewestFirst'
    BY <1>1, <1>2, <2>2 DEF NewestFirst
  <2>5. EmptyFits'
    <3>1. SUFFICES ASSUME pc' = "done", result' = {}, page' < options.maxPages
                   PROVE  usableOf(atStart) \subseteq C /\ addressesIn(C)' = {}
      BY <1>1, <1>2 DEF EmptyFits
    <3>2. Cardinality(U) < options.pagination
      <4>1. IsFiniteSet(channel)
        BY DEF DiscoveryInv, PostsFit
      <4>2. IsFiniteSet(pageOf(page))
        BY <4>1, PageFacts, FS_Subset
      <4>3. IsFiniteSet(U)
        BY <1>1, <2>1, <4>2, UsableFinite
      <4>4. Cardinality(U) \in Nat
        BY <4>3, FS_CardinalityType
      <4>5. QED
        BY <1>2, <1>3, <3>1, <4>4
    <3>3. addressesIn(C)' \subseteq addressesIn(C)
      BY <1>2, <1>7, FewerLater
    <3>4. QED
      BY <1>1, <2>2, <3>1, <3>2, <3>3
  <2>6. NothingSuperseded'
    <3>1. ASSUME NEW a \in addressesIn(C)
          PROVE  \E p \in C : /\ a \in p.addrs
                              /\ \A q \in usableOf(atStart) : identity(q) = identity(p) => ~newer(q, p)
      BY <1>2, <1>7, <2>2, AddressOf
    <3>2. QED
      BY <1>1, <1>2, <3>1 DEF NothingSuperseded
  <2>7. QED
    BY <2>3, <2>4, <2>5, <2>6
<1>9. StartFits'
  BY <1>3 DEF StartFits
<1>10. disturbed' => PagesFit' /\ NewestFirst' /\ EmptyFits' /\ NothingSuperseded'
  BY DEF PagesFit, NewestFirst, EmptyFits, NothingSuperseded
<1>11. QED
  BY <1>4, <1>6, <1>8, <1>9, <1>10 DEF DiscoveryInv

LEMMA DiscoveryInvInit ==
    DiscoveryInit => DiscoveryInv
<1> SUFFICES ASSUME DiscoveryInit PROVE DiscoveryInv
  OBVIOUS
<1> USE DEF DiscoveryInit
<1>1. ClockFits
  <2>1. options \in Options
    OBVIOUS
  <2>2. options.maxPages \in Nat \ {0}
    BY <2>1, OptionFacts
  <2>3. 1 \in 1..options.maxPages /\ 0 \in 0..MaxTime
    BY <2>2, DiscoveryAssumption
  <2>4. QED
    BY <2>3 DEF ClockFits
<1>2. DraftsFit
  <2>1. IsFiniteSet(drafts) /\ Cardinality(drafts) = 0
    BY FS_EmptySet
  <2>2. QED
    BY <2>1, DiscoveryAssumption DEF DraftsFit
<1>3. PostsFit
  BY FS_EmptySet DEF PostsFit
<1>4. StartFits /\ PagesFit /\ NewestFirst /\ EmptyFits /\ NothingSuperseded
  BY DEF StartFits, PagesFit, NewestFirst, EmptyFits, NothingSuperseded
<1>5. QED
  BY <1>1, <1>2, <1>3, <1>4 DEF DiscoveryInv

LEMMA DiscoveryInvStutter ==
    ASSUME DiscoveryInv, UNCHANGED discoveryVars
    PROVE  DiscoveryInv'
<1>1. /\ now \in Nat /\ signed \in Nat
      /\ UNCHANGED <<now, drafts, signed, sent, channel, scanVars, disturbed>>
  BY DEF discoveryVars, publishVars, scanVars, DiscoveryInv, ClockFits, DraftsFit
<1>2. ClockFits' /\ DraftsFit'
  BY <1>1 DEF DiscoveryInv, ClockFits, DraftsFit, scanVars
<1>3. PostsFit'
  BY <1>1, PostsStay DEF DiscoveryInv, scanVars, PostsFit
<1>4. PagesFit'
  BY <1>1, PagesStay DEF DiscoveryInv, PostsFit
<1>5. StartFits' /\ NewestFirst' /\ EmptyFits' /\ NothingSuperseded'
  BY <1>1, ScanStays
<1>6. QED
  BY <1>2, <1>3, <1>4, <1>5 DEF DiscoveryInv

(* Every reachable state of publishers, channel and scan fits together.    *)
THEOREM DiscoveryInvariance == DiscoverySpec => []DiscoveryInv
<1>1. DiscoveryInit => DiscoveryInv
  BY DiscoveryInvInit
<1>2. DiscoveryInv /\ [DiscoveryNext]_discoveryVars => DiscoveryInv'
  <2> SUFFICES ASSUME DiscoveryInv, [DiscoveryNext]_discoveryVars
               PROVE  DiscoveryInv'
    OBVIOUS
  <2>1. ASSUME NEW w \in Writers, SignProof(w) PROVE DiscoveryInv'
    BY <2>1, SignProofFits
  <2>2. ASSUME NEW d \in drafts, Send(d) PROVE DiscoveryInv'
    BY <2>2, SendFits
  <2>3. ASSUME NEW p \in sent, Listed(p) PROVE DiscoveryInv'
    BY <2>3, ListedFits
  <2>4. ASSUME NEW p \in channel, Forgotten(p) PROVE DiscoveryInv'
    BY <2>4, ForgottenFits
  <2>5. CASE Begin
    BY <2>5, BeginFits
  <2>6. CASE ReadPage
    BY <2>6, ReadPageFits
  <2>7. CASE LookupFails
    BY <2>7, LookupFailsFits
  <2>8. CASE Tick
    BY <2>8, TickFits
  <2>9. CASE UNCHANGED discoveryVars
    BY <2>9, DiscoveryInvStutter
  <2>10. QED
    BY <2>1, <2>2, <2>3, <2>4, <2>5, <2>6, <2>7, <2>8, <2>9 DEF DiscoveryNext, Publish, Scan
<1>3. QED
  BY <1>1, <1>2, PTL DEF DiscoverySpec

(* The type invariant: posts carry numbers that were given out and times   *)
(* that have passed, and the scan is on a page it may read.                *)
THEOREM DiscoveryTypeCorrect == DiscoverySpec => []DiscoveryTypeOK
<1>1. DiscoveryInv => DiscoveryTypeOK
  <2> SUFFICES ASSUME DiscoveryInv PROVE DiscoveryTypeOK
    OBVIOUS
  <2>1. now \in 0..MaxTime /\ MaxTime \in Nat /\ MaxPosts \in Nat
    BY DiscoveryAssumption DEF DiscoveryInv, ClockFits
  <2>2. drafts \subseteq [writer: Writers, time: 0..MaxTime]
    BY <2>1 DEF DiscoveryInv, DraftsFit
  <2>3. signed \in 0..MaxPosts
    BY <2>1, FS_CardinalityType DEF DiscoveryInv, DraftsFit
  <2>4. ASSUME NEW p \in sent \cup channel \cup atStart
        PROVE  p.serial \in 1..signed /\ p.updatedAt \in 0..now /\ p.addrs # {}
    BY <2>4 DEF DiscoveryInv, PostsFit, Fits
  <2>5. ASSUME NEW p \in collected
        PROVE  p.serial \in 1..signed /\ p.updatedAt \in 0..now /\ p.addrs # {}
    <3>1. PICK q : Fits(q) /\ p = normalized(q)
      BY <2>5 DEF DiscoveryInv, PostsFit
    <3>2. QED
      BY <3>1, FitsFacts DEF DiscoveryInv, Fits
  <2>6. QED
    BY <2>1, <2>2, <2>3, <2>4, <2>5 DEF DiscoveryInv, ClockFits, DiscoveryTypeOK
<1>2. QED
  BY <1>1, DiscoveryInvariance, PTL

(* A scan that ends empty before its last page missed nothing: the page    *)
(* that was not full was the last, and those before it left no post out.   *)
THEOREM EmptyScanComplete == DiscoverySpec => []EmptyIsComplete
<1>1. DiscoveryInv => EmptyIsComplete
  <2> SUFFICES ASSUME DiscoveryInv, pc = "done", result = {}, page < options.maxPages, ~disturbed
               PROVE  /\ usableOf(atStart) \subseteq collected
                      /\ addressesIn(usableOf(atStart) \cup collected) = {}
    BY DEF EmptyIsComplete
  <2>1. usableOf(atStart) \subseteq collected /\ addressesIn(collected) = {}
    BY DEF DiscoveryInv, EmptyFits
  <2>2. usableOf(atStart) \cup collected = collected
    BY <2>1
  <2>3. QED
    BY <2>1, <2>2
<1>2. QED
  BY <1>1, DiscoveryInvariance, PTL

(* No address returned is from a post that a newer one of its registration *)
(* had replaced when the scan began.                                       *)
THEOREM NoneSuperseded == DiscoverySpec => []NothingSuperseded
<1>1. DiscoveryInv => NothingSuperseded
  BY DEF DiscoveryInv
<1>2. QED
  BY <1>1, DiscoveryInvariance, PTL

(* What a publisher signs with both keys verifies when it is read, and the *)
(* cut to CompactLimit addresses leaves a browser one it can dial.         *)
THEOREM PostsStayUsable == DiscoverySpec => []PostsAreUsable
<1>1. DiscoveryInv => PostsAreUsable
  <2> SUFFICES ASSUME DiscoveryInv, NEW p \in channel
               PROVE  \E w \in Writers : WorthSigned(p, w)
    BY DEF PostsAreUsable, WorthSigned
  <2>1. IsPost(p)
    BY DEF DiscoveryInv, PostsFit, Fits
  <2>2. PICK w \in Writers, n \in Nat, proofTime \in Nat, time \in Nat : p = PostBy(w, n, proofTime, time)
    BY <2>1 DEF IsPost
  <2>3. WorthSigned(p, w)
    BY <2>2, PostUsable
  <2>4. QED
    BY <2>3
<1>2. QED
  BY <1>1, DiscoveryInvariance, PTL
=============================================================================
