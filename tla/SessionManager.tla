--------------------------- MODULE SessionManager ---------------------------
(***************************************************************************)
(* The session manager (src/src/session_manager/session_manager.go) with   *)
(* the OT manager it shares between sessions (ote.Manager in session.go)   *)
(* and the parts of httpHandler/destroyOnPanic (main.go) and Session that  *)
(* signal it.                                                              *)
(*                                                                         *)
(* A session object is <<sid, n>>: the n-th Session stored under sid.      *)
(* Its protocol steps are abstracted to the four that touch the manager:   *)
(* steps that spawn an OT goroutine, commitHash (Disconnect + release),    *)
(* tagVerification (destroy + release) and a panicking step               *)
(* (destroyOnPanic: destroy + release).                                    *)
(*                                                                         *)
(* Concurrency: every request, every Listen goroutine spawned by           *)
(* AddSession, every OT goroutine and the three monitor goroutines run in  *)
(* parallel.  DestroyChan and OtReleaseChan are unbuffered: a sender       *)
(* blocks until the monitor takes its message; a goroutine that sends two  *)
(* signals sends them in its own order.  removeSession is not atomic: the  *)
(* stale-session monitor and the destroy monitor each run it, one shared   *)
(* access per step, and may run it for the same sid at once.               *)
(***************************************************************************)
EXTENDS Naturals, Sequences, FiniteSets

CONSTANTS
  Sid,          \* session ids (the query string of each request)
  NoSid,        \* "" : otOwner when nobody owns the OT
  MaxObj,       \* Session objects that may exist at once under one sid
  Retry,        \* TRUE: a client may repeat "init" for a sid still in the map
  Reuse,        \* TRUE: a client may send "init" again for a removed sid
  OtFaults      \* TRUE: an OT call may fail while the OT is connected

ASSUME ManagerAssumption ==
  /\ NoSid \notin Sid
  /\ MaxObj \in Nat \ {0}
  /\ Retry \in BOOLEAN
  /\ Reuse \in BOOLEAN
  /\ OtFaults \in BOOLEAN

Obj == Sid \X (1..MaxObj)
SidOf(o) == o[1]
Stages == {"free", "added", "initing", "active", "committed", "finished"}
Msgs == {"destroy", "release"}
Monitors == {"timer", "destroy"}   \* monitorSessions, monitorDestroyChan
RmPCs == {"idle", "owner", "clear", "files", "delete"}

VARIABLES
  smap,       \* smap[k]: the object sm.sessions[k] points to, or 0
  stage,      \* stage[o]: protocol progress of object o ("free": unused)
  dirs,       \* objects whose StorageDir (and truth-table files) exist
  otOwner,    \* sm.otOwner
  connected,  \* ot.Manager native IsConnected()
  spawned,    \* Listen goroutines started by AddSession, not yet in Listen
  listening,  \* Listen goroutines blocked in native Connect
  jobs,       \* objects with an OT goroutine running (c_step1 and the like)
  senders,    \* goroutines blocked on DestroyChan/OtReleaseChan: [o, msgs]
  crashed,    \* an unrecovered panic in a goroutine ended the process
  rm,         \* rm[g]: the removeSession call monitor g is in: [key, pc]
  inited      \* sids the clients have sent "init" for (history)

vars == <<smap, stage, dirs, otOwner, connected, spawned, listening, jobs,
          senders, crashed, rm, inited>>

Sender == [o : Obj, msgs : Seq(Msgs) \ {<< >>}]
Remover == [key : Sid \cup {NoSid}, pc : RmPCs]

TypeOK ==
  /\ smap \in [Sid -> 0..MaxObj]
  /\ stage \in [Obj -> Stages]
  /\ dirs \subseteq Obj
  /\ otOwner \in Sid \cup {NoSid}
  /\ connected \in BOOLEAN
  /\ spawned \subseteq Obj
  /\ listening \subseteq Obj
  /\ jobs \subseteq Obj
  /\ senders \subseteq Sender
  /\ crashed \in BOOLEAN
  /\ rm \in [Monitors -> Remover]
  /\ inited \subseteq Sid

Current(k) == <<k, smap[k]>>
InMap(k) == smap[k] # 0

\* An object nobody refers to any more can stand for a new Session: its
\* init request has returned and no goroutine or map entry names it.
Unused(o) ==
  /\ smap[SidOf(o)] # o[2]
  /\ stage[o] \notin {"added", "initing"}
  /\ o \notin dirs \cup spawned \cup listening \cup jobs
  /\ \A s \in senders : s.o # o

Signal(o, msgs) == senders' = senders \cup {[o |-> o, msgs |-> msgs]}

(***************************************************************************)
(* "init" (httpHandler 122-145).  AddSession (92-186) refuses with 409     *)
(* while otOwner is set; otherwise a new Session replaces whatever the map *)
(* held under k, and a Listen goroutine is spawned.                        *)
(***************************************************************************)
AddSession(k, o) ==
  /\ ~crashed
  /\ SidOf(o) = k
  /\ InMap(k) => Retry
  /\ k \in inited /\ ~InMap(k) => Reuse
  /\ otOwner = NoSid
  /\ stage[o] = "free" /\ Unused(o)
  /\ smap' = [smap EXCEPT ![k] = o[2]]
  /\ spawned' = spawned \cup {o}
  /\ inited' = inited \cup {k}
  /\ stage' = [stage EXCEPT ![o] = "added"]
  /\ UNCHANGED <<dirs, otOwner, connected, listening, jobs, senders, crashed, rm>>

\* Mutant: destroyOnPanic signals for the Session the map holds now, not
\* the one the request looked up.
InitLookupRelookup(o) ==
  /\ ~crashed
  /\ stage[o] = "added"
  /\ IF InMap(SidOf(o)) /\ Current(SidOf(o)) = o
     THEN stage' = [stage EXCEPT ![o] = "initing"] /\ UNCHANGED senders
     ELSE /\ stage' = [stage EXCEPT ![o] = "finished"]
          /\ \/ ~InMap(SidOf(o)) /\ UNCHANGED senders
             \/ Signal(Current(SidOf(o)), <<"destroy", "release">>)
  /\ UNCHANGED <<smap, dirs, otOwner, connected, spawned, listening, jobs,
                 crashed, rm, inited>>

\* sm.GetSession(sid) and sm.GetMethod("init", sid) read the map again.  No
\* entry: a 500, or (removed between the two) GetMethod panics and
\* destroyOnPanic signals.  Another Session under k (a repeated "init"):
\* its Init runs a second time and sequenceCheck(1) panics in one of them.
InitLookup(o) ==
  /\ ~crashed
  /\ stage[o] = "added"
  /\ IF InMap(SidOf(o)) /\ Current(SidOf(o)) = o
     THEN stage' = [stage EXCEPT ![o] = "initing"] /\ UNCHANGED senders
     ELSE /\ stage' = [stage EXCEPT ![o] = "finished"]
          /\ \/ ~InMap(SidOf(o)) /\ UNCHANGED senders
             \/ Signal(o, <<"destroy", "release">>)
  /\ UNCHANGED <<smap, dirs, otOwner, connected, spawned, listening, jobs,
                 crashed, rm, inited>>

\* readBody, then Session.Init (130-184): it creates the StorageDir
\* (Mkdir, 151-155) whether or not the map still holds the Session, or
\* panics before (short body, u.Assert at 143, Abs, Mkdir).
InitBody(o) ==
  /\ ~crashed
  /\ stage[o] = "initing"
  /\ \/ /\ dirs' = dirs \cup {o}
        /\ stage' = [stage EXCEPT ![o] = "active"]
        /\ UNCHANGED senders
     \/ /\ stage' = [stage EXCEPT ![o] = "finished"]
        /\ Signal(o, <<"destroy", "release">>)
        /\ UNCHANGED dirs
  /\ UNCHANGED <<smap, otOwner, connected, spawned, listening, jobs, crashed,
                 rm, inited>>

\* sm.ot.Listen(): IsConnected() makes it return "busy", and the goroutine
\* panics with that error, which nothing recovers.
ListenStart(o) ==
  /\ ~crashed
  /\ o \in spawned
  /\ spawned' = spawned \ {o}
  /\ IF connected
     THEN crashed' = TRUE /\ UNCHANGED listening
     ELSE listening' = listening \cup {o} /\ UNCHANGED crashed
  /\ UNCHANGED <<smap, stage, dirs, otOwner, connected, jobs, senders, rm, inited>>

\* A client connects to the OT port; the blocked Connect returns and the
\* goroutine sets sm.otOwner = key, whether or not that session still exists.
Accept(o) ==
  /\ ~crashed
  /\ o \in listening
  /\ ~connected
  /\ listening' = listening \ {o}
  /\ connected' = TRUE
  /\ otOwner' = SidOf(o)
  /\ UNCHANGED <<smap, stage, dirs, spawned, jobs, senders, crashed, rm, inited>>

(***************************************************************************)
(* Steps of the session currently stored under k.                          *)
(***************************************************************************)
\* c_step1, c4_step1A, C4_step3, C5_step3, C6_step1, Ghash_step1..3 spawn a
\* goroutine that calls RespondWithData / RequestData on the shared OT.
OtStep(k) ==
  /\ ~crashed
  /\ InMap(k)
  /\ stage[Current(k)] = "active"
  /\ Current(k) \notin jobs
  /\ jobs' = jobs \cup {Current(k)}
  /\ UNCHANGED <<smap, stage, dirs, otOwner, connected, spawned, listening,
                 senders, crashed, rm, inited>>

JobDone(o) ==
  /\ ~crashed
  /\ o \in jobs
  /\ connected
  /\ jobs' = jobs \ {o}
  /\ UNCHANGED <<smap, stage, dirs, otOwner, connected, spawned, listening,
                 senders, crashed, rm, inited>>

\* The call returns an error ("not connected", or a native failure): the
\* goroutine sends OtReleaseChan first, then DestroyChan.
JobFail(o) ==
  /\ ~crashed
  /\ o \in jobs
  /\ OtFaults \/ ~connected
  /\ jobs' = jobs \ {o}
  /\ Signal(o, <<"release", "destroy">>)
  /\ UNCHANGED <<smap, stage, dirs, otOwner, connected, spawned, listening,
                 crashed, rm, inited>>

\* CommitHash (session.go 764-797): s.Ot.Disconnect(), then OtReleaseChan.
CommitHash(k) ==
  /\ ~crashed
  /\ InMap(k)
  /\ stage[Current(k)] = "active"
  /\ stage' = [stage EXCEPT ![Current(k)] = "committed"]
  /\ connected' = FALSE
  /\ Signal(Current(k), <<"release">>)
  /\ UNCHANGED <<smap, dirs, otOwner, spawned, listening, jobs, crashed, rm, inited>>

\* httpHandler after "tagVerification": DestroyChan, then OtReleaseChan.
TagVerification(k) ==
  /\ ~crashed
  /\ InMap(k)
  /\ stage[Current(k)] = "committed"
  /\ stage' = [stage EXCEPT ![Current(k)] = "finished"]
  /\ Signal(Current(k), <<"destroy", "release">>)
  /\ UNCHANGED <<smap, dirs, otOwner, connected, spawned, listening, jobs,
                 crashed, rm, inited>>

\* A request for k panics (sequence violation, failed assertion):
\* destroyOnPanic sends DestroyChan, then OtReleaseChan.  While the init
\* request is still running it is another request, and init goes on.
StepPanic(k) ==
  /\ ~crashed
  /\ InMap(k)
  /\ stage[Current(k)] \in {"added", "initing", "active", "committed"}
  /\ stage' = IF stage[Current(k)] \in {"active", "committed"}
              THEN [stage EXCEPT ![Current(k)] = "finished"] ELSE stage
  /\ Signal(Current(k), <<"destroy", "release">>)
  /\ UNCHANGED <<smap, dirs, otOwner, connected, spawned, listening, jobs,
                 crashed, rm, inited>>

(***************************************************************************)
(* The manager's goroutines.  A monitor that is in removeSession does not  *)
(* take the next sid: monitorDestroyChan receives again only after its     *)
(* call returns, so a sender waits on the unbuffered channel meanwhile.    *)
(***************************************************************************)
Idle == [key |-> NoSid, pc |-> "idle"]

Call(g, k) == rm' = [rm EXCEPT ![g] = [key |-> k, pc |-> "owner"]]

Goto(g, pc) ==
  rm' = [rm EXCEPT ![g] = IF pc = "idle" THEN Idle
                          ELSE [key |-> rm[g].key, pc |-> pc]]

\* monitorSessions ranges over sm.sessions: a session idle for 1200 s or
\* older than 2400 s is removed.
MonitorSessions(k) ==
  /\ ~crashed
  /\ rm["timer"].pc = "idle"
  /\ InMap(k)
  /\ Call("timer", k)
  /\ UNCHANGED <<smap, stage, dirs, otOwner, connected, spawned, listening,
                 jobs, senders, crashed, inited>>

Delivered(s) ==
  senders' = IF Len(s.msgs) = 1 THEN senders \ {s}
             ELSE (senders \ {s}) \cup {[o |-> s.o, msgs |-> Tail(s.msgs)]}

\* monitorDestroyChan: sid := <-destroyChan; removeSession(sid)
MonitorDestroyChan(s) ==
  /\ ~crashed
  /\ rm["destroy"].pc = "idle"
  /\ s \in senders
  /\ Head(s.msgs) = "destroy"
  /\ Delivered(s)
  /\ Call("destroy", SidOf(s.o))
  /\ UNCHANGED <<smap, stage, dirs, otOwner, connected, spawned, listening,
                 jobs, crashed, inited>>

(***************************************************************************)
(* removeSession(key) (217-244), one step per access to shared state.      *)
(***************************************************************************)
\* if sm.otOwner == key { sm.ot.Disconnect() ...
RmOwner(g) ==
  /\ ~crashed
  /\ rm[g].pc = "owner"
  /\ IF otOwner = rm[g].key
     THEN connected' = FALSE /\ Goto(g, "clear")
     ELSE UNCHANGED connected /\ Goto(g, "files")
  /\ UNCHANGED <<smap, stage, dirs, otOwner, spawned, listening, jobs,
                 senders, crashed, inited>>

\* ... sm.otOwner = "" }
RmClear(g) ==
  /\ ~crashed
  /\ rm[g].pc = "clear"
  /\ otOwner' = NoSid
  /\ Goto(g, "files")
  /\ UNCHANGED <<smap, stage, dirs, connected, spawned, listening, jobs,
                 senders, crashed, inited>>

\* Mutant: removeSession deletes the map entry but not the StorageDir.
RmFilesKeepDir(g) ==
  /\ ~crashed
  /\ rm[g].pc = "files"
  /\ IF InMap(rm[g].key) THEN Goto(g, "delete") ELSE Goto(g, "idle")
  /\ UNCHANGED <<smap, stage, dirs, otOwner, connected, spawned, listening,
                 jobs, senders, crashed, inited>>

\* Mutant: removeSession returns once the files are gone (say, on a logged
\* RemoveAll error) and leaves the map entry.
RmFilesReturn(g) ==
  /\ ~crashed
  /\ rm[g].pc = "files"
  /\ IF InMap(rm[g].key) THEN dirs' = dirs \ {Current(rm[g].key)}
     ELSE UNCHANGED dirs
  /\ Goto(g, "idle")
  /\ UNCHANGED <<smap, stage, otOwner, connected, spawned, listening, jobs,
                 senders, crashed, inited>>

\* s, ok := sm.sessions[key] (no lock); if !ok, return; otherwise
\* os.RemoveAll(s.session.StorageDir) and os.Remove of its truth tables.
RmFiles(g) ==
  /\ ~crashed
  /\ rm[g].pc = "files"
  /\ IF InMap(rm[g].key)
     THEN dirs' = dirs \ {Current(rm[g].key)} /\ Goto(g, "delete")
     ELSE UNCHANGED dirs /\ Goto(g, "idle")
  /\ UNCHANGED <<smap, stage, otOwner, connected, spawned, listening, jobs,
                 senders, crashed, inited>>

\* sm.Lock(); delete(sm.sessions, key): whatever the map now holds.
RmDelete(g) ==
  /\ ~crashed
  /\ rm[g].pc = "delete"
  /\ smap' = [smap EXCEPT ![rm[g].key] = 0]
  /\ Goto(g, "idle")
  /\ UNCHANGED <<stage, dirs, otOwner, connected, spawned, listening, jobs,
                 senders, crashed, inited>>

RmStep(g) == RmOwner(g) \/ RmClear(g) \/ RmFiles(g) \/ RmDelete(g)

\* monitorOtReleaseChan: if sm.otOwner == sid { sm.otOwner = "" }
MonitorOtReleaseChan(s) ==
  /\ ~crashed
  /\ s \in senders
  /\ Head(s.msgs) = "release"
  /\ otOwner' = IF otOwner = SidOf(s.o) THEN NoSid ELSE otOwner
  /\ Delivered(s)
  /\ UNCHANGED <<smap, stage, dirs, connected, spawned, listening, jobs, crashed, rm, inited>>

\* An object nobody refers to is recycled for a later Session.
Forget(o) ==
  /\ stage[o] # "free"
  /\ Unused(o)
  /\ stage' = [stage EXCEPT ![o] = "free"]
  /\ UNCHANGED <<smap, dirs, otOwner, connected, spawned, listening, jobs,
                 senders, crashed, rm, inited>>

Init ==
  /\ smap = [k \in Sid |-> 0]
  /\ stage = [o \in Obj |-> "free"]
  /\ dirs = {}
  /\ otOwner = NoSid
  /\ connected = FALSE
  /\ spawned = {}
  /\ listening = {}
  /\ jobs = {}
  /\ senders = {}
  /\ crashed = FALSE
  /\ rm = [g \in Monitors |-> Idle]
  /\ inited = {}

Next ==
  \/ \E k \in Sid, o \in Obj : AddSession(k, o)
  \/ \E o \in Obj : InitLookup(o) \/ InitBody(o) \/ ListenStart(o) \/ Accept(o)
                    \/ JobDone(o) \/ JobFail(o) \/ Forget(o)
  \/ \E k \in Sid : OtStep(k) \/ CommitHash(k) \/ TagVerification(k)
                    \/ StepPanic(k) \/ MonitorSessions(k)
  \/ \E s \in senders : MonitorDestroyChan(s) \/ MonitorOtReleaseChan(s)
  \/ \E g \in Monitors : RmStep(g)

Spec == Init /\ [][Next]_vars

(***************************************************************************)
(* The manager's own goroutines run whenever they can: the monitors loop   *)
(* on their channels and timer, a spawned goroutine is scheduled, and an   *)
(* OT call returns.  Clients (requests, OT connects) get no fairness.      *)
(***************************************************************************)
Fairness ==
  /\ \A k \in Sid : WF_vars(MonitorSessions(k))
  /\ \A o \in Obj : WF_vars(ListenStart(o)) /\ WF_vars(JobDone(o) \/ JobFail(o))
  /\ WF_vars(\E s \in senders : MonitorDestroyChan(s) \/ MonitorOtReleaseChan(s))
  /\ \A g \in Monitors : WF_vars(RmStep(g))

FairSpec == Spec /\ Fairness

-----------------------------------------------------------------------------
\* A session holds the shared OT from AddSession until it commits: the 409
\* check in AddSession is meant to keep a second session out of that phase.
OtExclusive ==
  Cardinality({k \in Sid : InMap(k) /\ stage[Current(k)] = "active"}) <= 1

\* No goroutine panics unrecovered: the Listen goroutine never finds the OT
\* still connected.
NoCrash == ~crashed

\* Every StorageDir (and its truth-table files) belongs to the session the
\* map holds under its sid: removeSession deletes it with the map entry.
StorageCleanup == \A o \in dirs : InMap(SidOf(o)) /\ Current(SidOf(o)) = o

\* A set otOwner is eventually cleared again, so "init" stops returning 409.
OtEventuallyFree == (otOwner # NoSid) ~> (otOwner = NoSid \/ crashed)

=============================================================================
