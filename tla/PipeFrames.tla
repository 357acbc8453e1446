----------------------------- MODULE PipeFrames -----------------------------
(***************************************************************************)
(* The frame counters of an eq::Pipe (src/libs/eq/client/pipe.cpp) and the *)
(* pipe thread that moves them.  The server drives the pipe with the       *)
(* CONFIG_INIT, FRAME_START, FRAME_DRAW_FINISH, FRAME_FINISH and           *)
(* CONFIG_EXIT commands, which the pipe thread's command queue executes in *)
(* order.  Other threads wait on the counters (waitFrameLocal,             *)
(* waitFrameFinished).  The node's thread model decides when a frame is    *)
(* locally unlocked; an application may override frameDrawFinish and      *)
(* frameFinish without calling the base method, which _cmdFrameFinish      *)
(* repairs by forcing the release.                                         *)
(*                                                                         *)
(* Around the frames the server creates the pipe's windows (CREATE_WINDOW *)
(* before CONFIG_INIT) and destroys them (DESTROY_WINDOW before            *)
(* CONFIG_EXIT).  A window may share the OpenGL context of another window *)
(* of the pipe; _cmdDestroyWindow hands the windows that share the        *)
(* context of the destroyed one to a window that remains.                 *)
(***************************************************************************)
EXTENDS Naturals, Sequences, SequencesExt

CONSTANTS
    ThreadModels,   \* the values of Node::IATTR_THREAD_MODEL
    Latency,        \* frames the server may start ahead of the finished one
    MaxFrame,       \* the last frame number the server starts
    MaxInit,        \* how often the server initialises the pipe
    Windows,        \* the windows of the pipe
    NoWindow        \* a window that shares no other window's context

ASSUME ThreadModels \subseteq {"ASYNC", "DRAW_SYNC", "LOCAL_SYNC"}
ASSUME Latency \in Nat /\ MaxFrame \in Nat /\ MaxInit \in Nat \ {0}

VARIABLES
    queue,        \* the pipe thread's command queue
    pstate,       \* Pipe::_state
    current,      \* _currentFrame
    finished,     \* _finishedFrame
    unlocked,     \* _unlockedFrame
    ok,           \* no LBASSERT of the frame handlers has failed
    ppc,          \* the pipe thread, or where it blocks in frameStart
    nodeStarted,  \* the last frame the node has started
    model,        \* the node's thread model
    drawBase,     \* the application's frameDrawFinish calls Pipe's
    reply,        \* the PipeConfigInitReply not yet seen by the server
    sstate,       \* the server's view of the pipe
    sframe,       \* the last frame the server started
    sfin,         \* the last frame the server finished
    inits,        \* CONFIG_INIT packets sent
    wins,         \* the pipe's window list, getWindows(), in creation order
    shared,       \* per window: getSharedContextWindow()
    sdestroy,     \* the windows the server has still to destroy
    tstate,       \* the pipe thread: "none" (no pipe), "waitMapped", "running"
                  \* (in Worker::run) or "exited" (left run, not yet joined)
    xstate,       \* the transfer thread's Thread state
    xexit,        \* an EXIT_TRANSFER_THREAD packet is in the transfer queue
    nodeCmd,      \* the pipe packet the node thread handles next
    nstate        \* the node thread inside exitThread

vars == <<queue, pstate, current, finished, unlocked, ok, ppc, nodeStarted,
          model, drawBase, reply, sstate, sframe, sfin, inits, wins, shared,
          sdestroy, tstate, xstate, xexit, nodeCmd, nstate>>

winVars == <<wins, shared, sdestroy>>
lifeVars == <<tstate, xstate, xexit, nodeCmd, nstate>>

Frames == 0..MaxFrame

Cmd(type, f) == [type |-> type, f |-> f]

\* A thread appends packets to the pipe thread's command queue.
Send(cmds) == queue' = queue \o cmds

\* One CREATE_WINDOW per window of the pipe, in the config's order.
CreateWindows == [i \in 1..Cardinality(Windows) |->
                    Cmd("CREATE_WINDOW", SetToSeq(Windows)[i])]

-----------------------------------------------------------------------------
(* The counter updates of pipe.cpp as operators on the value they change.  *)

\* Mutant: the unlocked frame is off by one.
ReleaseFrameLocalNext(u, f) == [val |-> f + 1, ok |-> u + 1 = f]

\* releaseFrameLocal asserts that it unlocks the next frame.
ReleaseFrameLocal(u, f) == [val |-> f, ok |-> u + 1 = f]

-----------------------------------------------------------------------------
Init ==
    /\ queue = <<>>
    /\ pstate = "STOPPED"
    /\ current = 0 /\ finished = 0 /\ unlocked = 0
    /\ ok = TRUE
    /\ ppc = [at |-> "idle", f |-> 0]
    /\ nodeStarted = 0
    /\ model \in ThreadModels
    /\ drawBase \in BOOLEAN
    /\ reply = "none"
    /\ sstate = "stopped"
    /\ sframe = 0 /\ sfin = 0
    /\ inits = 0
    /\ wins = <<>>
    /\ shared = [w \in Windows |-> NoWindow]
    /\ sdestroy = {}
    /\ tstate = "none"
    /\ xstate = "STOPPED"
    /\ xexit = FALSE
    /\ nodeCmd = "none"
    /\ nstate = "idle"

-----------------------------------------------------------------------------
(* Pipe thread: one command at a time from the head of its queue.          *)

Next1(type) ==
    /\ tstate = "running"
    /\ ppc.at = "idle" /\ queue # <<>> /\ Head(queue).type = type

\* Pipe::configInit succeeds unless the system pipe or the compute context
\* fails to initialise.
ConfigInitResults == BOOLEAN

\* Pipe::configExit returns true; an application's override may return
\* false, which makes the pipe FAILED.
ConfigExitStates == {"STOPPED", "FAILED"}

\* _cmdConfigInit with the node running: the counters restart at the
\* packet's frame number; configInit (system pipe, compute context) may
\* fail, and the reply carries the result.
ConfigInit ==
    LET f == Head(queue).f IN
    /\ Next1("CONFIG_INIT")
    /\ queue' = Tail(queue)
    /\ current' = f /\ finished' = f /\ unlocked' = f
    /\ \E result \in ConfigInitResults :
          /\ pstate' = IF result THEN "RUNNING" ELSE "INITIALIZING"
          /\ reply' = IF result THEN "ok" ELSE "failed"
    /\ UNCHANGED <<ok, ppc, nodeStarted, model, drawBase, sstate, sframe, sfin,
                   inits>>
    /\ UNCHANGED winVars
    /\ UNCHANGED lifeVars

\* _cmdConfigExit: the pipe is STOPPING, and the NodeDestroyPipe packet
\* goes to the node thread before the views and queues are flushed.
ConfigExit ==
    /\ Next1("CONFIG_EXIT")
    /\ queue' = Tail(queue)
    /\ pstate' = "STOPPING"
    /\ ppc' = [at |-> "exiting", f |-> 0]
    /\ nodeCmd' = "destroy"
    /\ UNCHANGED <<current, finished, unlocked, ok, nodeStarted, model,
                   drawBase, reply, sstate, sframe, sfin, inits>>
    /\ UNCHANGED winVars
    /\ UNCHANGED <<tstate, xstate, xexit, nstate>>

\* The rest of _cmdConfigExit, which runs while the node thread may
\* already handle NodeDestroyPipe: STOPPED or FAILED by the result of
\* configExit.  _flushViews and _flushQueues are left out.
ConfigExitDone ==
    /\ ppc.at = "exiting"
    /\ pstate' \in ConfigExitStates
    /\ ppc' = [at |-> "idle", f |-> 0]
    /\ UNCHANGED <<queue, current, finished, unlocked, ok, nodeStarted, model,
                   drawBase, reply, sstate, sframe, sfin, inits>>
    /\ UNCHANGED winVars
    /\ UNCHANGED lifeVars

\* _cmdFrameStart asserts the frame follows the current one, then runs
\* frameStart: ASYNC unlocks the frame and starts it; the synchronous
\* models first wait for the node to start the frame.
FrameStart ==
    LET f == Head(queue).f
        r == ReleaseFrameLocal(unlocked, f)
    IN
    /\ Next1("FRAME_START")
    /\ queue' = Tail(queue)
    /\ IF model = "ASYNC"
       THEN /\ unlocked' = r.val
            /\ current' = f
            /\ ok' = (ok /\ current + 1 = f /\ r.ok)
            /\ UNCHANGED ppc
       ELSE /\ ppc' = [at |-> "waitStarted", f |-> f]
            /\ ok' = (ok /\ current + 1 = f)
            /\ UNCHANGED <<current, unlocked>>
    /\ UNCHANGED <<finished, pstate, nodeStarted, model, drawBase,
                   reply, sstate, sframe, sfin, inits>>
    /\ UNCHANGED winVars
    /\ UNCHANGED lifeVars

\* node->waitFrameStarted returns; startFrame makes the frame current.
FrameStarted ==
    /\ ppc.at = "waitStarted"
    /\ nodeStarted >= ppc.f
    /\ current' = ppc.f
    /\ ppc' = [at |-> "idle", f |-> 0]
    /\ UNCHANGED <<queue, pstate, finished, unlocked, ok, nodeStarted, model,
                   drawBase, reply, sstate, sframe, sfin, inits>>
    /\ UNCHANGED winVars
    /\ UNCHANGED lifeVars

\* _cmdFrameDrawFinish runs frameDrawFinish, which unlocks the frame in
\* the DRAW_SYNC model, unless the application's override leaves out the
\* call of Pipe::frameDrawFinish.
FrameDrawFinish ==
    LET f == Head(queue).f
        r == ReleaseFrameLocal(unlocked, f)
    IN
    /\ Next1("FRAME_DRAW_FINISH")
    /\ queue' = Tail(queue)
    /\ IF model = "DRAW_SYNC" /\ drawBase
       THEN unlocked' = r.val /\ ok' = (ok /\ r.ok)
       ELSE UNCHANGED <<unlocked, ok>>
    /\ UNCHANGED <<current, finished, pstate, ppc, nodeStarted, model,
                   drawBase, reply, sstate, sframe, sfin, inits>>
    /\ UNCHANGED winVars
    /\ UNCHANGED lifeVars

\* Mutant: the forced unlock is not guarded by _unlockedFrame < frameNumber.
FrameFinishAlwaysUnlock ==
    LET f  == Head(queue).f
        r1 == IF model = "LOCAL_SYNC"
              THEN ReleaseFrameLocal(unlocked, f)
              ELSE [val |-> unlocked, ok |-> TRUE]
        r2 == ReleaseFrameLocal(r1.val, f)
    IN
    /\ Next1("FRAME_FINISH")
    /\ queue' = Tail(queue)
    /\ unlocked' = r2.val
    /\ finished' = f
    /\ ok' = (ok /\ current >= f /\ r1.ok /\ r2.ok)
    /\ UNCHANGED <<current, pstate, ppc, nodeStarted, model, drawBase,
                   reply, sstate, sframe, sfin, inits>>
    /\ UNCHANGED winVars
    /\ UNCHANGED lifeVars

FrameFinish ==
    LET f  == Head(queue).f
        r1 == IF model = "LOCAL_SYNC"
              THEN ReleaseFrameLocal(unlocked, f)
              ELSE [val |-> unlocked, ok |-> TRUE]
        r2 == IF r1.val < f THEN ReleaseFrameLocal(r1.val, f)
              ELSE [val |-> r1.val, ok |-> TRUE]
    IN
    /\ Next1("FRAME_FINISH")
    /\ queue' = Tail(queue)
    /\ unlocked' = r2.val
    /\ finished' = f
    /\ ok' = (ok /\ current >= f /\ r1.ok /\ r2.ok)
    /\ UNCHANGED <<current, pstate, ppc, nodeStarted, model, drawBase,
                   reply, sstate, sframe, sfin, inits>>
    /\ UNCHANGED winVars
    /\ UNCHANGED lifeVars

-----------------------------------------------------------------------------
(* Windows of the pipe, created and destroyed by the pipe thread.          *)

\* _cmdCreateWindow: the node factory's window is initialised and mapped,
\* which appends it to the pipe's window list.  The context it shares,
\* set by the window's init and the mapped data, is one of the pipe's
\* windows, itself included, or none.
CreateWindow ==
    LET w == Head(queue).f IN
    /\ Next1("CREATE_WINDOW")
    /\ queue' = Tail(queue)
    /\ wins' = Append(wins, w)
    /\ \E s \in Range(wins') \cup {NoWindow} : shared' = [shared EXCEPT ![w] = s]
    /\ UNCHANGED <<pstate, current, finished, unlocked, ok, ppc, nodeStarted,
                   model, drawBase, reply, sstate, sframe, sfin, inits,
                   sdestroy>>
    /\ UNCHANGED lifeVars

\* The windows other than w that share the context of w, in list order.
SharingWith(w) == SelectSeq(wins, LAMBDA c : c # w /\ shared[c] = w)

\* Mutant: the first candidate is not set to share its own context.
ReassignSharedNoSelf(w) ==
    LET cs == SharingWith(w) IN
    [c \in Windows |-> IF c \in Range(cs) /\ c # cs[1] THEN cs[1] ELSE shared[c]]

\* Mutant: every candidate is set to share its own context.
ReassignSharedEachOwn(w) ==
    LET cs == SharingWith(w) IN
    [c \in Windows |-> IF c \in Range(cs) THEN c ELSE shared[c]]

\* The loop of _cmdDestroyWindow: the first window that shares the context
\* of w becomes newSharedWindow and shares its own context; every later
\* one is set to share newSharedWindow.
ReassignShared(w) ==
    LET cs == SharingWith(w) IN
    [c \in Windows |-> IF c \in Range(cs) THEN cs[1] ELSE shared[c]]

\* _cmdDestroyWindow: after the reassignment the window is unmapped, which
\* removes it from the pipe's window list, and released.
DestroyWindow ==
    LET w == Head(queue).f IN
    /\ Next1("DESTROY_WINDOW")
    /\ queue' = Tail(queue)
    /\ shared' = [ReassignShared(w) EXCEPT ![w] = NoWindow]
    /\ wins' = SelectSeq(wins, LAMBDA c : c # w)
    /\ UNCHANGED <<pstate, current, finished, unlocked, ok, ppc, nodeStarted,
                   model, drawBase, reply, sstate, sframe, sfin, inits,
                   sdestroy>>
    /\ UNCHANGED lifeVars

-----------------------------------------------------------------------------
(* The node thread of the pipe's node starts each frame the server sends   *)
(* it; node->waitFrameStarted waits for this.                              *)

NodeFrameStart ==
    /\ nodeStarted < sframe
    /\ nodeStarted' = nodeStarted + 1
    /\ UNCHANGED <<queue, pstate, current, finished, unlocked, ok, ppc, model,
                   drawBase, reply, sstate, sframe, sfin, inits>>
    /\ UNCHANGED winVars
    /\ UNCHANGED lifeVars

-----------------------------------------------------------------------------
(* Lifecycle of the pipe object and its threads.  The node thread creates  *)
(* the pipe for the server's NodeCreatePipe and destroys it for the        *)
(* NodeDestroyPipe packet that _cmdConfigExit sends; the pipe thread runs  *)
(* Worker::run until EXIT_THREAD; the transfer thread, started from the    *)
(* pipe thread by a channel's asynchronous readback, runs until            *)
(* EXIT_TRANSFER_THREAD.                                                   *)

\* The node thread creates the pipe (Pipe::Pipe: STOPPED, counters 0, a
\* stopped transfer thread), calls startThread, maps the pipe and calls
\* notifyMapped, which makes it MAPPED.
NodeCreatePipe ==
    /\ nodeCmd = "create"
    /\ pstate' = "MAPPED"
    /\ current' = 0 /\ finished' = 0 /\ unlocked' = 0
    /\ tstate' = "waitMapped"
    /\ xstate' = "STOPPED" /\ xexit' = FALSE
    /\ nodeCmd' = "none"
    /\ UNCHANGED <<queue, ok, ppc, nodeStarted, model, drawBase, reply, sstate,
                   sframe, sfin, inits, nstate>>
    /\ UNCHANGED winVars

\* Pipe::Thread::run: waitEQ( STATE_MAPPED ), window system, command queue
\* and affinity set up, then Worker::run.
PipeThreadStart ==
    /\ tstate = "waitMapped"
    /\ pstate = "MAPPED"
    /\ tstate' = "running"
    /\ UNCHANGED <<queue, pstate, current, finished, unlocked, ok, ppc,
                   nodeStarted, model, drawBase, reply, sstate, sframe, sfin,
                   inits, xstate, xexit, nodeCmd, nstate>>
    /\ UNCHANGED winVars

\* Mutant: _cmdExitThread does not clear _thread->_pipe.
ExitThreadKeepPipe ==
    /\ Next1("EXIT_THREAD")
    /\ queue' = Tail(queue)
    /\ UNCHANGED <<pstate, current, finished, unlocked, ok, ppc, nodeStarted,
                   model, drawBase, reply, sstate, sframe, sfin, inits>>
    /\ UNCHANGED winVars
    /\ UNCHANGED lifeVars

\* _cmdExitThread clears _thread->_pipe, so stopRunning() ends Worker::run
\* and the thread leaves run after _exitCommandQueue.
ExitThread ==
    /\ Next1("EXIT_THREAD")
    /\ queue' = Tail(queue)
    /\ tstate' = "exited"
    /\ UNCHANGED <<pstate, current, finished, unlocked, ok, ppc, nodeStarted,
                   model, drawBase, reply, sstate, sframe, sfin, inits>>
    /\ UNCHANGED winVars
    /\ UNCHANGED <<xstate, xexit, nodeCmd, nstate>>

\* startTransferThread, called on the pipe thread while frames run: a
\* transfer thread that is not running is started.
StartTransferThread ==
    /\ tstate = "running" /\ ppc.at = "idle"
    /\ pstate = "RUNNING"
    /\ xstate = "STOPPED"
    /\ xstate' = "RUNNING"
    /\ UNCHANGED <<queue, pstate, current, finished, unlocked, ok, ppc,
                   nodeStarted, model, drawBase, reply, sstate, sframe, sfin,
                   inits, tstate, xexit, nodeCmd, nstate>>
    /\ UNCHANGED winVars

\* _cmdExitTransferThread calls postStop, and the transfer thread leaves
\* Worker::run; it is STOPPING until joined.
TransferThreadExit ==
    /\ xexit /\ xstate = "RUNNING"
    /\ xexit' = FALSE
    /\ xstate' = "STOPPING"
    /\ UNCHANGED <<queue, pstate, current, finished, unlocked, ok, ppc,
                   nodeStarted, model, drawBase, reply, sstate, sframe, sfin,
                   inits, tstate, nodeCmd, nstate>>
    /\ UNCHANGED winVars

\* Mutant: exitThread without _stopTransferThread.
ExitThreadBeginNoStop ==
    /\ nodeCmd = "destroy" /\ nstate = "idle"
    /\ Send(<<Cmd("EXIT_THREAD", 0)>>)
    /\ nstate' = "joinPipe"
    /\ UNCHANGED <<pstate, current, finished, unlocked, ok, ppc, nodeStarted,
                   model, drawBase, reply, sstate, sframe, sfin, inits,
                   tstate, xstate, xexit, nodeCmd>>
    /\ UNCHANGED winVars

\* exitThread on the node thread: _stopTransferThread returns at once for
\* a stopped transfer thread, else sends EXIT_TRANSFER_THREAD and joins;
\* then EXIT_THREAD goes to the pipe thread's queue.
ExitThreadBegin ==
    /\ nodeCmd = "destroy" /\ nstate = "idle"
    /\ IF xstate = "STOPPED"
       THEN /\ Send(<<Cmd("EXIT_THREAD", 0)>>)
            /\ nstate' = "joinPipe"
            /\ UNCHANGED xexit
       ELSE /\ xexit' = TRUE
            /\ nstate' = "joinTransfer"
            /\ UNCHANGED queue
    /\ UNCHANGED <<pstate, current, finished, unlocked, ok, ppc, nodeStarted,
                   model, drawBase, reply, sstate, sframe, sfin, inits,
                   tstate, xstate, nodeCmd>>
    /\ UNCHANGED winVars

\* _transferThread->join() returns; exitThread sends EXIT_THREAD.
JoinTransferThread ==
    /\ nstate = "joinTransfer" /\ xstate = "STOPPING"
    /\ xstate' = "STOPPED"
    /\ Send(<<Cmd("EXIT_THREAD", 0)>>)
    /\ nstate' = "joinPipe"
    /\ UNCHANGED <<pstate, current, finished, unlocked, ok, ppc, nodeStarted,
                   model, drawBase, reply, sstate, sframe, sfin, inits,
                   tstate, xexit, nodeCmd>>
    /\ UNCHANGED winVars

\* _thread->join() returns; the thread is deleted, and then the node
\* deletes the pipe.
JoinPipeThread ==
    /\ nstate = "joinPipe" /\ tstate = "exited"
    /\ tstate' = "none"
    /\ nstate' = "idle"
    /\ nodeCmd' = "none"
    /\ UNCHANGED <<queue, pstate, current, finished, unlocked, ok, ppc,
                   nodeStarted, model, drawBase, reply, sstate, sframe, sfin,
                   inits, xstate, xexit>>
    /\ UNCHANGED winVars

-----------------------------------------------------------------------------
(* The server, which sends the pipe's tasks in order: initialisation with  *)
(* the config's current frame number; per frame a start and a draw finish; *)
(* the finish of the oldest unfinished frame, at most Latency frames late; *)
(* after all frames are finished, the exit.  While the pipe is stopped the *)
(* config runs frames without it.                                          *)

ServerInit ==
    /\ sstate = "stopped"
    /\ inits < MaxInit
    /\ Send(CreateWindows \o <<Cmd("CONFIG_INIT", sframe)>>)
    /\ sstate' = "init"
    /\ inits' = inits + 1
    /\ sdestroy' = Windows
    /\ nodeCmd' = "create"
    /\ UNCHANGED <<pstate, current, finished, unlocked, ok, ppc, nodeStarted,
                   model, drawBase, reply, sframe, sfin, wins, shared>>
    /\ UNCHANGED <<tstate, xstate, xexit, nstate>>

ServerInitReply ==
    /\ sstate = "init"
    /\ reply # "none"
    /\ reply' = "none"
    /\ IF reply = "ok"
       THEN sstate' = "running" /\ UNCHANGED queue
       ELSE sstate' = "destroy" /\ UNCHANGED queue
    /\ UNCHANGED <<pstate, current, finished, unlocked, ok, ppc, nodeStarted,
                   model, drawBase, sframe, sfin, inits>>
    /\ UNCHANGED winVars
    /\ UNCHANGED lifeVars

ServerStartFrame ==
    /\ sstate = "running"
    /\ sframe < MaxFrame
    /\ sframe - sfin <= Latency
    /\ Send(<<Cmd("FRAME_START", sframe + 1),
              Cmd("FRAME_DRAW_FINISH", sframe + 1)>>)
    /\ sframe' = sframe + 1
    /\ UNCHANGED <<pstate, current, finished, unlocked, ok, ppc, nodeStarted,
                   model, drawBase, reply, sstate, sfin, inits>>
    /\ UNCHANGED winVars
    /\ UNCHANGED lifeVars

ServerFinishFrame ==
    /\ sstate = "running"
    /\ sfin < sframe
    /\ Send(<<Cmd("FRAME_FINISH", sfin + 1)>>)
    /\ sfin' = sfin + 1
    /\ UNCHANGED <<pstate, current, finished, unlocked, ok, ppc, nodeStarted,
                   model, drawBase, reply, sstate, sframe, inits>>
    /\ UNCHANGED winVars
    /\ UNCHANGED lifeVars

ServerExit ==
    /\ sstate = "running"
    /\ sfin = sframe
    /\ sstate' = "destroy"
    /\ UNCHANGED <<queue, pstate, current, finished, unlocked, ok, ppc,
                   nodeStarted, model, drawBase, reply, sframe, sfin, inits>>
    /\ UNCHANGED winVars
    /\ UNCHANGED lifeVars

\* The server exits the windows of the pipe, in any order, and destroys
\* each, before it exits the pipe.
ServerDestroyWindow(w) ==
    /\ sstate = "destroy"
    /\ w \in sdestroy
    /\ Send(<<Cmd("DESTROY_WINDOW", w)>>)
    /\ sdestroy' = sdestroy \ {w}
    /\ UNCHANGED <<pstate, current, finished, unlocked, ok, ppc, nodeStarted,
                   model, drawBase, reply, sstate, sframe, sfin, inits,
                   wins, shared>>
    /\ UNCHANGED lifeVars

ServerExitPipe ==
    /\ sstate = "destroy"
    /\ sdestroy = {}
    /\ Send(<<Cmd("CONFIG_EXIT", 0)>>)
    /\ sstate' = "exit"
    /\ UNCHANGED <<pstate, current, finished, unlocked, ok, ppc, nodeStarted,
                   model, drawBase, reply, sframe, sfin, inits, winVars>>
    /\ UNCHANGED lifeVars

ServerExited ==
    /\ sstate = "exit"
    /\ tstate = "none" /\ nodeCmd = "none"
    /\ sstate' = "stopped"
    /\ UNCHANGED <<queue, pstate, current, finished, unlocked, ok, ppc,
                   nodeStarted, model, drawBase, reply, sframe,
                   sfin, inits>>
    /\ UNCHANGED winVars
    /\ UNCHANGED lifeVars

ServerOtherFrame ==
    /\ sstate = "stopped"
    /\ sframe < MaxFrame
    /\ sframe' = sframe + 1
    /\ sfin' = sfin + 1
    /\ UNCHANGED <<queue, pstate, current, finished, unlocked, ok, ppc,
                   nodeStarted, model, drawBase, reply, sstate,
                   inits>>
    /\ UNCHANGED winVars
    /\ UNCHANGED lifeVars

-----------------------------------------------------------------------------
PipeThread ==
    \/ ConfigInit \/ ConfigExit \/ ConfigExitDone \/ FrameStart \/ FrameStarted
    \/ FrameDrawFinish \/ FrameFinish \/ CreateWindow \/ DestroyWindow
    \/ PipeThreadStart \/ ExitThread

NodeLifecycle ==
    \/ NodeCreatePipe \/ ExitThreadBegin \/ JoinTransferThread \/ JoinPipeThread

Server ==
    \/ ServerInit \/ ServerInitReply \/ ServerStartFrame \/ ServerFinishFrame
    \/ ServerExit \/ ServerExited \/ ServerOtherFrame \/ ServerExitPipe
    \/ \E w \in Windows : ServerDestroyWindow(w)

Next ==
    \/ PipeThread \/ StartTransferThread \/ TransferThreadExit
    \/ NodeFrameStart \/ NodeLifecycle \/ Server

\* The pipe, transfer and node threads are worker threads that run every
\* command queued to them.  Neither the server nor a channel's start of the
\* transfer thread is under any obligation.
Spec == Init /\ [][Next]_vars /\ WF_vars(PipeThread) /\ WF_vars(NodeFrameStart)
             /\ WF_vars(NodeLifecycle) /\ WF_vars(TransferThreadExit)

-----------------------------------------------------------------------------
(* Properties                                                              *)

TypeOK ==
    /\ queue \in Seq([type : {"CONFIG_INIT", "CONFIG_EXIT", "FRAME_START",
                              "FRAME_DRAW_FINISH", "FRAME_FINISH",
                              "CREATE_WINDOW", "DESTROY_WINDOW", "EXIT_THREAD"},
                       f : Frames \cup Windows])
    /\ pstate \in {"MAPPED", "INITIALIZING", "RUNNING", "STOPPING", "STOPPED",
                   "FAILED"}
    /\ {current, finished, unlocked, nodeStarted, sframe, sfin} \subseteq Frames
    /\ ok \in BOOLEAN
    /\ ppc \in [at : {"idle", "waitStarted", "exiting"}, f : Frames]
    /\ model \in ThreadModels
    /\ reply \in {"none", "ok", "failed"}
    /\ sstate \in {"stopped", "init", "running", "destroy", "exit"}
    /\ inits \in 0..MaxInit
    /\ IsInjective(wins) /\ Range(wins) \subseteq Windows
    /\ shared \in [Windows -> Windows \cup {NoWindow}]
    /\ sdestroy \subseteq Windows
    /\ tstate \in {"none", "waitMapped", "running", "exited"}
    /\ xstate \in {"STOPPED", "RUNNING", "STOPPING"} /\ xexit \in BOOLEAN
    /\ nodeCmd \in {"none", "create", "destroy"}
    /\ nstate \in {"idle", "joinTransfer", "joinPipe"}

\* None of the assertions of the frame handlers fails: _cmdFrameStart
\* starts the frame after the current one (pipe.cpp:1032), _cmdFrameFinish
\* finishes a started frame (1045), and
\* releaseFrameLocal unlocks frames one by one (821), whatever the thread
\* model, the latency, the override of frameDrawFinish, and the
\* re-initialisations of the pipe.
FrameAssertions == ok

\* A thread in waitFrameLocal(f) or waitFrameFinished(f) for a frame whose
\* FRAME_FINISH is queued to the pipe returns: the pipe eventually unlocks
\* and releases the frame, also when the application's frameDrawFinish
\* does not unlock it.
FinishQueued(f) == \E i \in DOMAIN queue : queue[i] = Cmd("FRAME_FINISH", f)

SharedContextsLive ==
    \A w \in Range(wins) : shared[w] \in Range(wins) \cup {NoWindow}

\* No step separates windows that shared one context: two windows on the
\* pipe before and after a step that shared the same context still share
\* one, also when the context they shared was the destroyed window's.
SharedContextsKept ==
    [][\A x, y \in Range(wins) \cap Range(wins') :
         shared[x] = shared[y] => shared'[x] = shared'[y]]_vars
\* When the node deletes the pipe after exitThread, the pipe has left
\* configExit, its windows are destroyed (~Pipe asserts it, pipe.cpp:112),
\* no command is left in its queue, and the transfer thread that ~Pipe
\* deletes is stopped: NodeDestroyPipe is sent before _cmdConfigExit
\* finishes, so the join of exitThread is what orders the deletion after it.
PipeDeletedClean ==
    [][tstate # "none" /\ tstate' = "none" =>
         /\ pstate \in {"STOPPED", "FAILED"}
         /\ wins = <<>> /\ queue = <<>>
         /\ xstate = "STOPPED"]_vars

\* exitThread returns: once the node thread handles NodeDestroyPipe, the
\* transfer thread and the pipe thread both leave Worker::run and are
\* joined, so the pipe is deleted.
PipeThreadJoined == nodeCmd = "destroy" ~> tstate = "none"
=============================================================================
