---------------------------- MODULE TelnetServer ----------------------------
(***************************************************************************)
(* The running server: the main loop (serverloop in main.cpp), the polling *)
(* of drivers (MooDriver::wait), the listening MooServer, one MooTCP driver*)
(* and one code frame per connection, and the task queue between them.     *)
(* There is one thread; a frame runs until it ends or is suspended, and    *)
(* while it runs the network and the clock go on.                          *)
(*                                                                         *)
(* The frames run the shell of data/code/telnet.moo:                       *)
(*    (loop (try (driver:wait) (define cmdline (this:read-line driver))    *)
(*               (debug cmdline) (eval cmdline)                            *)
(*          (catch (if (not (driver:connected?)) (begin ... (return)))     *)
(*                 (debug error) (sleep 1))))                              *)
(* so a frame is its driver's connection, and the top of its event stack   *)
(* is the call it will make next.                                          *)
(*                                                                         *)
(* A client's line is any program.  Commands are the outcomes modelled: it *)
(* ends, throws, prints to its connection, sleeps for a while or not at    *)
(* all, returns from the shell's loop, exceeds the cycle limit, raises a   *)
(* fatal exception (an array's set far out of range, array.h:313), or      *)
(* redefines, for every shell, a name the shell calls.  Left out are lines *)
(* that use a driver themselves (driver:wait, driver:close, the drivers of *)
(* other clients), open servers or change the server's callback.           *)
(***************************************************************************)
EXTENDS TcpBuffer, Integers, SequencesExt

CONSTANTS
  Conn,         (* the connections clients may make                        *)
  NULL,         (* the null pointer                                        *)
  Stray,        (* a pointer to nothing: m_frame before it is assigned     *)
  FreshFrame,   (* what memory obtained from new may hold in m_frame       *)
  Commands,     (* what evaluating a client's line may come to             *)
  SigPipe,      (* TRUE: SIGPIPE ends the process, as it does by default   *)
  Senders,      (* those whose clients send anything                       *)
  LineAtATime,  (* TRUE: clients wait for a line to be read before another *)
  TickAt,       (* where in the main loop a whole second may pass          *)
  MaxSock,      (* the network holds at most this many bytes per socket    *)
  MaxQueue      (* clients pause once select() finds this many tasks queued*)

ASSUME ServerAssumption ==
  /\ NULL \notin Conn /\ Stray \notin Conn /\ NULL # Stray
  /\ FreshFrame \subseteq {NULL, Stray}
  /\ Senders \subseteq Conn
  /\ Commands \subseteq {"ok", "error", "print", "sleep", "yield", "return", "runaway",
                   "fatal", "redefine"}
  /\ {SigPipe, LineAtATime} \subseteq BOOLEAN
  /\ TickAt \subseteq {"scan", "select", "service", "run", "frame"}

VARIABLES
  pc,        (* where the main loop is                                     *)
  serviced,  (* MooDriver::wait's ret > 0 after its first loop             *)
  fdset,     (* the descriptors select() reported and not yet serviced     *)
  current,   (* g_current_frame                                            *)
  calm,      (* fewer than MaxQueue tasks were queued at the last select() *)
  redefined, (* a line has redefined a name that the shells call           *)
  queue,     (* g_task_queue, times relative to the clock                  *)
  driver,    (* each connection's driver and socket                        *)
  waiter,    (* m_frame of each driver                                     *)
  at         (* each frame's next call                                     *)

vars == <<pc, serviced, fdset, current, calm, redefined, queue, driver, waiter, at>>
loopVars == <<pc, serviced, fdset, current, calm, redefined>>

Listener == "listener"

TypeOK ==
  /\ pc \in {"scan", "select", "service", "run", "frame", "crashed"}
  /\ serviced \in BOOLEAN
  /\ fdset \subseteq Conn \cup {Listener}
  /\ current \in Conn \cup {NULL}
  /\ calm \in BOOLEAN /\ redefined \in BOOLEAN
  /\ queue \in Seq([time : {-1, 0, 1}, frame : Conn])
  /\ driver \in [Conn -> Driver]
  /\ waiter \in [Conn -> Conn \cup {NULL, Stray}]
  /\ at \in [Conn -> {"unconnected", "backlog", "wait", "read", "eval", "print", "catch",
                     "done", "stuck", "thrown", "fatal"}]

Accepted(c) == at[c] \notin {"unconnected", "backlog"}

(* A fatal exception has left do_run() without resetting g_current_frame.   *)
Halted == current \in Conn /\ at[current] = "fatal"

Init ==
  /\ pc = "scan"
  /\ serviced = FALSE
  /\ fdset = {}
  /\ current = NULL
  /\ calm = TRUE
  /\ redefined = FALSE
  /\ queue = <<>>
  /\ driver = [c \in Conn |-> [FreshDriver EXCEPT !.connected = FALSE]]
  /\ waiter = [c \in Conn |-> NULL]
  /\ at = [c \in Conn |-> "unconnected"]

-----------------------------------------------------------------------------
(* The task queue.  An entry's time is counted in seconds from the present, *)
(* rounded up, and stops at -1 once it is overdue; TaskQueue models the     *)
(* order exactly.  Here the order of entries due in the same second, which  *)
(* microseconds decide, is left open.                                       *)

(* MooCodeFrame::schedule                                                   *)
Enqueue(f, delay) ==
  \E p \in 1..(Len(queue) + 1) :
    /\ \A i \in 1..(p - 1) : queue[i].time <= delay
    /\ \A i \in p..Len(queue) : queue[i].time >= delay
    /\ queue' = InsertAt(queue, p, [time |-> delay, frame |-> f])

Due == queue # <<>> /\ Head(queue).time <= 0

Queued(f) == \E i \in DOMAIN queue : queue[i].frame = f

Tick ==
  /\ pc \in TickAt
  /\ \E i \in DOMAIN queue : queue[i].time >= 0
  /\ queue' = [i \in DOMAIN queue |->
                 [queue[i] EXCEPT !.time = IF @ = -1 THEN -1 ELSE @ - 1]]
  /\ UNCHANGED <<loopVars, driver, waiter, at>>

-----------------------------------------------------------------------------
(* The clients and the network.                                             *)

Connect(c) ==
  /\ at[c] = "unconnected"
  /\ at' = [at EXCEPT ![c] = "backlog"]
  /\ UNCHANGED <<loopVars, queue, driver, waiter>>

LinePending(c) ==
  \/ HasLine(driver[c])
  \/ \E i \in DOMAIN driver[c].sock : driver[c].sock[i] = Delim

Send(c, byte) ==
  /\ c \in Senders
  /\ at[c] # "unconnected" /\ ~driver[c].eof
  /\ Len(driver[c].sock) < MaxSock
  /\ calm
  /\ LineAtATime => ~LinePending(c) /\ at[c] # "eval"
  /\ driver' = [driver EXCEPT ![c].sock = Append(@, byte)]
  /\ UNCHANGED <<loopVars, queue, waiter, at>>

Close(c) ==
  /\ at[c] # "unconnected" /\ ~driver[c].eof
  /\ driver' = [driver EXCEPT ![c].eof = TRUE]
  /\ UNCHANGED <<loopVars, queue, waiter, at>>

-----------------------------------------------------------------------------
(* MooDriver::wait                                                          *)

(* Mutant: the frame is forgotten and not scheduled.                        *)
HandleForgets(c) ==
  /\ waiter' = [waiter EXCEPT ![c] = NULL]
  /\ UNCHANGED <<pc, queue>>

(* MooTCP::handle: the frame that waits is scheduled.  A call through a     *)
(* pointer to nothing ends the process; so does scheduling the frame a      *)
(* fatal exception has left current, since schedule() then throws what only *)
(* do_run() catches.                                                        *)
Handle(c) ==
  \/ /\ waiter[c] = NULL
     /\ UNCHANGED <<pc, queue, waiter>>
  \/ /\ waiter[c] \in Conn \ {current}
     /\ Enqueue(waiter[c], 0)
     /\ waiter' = [waiter EXCEPT ![c] = NULL]
     /\ UNCHANGED pc
  \/ /\ waiter[c] \in Conn /\ waiter[c] = current
     /\ Enqueue(waiter[c], 0)
     /\ pc' = "crashed"
     /\ UNCHANGED waiter
  \/ /\ waiter[c] = Stray
     /\ pc' = "crashed"
     /\ UNCHANGED <<queue, waiter>>


(* The first loop, over the READ bits ...                                   *)
HandleReady(c) ==
  /\ pc = "scan" /\ Accepted(c) /\ driver[c].ready
  /\ driver' = [driver EXCEPT ![c].ready = FALSE]
  /\ Handle(c)
  /\ serviced' = TRUE
  /\ UNCHANGED <<fdset, current, calm, redefined, at>>

(* ... after which wait() returns if it handled any driver.                 *)
ScanEnds ==
  /\ pc = "scan" /\ \A c \in Conn : ~driver[c].ready
  /\ pc' = IF serviced THEN "run" ELSE "select"
  /\ UNCHANGED <<serviced, fdset, current, calm, redefined, queue, driver, waiter, at>>

(* select(), which gives up after a second if nothing is readable.          *)
Select ==
  /\ pc = "select"
  /\ fdset' = {c \in Conn : Accepted(c) /\ Readable(driver[c])}
                \cup {Listener : c \in {d \in Conn : at[d] = "backlog"}}
  /\ calm' = (Len(queue) < MaxQueue)
  /\ pc' = "service"
  /\ UNCHANGED <<serviced, current, redefined, queue, driver, waiter, at>>

(* The second loop: the READ bit is set, then cleared, then handled.        *)
HandleReadable(c) ==
  /\ pc = "service" /\ c \in fdset
  /\ fdset' = fdset \ {c}
  /\ driver' = [driver EXCEPT ![c].ready = FALSE]
  /\ Handle(c)
  /\ UNCHANGED <<serviced, current, calm, redefined, at>>

(* MooServer::handle: accept one connection, and schedule a new frame that  *)
(* calls new-connection.  MooTCP's constructor does not assign m_frame.     *)
AcceptConnection(c) ==
  /\ pc = "service" /\ Listener \in fdset /\ at[c] = "backlog"
  /\ fdset' = fdset \ {Listener}
  /\ driver' = [driver EXCEPT ![c].connected = TRUE]
  /\ \E frame \in FreshFrame : waiter' = [waiter EXCEPT ![c] = frame]
  /\ at' = [at EXCEPT ![c] = "wait"]
  /\ Enqueue(c, 0)
  /\ UNCHANGED <<pc, serviced, current, calm, redefined>>

ServiceEnds ==
  /\ pc = "service" /\ fdset = {}
  /\ pc' = "run"
  /\ UNCHANGED <<serviced, fdset, current, calm, redefined, queue, driver, waiter, at>>

-----------------------------------------------------------------------------
(* MooCodeFrame::run_all                                                    *)

RunNext ==
  /\ pc = "run" /\ Due /\ current = NULL
  /\ current' = Head(queue).frame
  /\ queue' = Tail(queue)
  /\ pc' = "frame"
  /\ UNCHANGED <<serviced, fdset, calm, redefined, driver, waiter, at>>

(* "Nested run() detected": the entry is consumed and its frame does not    *)
(* run.                                                                     *)
RunRefused ==
  /\ pc = "run" /\ Due /\ current # NULL
  /\ queue' = Tail(queue)
  /\ UNCHANGED <<loopVars, driver, waiter, at>>

RunEnds ==
  /\ pc = "run" /\ ~Due
  /\ pc' = "scan"
  /\ serviced' = FALSE
  /\ UNCHANGED <<fdset, current, calm, redefined, queue, driver, waiter, at>>

(* Mutant: g_current_frame dangles.                                         *)
LeaveFrameDangling ==
  /\ current' = Stray
  /\ pc' = "run"
  /\ UNCHANGED <<serviced, fdset, calm, redefined>>

(* do_run() is left with the frame suspended, finished, out of cycles or    *)
(* after an exception nothing caught.                                       *)
LeaveFrame ==
  /\ current' = NULL
  /\ pc' = "run"
  /\ UNCHANGED <<serviced, fdset, calm, redefined>>

Running(c, call) == pc = "frame" /\ current = c /\ at[c] = call

Goto(c, call) == at' = [at EXCEPT ![c] = call]

-----------------------------------------------------------------------------
(* The shell's calls.                                                       *)

(* MooTCP::wait_for_data throws if there is a frame in m_frame already ...  *)
WaitRefused(c) ==
  /\ Running(c, "wait") /\ waiter[c] # NULL
  /\ Goto(c, "catch")
  /\ UNCHANGED <<loopVars, queue, driver, waiter>>

(* ... returns at once if the socket is readable ...                        *)
WaitReturns(c) ==
  /\ Running(c, "wait") /\ waiter[c] = NULL /\ Readable(driver[c])
  /\ waiter' = [waiter EXCEPT ![c] = c]
  /\ driver' = [driver EXCEPT ![c] = CheckReady(@)]
  /\ Goto(c, "read")
  /\ UNCHANGED <<loopVars, queue>>

(* ... and suspends the frame otherwise.                                    *)
WaitSuspends(c) ==
  /\ Running(c, "wait") /\ waiter[c] = NULL /\ ~Readable(driver[c])
  /\ waiter' = [waiter EXCEPT ![c] = c]
  /\ driver' = [driver EXCEPT ![c] = CheckReady(@)]
  /\ Goto(c, "read")
  /\ LeaveFrame
  /\ UNCHANGED queue

(* %telnet_read_line.  When receive() throws, the shell's catch runs; when  *)
(* it returns 0, read-line returns its last argument, the driver, and       *)
(* (eval cmdline) throws because a driver is not a string.                  *)
ReadLine(c) ==
  LET filled == RecvToBuffer(driver[c])
  IN /\ Running(c, "read")
     /\ \/ /\ RecvFails(driver[c])
           /\ driver' = [driver EXCEPT ![c].connected = FALSE]
           /\ Goto(c, "catch")
        \/ /\ ~RecvFails(driver[c]) /\ ~HasLine(filled)
           /\ driver' = [driver EXCEPT ![c] = filled]
           /\ Goto(c, "catch")
        \/ /\ ~RecvFails(driver[c])
           /\ \E i \in DOMAIN filled.data :
                /\ DelimAt(filled, i)
                /\ driver' = [driver EXCEPT ![c] = ReadPos(filled, i)]
                /\ Goto(c, IF i = driver[c].pos + 1 THEN "catch" ELSE "eval")
     /\ UNCHANGED <<loopVars, queue, waiter>>

(* (eval cmdline): the client's line is any program.  One that ends leads   *)
(* back to the loop; an exception goes to the shell's catch.                *)
EvalReturns(c) ==
  /\ Running(c, "eval")
  /\ \/ "ok" \in Commands /\ Goto(c, "wait")
     \/ "error" \in Commands /\ Goto(c, "catch")
     \/ "print" \in Commands /\ Goto(c, "print")
     \/ "return" \in Commands /\ Goto(c, "done")
  /\ UNCHANGED <<loopVars, queue, driver, waiter>>

(* A fatal exception passes the shell's catch: do_run() rethrows it at once *)
(* and leaves the frame current, which never goes on.                       *)
EvalFatal(c) ==
  /\ Running(c, "eval") /\ "fatal" \in Commands
  /\ Goto(c, "fatal")
  /\ pc' = "run"
  /\ UNCHANGED <<serviced, fdset, current, calm, redefined, queue, driver, waiter>>

(* The globals are every frame's: (set! debug 5) changes what each shell's  *)
(* (debug cmdline) calls.                                                   *)
EvalRedefines(c) ==
  /\ Running(c, "eval") /\ "redefine" \in Commands
  /\ redefined' = TRUE
  /\ Goto(c, "wait")
  /\ UNCHANGED <<pc, serviced, fdset, current, calm, queue, driver, waiter>>

(* (conn:print "..."), at the end of the program: send() returns once the   *)
(* network has taken the text, which is up to the client.  Only then does   *)
(* the one thread go on.  tcp_print ignores what send() returns, ...        *)
PrintReturns(c) ==
  /\ Running(c, "print")
  /\ Goto(c, "wait")
  /\ UNCHANGED <<loopVars, queue, driver, waiter>>

(* ... but to a client that has gone, it may raise SIGPIPE, which nothing   *)
(* handles (main.cpp:81 is about SIGINT only).                              *)
PrintKills(c) ==
  /\ SigPipe
  /\ Running(c, "print") /\ driver[c].eof
  /\ pc' = "crashed"
  /\ UNCHANGED <<serviced, fdset, current, calm, redefined, queue, driver, waiter, at>>

(* (sleep n), anywhere in the program, schedules the running frame and      *)
(* suspends it; "yield" is (sleep 0), as in (loop (sleep 0)).               *)
EvalSleeps(c) ==
  /\ Running(c, "eval")
  /\ \/ "sleep" \in Commands /\ Enqueue(c, 1)
     \/ "yield" \in Commands /\ Enqueue(c, 0)
  /\ LeaveFrame
  /\ UNCHANGED <<driver, waiter, at>>

(* The program exceeds MOO_FRAME_CYCLE_LIMIT: do_run() just returns.  If    *)
(* the frame is ever run again, the program goes on.                        *)
EvalRunsAway(c) ==
  /\ \/ Running(c, "eval") /\ "runaway" \in Commands
     \/ Running(c, "stuck")
  /\ Goto(c, "stuck")
  /\ LeaveFrame
  /\ UNCHANGED <<queue, driver, waiter>>

RunawayEnds(c) ==
  /\ Running(c, "stuck")
  /\ Goto(c, "wait")
  /\ UNCHANGED <<loopVars, queue, driver, waiter>>

(* The shell's catch: (return) from the loop once the driver is closed,     *)
(* else (sleep 1) and loop.                                                 *)
CatchReturns(c) ==
  /\ Running(c, "catch") /\ ~driver[c].connected
  /\ Goto(c, "done")
  /\ UNCHANGED <<loopVars, queue, driver, waiter>>


CatchSleeps(c) ==
  /\ Running(c, "catch") /\ driver[c].connected
  /\ Enqueue(c, 1)
  /\ Goto(c, "wait")
  /\ LeaveFrame
  /\ UNCHANGED <<driver, waiter>>

(* A shell that calls what a line has redefined: the call throws, which     *)
(* goes to the shell's catch.  One that never gets to read what arrived     *)
(* queues itself for ever without select(): MaxQueue bounds that too.       *)
ShellThrows(c) ==
  /\ redefined
  /\ \/ Running(c, "wait") /\ Len(queue) < MaxQueue
     \/ Running(c, "read") /\ Len(queue) < MaxQueue
     \/ Running(c, "eval")
  /\ Goto(c, "catch")
  /\ UNCHANGED <<loopVars, queue, driver, waiter>>

(* If the shell is in it already, that ends the run with the rest of the    *)
(* program on the stack.  A catch that no longer sleeps takes the shell     *)
(* round its loop until it is out of cycles.                                *)
HandlerFails(c) ==
  /\ redefined /\ Running(c, "catch")
  /\ Goto(c, "thrown") \/ Goto(c, "stuck")
  /\ LeaveFrame
  /\ UNCHANGED <<queue, driver, waiter>>

(* Another entry of the frame goes on with what was left of the program.    *)
ThrownGoesOn(c) ==
  /\ Running(c, "thrown")
  /\ Goto(c, "catch") \/ Goto(c, "wait") \/ Goto(c, "done")
  /\ UNCHANGED <<loopVars, queue, driver, waiter>>

(* The event stack is empty.  Neither the frame nor the driver is released. *)
FrameEnds(c) ==
  /\ Running(c, "done")
  /\ LeaveFrame
  /\ UNCHANGED <<queue, driver, waiter, at>>

-----------------------------------------------------------------------------

FrameStep(c) ==
  \/ WaitRefused(c) \/ WaitReturns(c) \/ WaitSuspends(c)
  \/ ReadLine(c)
  \/ EvalReturns(c) \/ EvalSleeps(c) \/ EvalRunsAway(c) \/ RunawayEnds(c)
  \/ EvalFatal(c) \/ EvalRedefines(c)
  \/ CatchReturns(c) \/ CatchSleeps(c)
  \/ ShellThrows(c) \/ HandlerFails(c) \/ ThrownGoesOn(c)
  \/ FrameEnds(c)

(* Everything the server's one thread does.                                 *)
Server ==
  \/ \E c \in Conn : HandleReady(c) \/ HandleReadable(c) \/ AcceptConnection(c)
  \/ ScanEnds \/ Select \/ ServiceEnds
  \/ RunNext \/ RunRefused \/ RunEnds
  \/ \E c \in Conn : FrameStep(c)

Environment ==
  \/ Tick
  \/ \E c \in Conn : Connect(c) \/ Close(c) \/ \E byte \in Byte : Send(c, byte)
  \/ \E c \in Conn : PrintReturns(c) \/ PrintKills(c)

Next == Server \/ Environment

Spec == Init /\ [][Next]_vars

(* The process keeps running and the clock keeps going; nothing is asked of *)
(* the clients.                                                             *)
FairSpec == Spec /\ WF_vars(Server) /\ SF_vars(Tick)

-----------------------------------------------------------------------------
(* Properties                                                               *)

(* A frame that has something left to do is running, or is queued, or its   *)
(* driver will schedule it: suspension never orphans a connection's frame.  *)
(* The exceptions: a program that ran out of cycles, one whose shell threw  *)
(* in its own catch, and, once a line has raised a fatal exception, every   *)
(* frame, since nothing runs any more.                                      *)
NoOrphan ==
  \/ Halted
  \/ \A c \in Conn :
       at[c] \in {"wait", "read", "eval", "print", "catch"} =>
         current = c \/ Queued(c) \/ waiter[c] = c

(* NoOrphan is not inductive alone: a driver wakes only the frame of its    *)
(* own connection, and no frame is current outside run_all() but one that a *)
(* fatal exception has left so.                                             *)
OwnFrameWaits == \A c \in Conn : waiter[c] \in {c, NULL, Stray}

ThreadIsFree == pc \notin {"frame", "crashed"} => current = NULL \/ Halted

Typed ==
  /\ queue \in Seq([time : Int, frame : Conn])
  /\ current \in Conn \cup {NULL}
  /\ waiter = [c \in Conn |-> waiter[c]]
  /\ at = [c \in Conn |-> at[c]]

Inv == Typed /\ OwnFrameWaits /\ ThreadIsFree /\ NoOrphan

(* Every client reads what is printed to it, sooner or later: one that does *)
(* not holds up the whole server.                                           *)
ClientsRead == \A c \in Conn : []<>(at[c] # "print")




=============================================================================
