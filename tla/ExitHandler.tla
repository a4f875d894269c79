---------------------------- MODULE ExitHandler ----------------------------
(***************************************************************************)
(* The end of the process while Luna's worker thread runs.  The network    *)
(* thread calls exit(1) when a system call fails, and exit runs            *)
(* initialize_pins on that thread, one write after the other; nobody stops *)
(* the worker thread, which goes on until the process is gone.  SIGPIPE    *)
(* ends the process without the exit handler.                              *)
(***************************************************************************)
EXTENDS LunaVisitor

VARIABLES
    process,    \* "running", "exiting", "exited", or "killed" by SIGPIPE
    handler     \* the writes initialize_pins has still to make

exitVars == <<process, handler>>
controllerVars == <<vars, exitVars>>

(* The outputs in the order in which initialize_pins writes them.  VALVE_3 *)
(* is the same pin as IGN_START.                                           *)
exit_writes == <<"MAIN_VALVE", "WATER_VALVE", "IGN_START", "GITVC_VALVE", "IGN_START">>

ControllerInit == Init /\ process = "running" /\ handler = <<>>

(* do_recv when poll(2) fails, open_listen when a socket call fails. *)
exit_called ==
    /\ process = "running"
    /\ process' = "exiting" /\ handler' = exit_writes
    /\ UNCHANGED vars

(* The next write of the handler. *)
exit_handler ==
    /\ process = "exiting" /\ handler # <<>>
    /\ LET p == Head(handler) IN
          IF initialize_pins[p] = "HIGH" THEN gpio_write("init", {p}, {})
                                         ELSE gpio_write("init", {}, {p})
    /\ handler' = Tail(handler)
    /\ UNCHANGED <<qw, scan, timers, burn, telemetry, link, gitvcVars, process>>

exit_done ==
    /\ process = "exiting" /\ handler = <<>>
    /\ process' = "exited" /\ UNCHANGED <<vars, handler>>

(* A send on a connection that the base station has reset. *)
sigpipe ==
    /\ process = "running" /\ socket /\ qn # {}
    /\ process' = "killed" /\ UNCHANGED <<vars, handler>>

ControllerNext ==
    \/ process \in {"running", "exiting"} /\ (Worker \/ Clock) /\ UNCHANGED exitVars
    \/ process = "running" /\ NetworkThread /\ UNCHANGED exitVars
    \/ exit_called \/ exit_handler \/ exit_done \/ sigpipe

ControllerSpec == ControllerInit /\ [][ControllerNext]_controllerVars

-----------------------------------------------------------------------------
(* The comment in initialize_pins, "Set all the ignition and relay outputs *)
(* to LOW so that they don't trigger", of the function main registers with *)
(* atexit: a process that ended by exit leaves every output off.  (The     *)
(* worker may open a valve right after the handler has closed it.)         *)
ExitLeavesOff == process = "exited" => pins = initialize_pins

=============================================================================
