---------------------------- MODULE PortForward ----------------------------
(***************************************************************************)
(* kubectl port-forward (kubernetes pkg/kubectl/cmd/portforward.go): the  *)
(* command's Run (Complete, Validate, RunPortForward, each error ending   *)
(* the process through CheckErr with exit code 1), the goroutine that     *)
(* turns an interrupt into close(StopChannel), and the user pressing      *)
(* Ctrl-C at any moment.  Before signal.Notify and after the deferred     *)
(* signal.Stop an interrupt kills the process; in between it is queued in *)
(* the signals channel of capacity 1 (a send to a full channel is         *)
(* dropped).  The forwarder (portforward.ForwardPorts) returns nil once   *)
(* StopChannel is closed, or an error of its own at any time.             *)
(***************************************************************************)
EXTENDS Naturals, Sequences

CONSTANTS
    Args,          \* possible argument lists (sequences of words)
    PodFlags,      \* possible values of the deprecated -p flag ("" = unset)
    MaxInterrupts  \* Ctrl-C presses

VARIABLES
    pc,          \* the main goroutine: "complete", "validate", "run",
                 \* "forward", "return" or "exited"
    opts,        \* PortForwardOptions: podName, ports (a sequence)
    podFlag,     \* the -p flag
    args,        \* the positional arguments
    result,      \* the error RunPortForward returns: "none" or "err"
    notified,    \* signal.Notify(signals, os.Interrupt) is in effect
    signals,     \* interrupts buffered in the signals channel (0..1)
    waiter,      \* the signal goroutine: "none", "waiting" or "done"
    stopClosed,  \* StopChannel is closed
    exit,        \* the process's exit: "none", "0", "1" or "killed"
    interrupts   \* Ctrl-C presses so far

vars == <<pc, opts, podFlag, args, result, notified, signals, waiter,
          stopClosed, exit, interrupts>>

Init ==
    /\ pc = "complete"
    /\ opts = [podName |-> "", ports |-> <<>>]
    /\ podFlag \in PodFlags /\ args \in Args
    /\ result = "none" /\ notified = FALSE /\ signals = 0
    /\ waiter = "none" /\ stopClosed = FALSE
    /\ exit = "none" /\ interrupts = 0

\* The outcomes of the factory calls Complete makes (ring0Factory's
\* DefaultNamespace, ClientSet, ClientConfig and RESTClient, which load
\* the kubeconfig through the client cache): all succeed, or one fails.
FactoryResults == BOOLEAN

\* CheckErr: the process ends with exit code 1.
Fail ==
    /\ pc' = "exited" /\ exit' = "1"

\* Complete: POD is required (flag or first argument); with -p every
\* argument is a port, else the arguments after the first; then the
\* factory calls (DefaultNamespace, ClientSet, ClientConfig, RESTClient),
\* any of which may fail.
Complete(factoryOk) ==
    /\ pc = "complete" /\ exit = "none"
    /\ IF podFlag = "" /\ args = <<>>
       THEN Fail /\ UNCHANGED opts
       ELSE /\ opts' = IF podFlag # ""
                       THEN [podName |-> podFlag, ports |-> args]
                       ELSE [podName |-> Head(args), ports |-> Tail(args)]
            /\ IF factoryOk THEN pc' = "validate" /\ UNCHANGED exit ELSE Fail
    /\ UNCHANGED <<podFlag, args, result, notified, signals, waiter, stopClosed, interrupts>>

\* Validate: a pod name and at least one port (the clients are set).
Validate ==
    /\ pc = "validate" /\ exit = "none"
    /\ IF opts.podName = "" \/ Len(opts.ports) < 1
       THEN Fail
       ELSE pc' = "run" /\ UNCHANGED exit
    /\ UNCHANGED <<opts, podFlag, args, result, notified, signals, waiter, stopClosed, interrupts>>

\* Faulty variant: the signal goroutine is never started.
RunPortForwardNoWaiter(running) ==
    /\ pc = "run" /\ exit = "none"
    /\ IF running
       THEN /\ pc' = "forward" /\ notified' = TRUE
            /\ UNCHANGED <<exit, waiter>>
       ELSE Fail /\ UNCHANGED <<notified, waiter>>
    /\ UNCHANGED <<opts, podFlag, args, result, signals, stopClosed, interrupts>>

\* RunPortForward: Get the pod (an error or a pod not Running ends the
\* command), signal.Notify, start the goroutine, call ForwardPorts.
RunPortForward(running) ==
    /\ pc = "run" /\ exit = "none"
    /\ IF running
       THEN /\ pc' = "forward" /\ notified' = TRUE /\ waiter' = "waiting"
            /\ UNCHANGED exit
       ELSE Fail /\ UNCHANGED <<notified, waiter>>
    /\ UNCHANGED <<opts, podFlag, args, result, signals, stopClosed, interrupts>>

\* ForwardPorts returns: nil once StopChannel is closed, or an error
\* (dialing, listening or a lost connection) at any time.
ForwardPortsReturns(err) ==
    /\ pc = "forward" /\ exit = "none"
    /\ err \/ stopClosed
    /\ result' = IF err THEN "err" ELSE "none"
    /\ pc' = "return"
    /\ UNCHANGED <<opts, podFlag, args, notified, signals, waiter, stopClosed, exit, interrupts>>

\* Faulty variant: the result of RunPortForward is not checked.
ReturnIgnoresError ==
    /\ pc = "return" /\ exit = "none"
    /\ notified' = FALSE
    /\ pc' = "exited"
    /\ exit' = "0"
    /\ UNCHANGED <<opts, podFlag, args, result, signals, waiter, stopClosed, interrupts>>

\* The deferred signal.Stop, then CheckErr of the result; Run returns and
\* the process exits 0 when there is no error.
Return ==
    /\ pc = "return" /\ exit = "none"
    /\ notified' = FALSE
    /\ pc' = "exited"
    /\ exit' = IF result = "err" THEN "1" ELSE "0"
    /\ UNCHANGED <<opts, podFlag, args, result, signals, waiter, stopClosed, interrupts>>

\* The goroutine receives from signals and closes StopChannel (non-nil).
Waiter ==
    /\ waiter = "waiting" /\ signals > 0 /\ exit = "none"
    /\ signals' = signals - 1
    /\ stopClosed' = TRUE
    /\ waiter' = "done"
    /\ UNCHANGED <<pc, opts, podFlag, args, result, notified, exit, interrupts>>

\* The user presses Ctrl-C.
Interrupt ==
    /\ exit = "none" /\ interrupts < MaxInterrupts
    /\ interrupts' = interrupts + 1
    /\ IF notified
       THEN /\ signals' = IF signals < 1 THEN signals + 1 ELSE signals
            /\ UNCHANGED <<pc, exit>>
       ELSE /\ pc' = "exited" /\ exit' = "killed"
            /\ UNCHANGED signals
    /\ UNCHANGED <<opts, podFlag, args, result, notified, waiter, stopClosed>>

\* The main goroutine's steps; a forwarder that keeps working is not
\* obliged to fail.
Progress ==
    \/ \E ok \in FactoryResults : Complete(ok)
    \/ Validate
    \/ \E running \in BOOLEAN : RunPortForward(running)
    \/ ForwardPortsReturns(FALSE)
    \/ Return

Main == Progress \/ ForwardPortsReturns(TRUE)

Next == Main \/ Waiter \/ Interrupt

\* The process's goroutines are scheduled; the user is not obliged to
\* press anything, nor is the connection obliged to break.
Spec == Init /\ [][Next]_vars /\ WF_vars(Progress) /\ WF_vars(Waiter)

-----------------------------------------------------------------------------

\* Ctrl-C ends port-forward: once the user has pressed it, the process
\* eventually exits, whatever step it was in (killed before Notify and
\* after Stop, through close(StopChannel) in between).
InterruptEndsCommand == interrupts > 0 ~> exit # "none"

\* The process exits 0 only when the forwarder was stopped by an
\* interrupt.
CleanExitOnlyOnInterrupt == exit = "0" => stopClosed /\ interrupts > 0

=============================================================================
