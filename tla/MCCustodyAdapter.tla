-------------------------- MODULE MCCustodyAdapter --------------------------
(***************************************************************************)
(* Values for CustodyAdapter.                                              *)
(***************************************************************************)
EXTENDS CustodyAdapter

\* Handlers that return and a worker nobody else reaps; the caller blocks
\* nothing, or one of the signals.
Ordinary ==
    [mask : {{}, {"TERM"}},
     handler : [Signals -> {"default", "ignore", "callable"}],
     raising : {FALSE}, reaper : {FALSE}]

\* Handlers that raise, native handlers, a worker reaped elsewhere.
Hostile ==
    [mask : {{}}, handler : [Signals -> {"default", "callable", "native"}],
     raising : {TRUE}, reaper : {TRUE}]

AnyCaller == Ordinary \cup Hostile

\* Handlers that raise, like Python's own for SIGINT, and nothing else.
RaisingCaller ==
    [mask : {{}}, handler : [Signals -> {"callable"}],
     raising : {TRUE}, reaper : {FALSE}]
=============================================================================
