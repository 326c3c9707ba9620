------------------------------- MODULE MapFeed --------------------------------
(***************************************************************************)
(* The host of simple_mapreduce and the board's input queue: the host      *)
(* sends a key whenever the board has asked for words, and counts what was *)
(* asked for in curRequestedIn, which main and portal thread update        *)
(* without a lock: both sides load it and store it in separate steps.      *)
(***************************************************************************)
EXTENDS Portal

CONSTANTS
  Grant,       \* keys asked for at a time, 8 in the code
  GrantLevel,  \* more are asked for below this level, 4 in the code
  InQSize      \* the board's input queue, 128 in the code

ASSUME GrantAssumption == Grant \in Nat /\ GrantLevel \in Nat /\ InQSize \in Nat

VARIABLES
  curRequestedIn,  \* keys the host may send
  loaded,          \* curRequestedIn as the main thread has loaded it
  bMrDone,
  mapHeaderQ,      \* keys received
  curInRequested,  \* keys asked for and not received
  totalMapReq      \* keys received since the board was reset

mapVars == <<curRequestedIn, loaded, bMrDone, mapHeaderQ, curInRequested, totalMapReq>>

\* The register counts what is in the queue.
curInIn == Len(mapHeaderQ)

\* platform(): reset, the keys, finalize and start, and wait for mrDone.
MapReduceMain(keys) ==
  <<[do |-> "reset"]>>
    \o [i \in DOMAIN keys |-> [do |-> "sendMapData", key |-> keys[i]]]
    \o <<[do |-> "send", req |-> [kind |-> "finalize"]],
         [do |-> "send", req |-> [kind |-> "start"]], [do |-> "awaitMrDone"]>>

MapInit ==
  /\ curRequestedIn = 0 /\ loaded = 0 /\ bMrDone = FALSE
  /\ mapHeaderQ = <<>> /\ curInRequested = 0 /\ totalMapReq = 0
-----------------------------------------------------------------------------
\* The portal thread runs already: what it has counted is lost.
DoReset ==
  /\ Doing("reset") /\ Proceed
  /\ raced' = (raced \/ curRequestedIn # 0)
  /\ curRequestedIn' = 0 /\ bMrDone' = FALSE
  /\ UNCHANGED <<program, at, requests, indications, handler, misprinted,
                 loaded, mapHeaderQ, curInRequested, totalMapReq>>

\* send_mapData: wait, send, and decrement in two steps.
DoSendMapData ==
  /\ Doing("sendMapData")
  /\ \/ /\ at = "start" /\ curRequestedIn > 0
        /\ Request([kind |-> "sendKey", key |-> Step.key])
        /\ at' = "load" /\ UNCHANGED <<script, curRequestedIn, loaded, raced>>
     \/ /\ at = "load" /\ loaded' = curRequestedIn
        /\ at' = "store" /\ UNCHANGED <<script, requests, curRequestedIn, raced>>
     \/ /\ at = "store" /\ curRequestedIn' = loaded - 1
        /\ raced' = (raced \/ curRequestedIn # loaded)
        /\ at' = "start" /\ Proceed /\ UNCHANGED <<requests, loaded>>
  /\ UNCHANGED <<program, indications, handler, misprinted,
                 bMrDone, mapHeaderQ, curInRequested, totalMapReq>>

DoAwaitMrDone ==
  /\ Doing("awaitMrDone") /\ bMrDone /\ Proceed
  /\ UNCHANGED <<program, at, requests, indications, handler, raced, misprinted, mapVars>>

MapMain == DoReset \/ DoSendMapData \/ DoAwaitMrDone
-----------------------------------------------------------------------------
RequestWords ==
  /\ \/ /\ Handle("requestWords")
        /\ handler' = [pc |-> "requestWords", arg |-> curRequestedIn]
        /\ UNCHANGED <<curRequestedIn, raced>>
     \/ /\ handler.pc = "requestWords"
        /\ curRequestedIn' = handler.arg + Grant
        /\ raced' = (raced \/ curRequestedIn # handler.arg)
        /\ handler' = Idle /\ UNCHANGED indications
  /\ UNCHANGED <<program, script, at, requests, misprinted,
                 loaded, bMrDone, mapHeaderQ, curInRequested, totalMapReq>>

MrDone ==
  /\ Handle("mrDone")
  /\ bMrDone' = TRUE
  /\ UNCHANGED <<program, script, at, requests, handler, raced, misprinted,
                 curRequestedIn, loaded, mapHeaderQ, curInRequested, totalMapReq>>

\* sendKey only prints the key.
SendKeyIndication ==
  /\ Handle("sendKey")
  /\ UNCHANGED <<program, script, at, requests, handler, raced, misprinted, mapVars>>

MapPortal == RequestWords \/ MrDone \/ SendKeyIndication
-----------------------------------------------------------------------------
mapHostUnchanged ==
  UNCHANGED <<program, script, at, handler, raced, misprinted, curRequestedIn, loaded, bMrDone>>

\* The board asks as soon as its clock runs, before anything has been sent to it.
SendInReq ==
  /\ program.board = "mapreduce"
  /\ curInRequested < GrantLevel /\ curInIn < GrantLevel
  /\ InQSize > curInIn + curInRequested
  /\ Indicate([kind |-> "requestWords"])
  /\ curInRequested' = curInRequested + Grant
  /\ mapHostUnchanged /\ UNCHANGED <<requests, mapHeaderQ, totalMapReq>>

SendKey ==
  /\ Receive("sendKey") /\ curInIn < InQSize
  /\ curInRequested' = IF curInRequested > 0 THEN curInRequested - 1 ELSE 0
  /\ mapHeaderQ' = Append(mapHeaderQ, Head(requests).key)
  /\ totalMapReq' = totalMapReq + 1
  /\ mapHostUnchanged /\ UNCHANGED indications
=============================================================================
