-------------------------------- MODULE Portal --------------------------------
(***************************************************************************)
(* What the programs that talk to a board through a portal have in common: *)
(* a main thread that works down a script of steps, a portal thread that   *)
(* runs one indication handler at a time, a board that takes requests in   *)
(* order, and the two queues between them.  The steps, handlers and boards *)
(* of the programs are in the modules that extend this one.                *)
(***************************************************************************)
EXTENDS Naturals, Sequences

CONSTANT Programs  \* records of name, script, needle and haystack

VARIABLES
  program,      \* the program that runs, chosen once
  script,       \* what its main thread still has to do
  at,           \* where it is within the first step
  requests,     \* requests on their way to the board
  indications,  \* indications on their way to the portal thread
  handler,      \* where the portal thread is within a handler, and its data
  raced,        \* an update or a wake-up was lost to an unlocked access
  misprinted    \* a value was printed that is not the one it stands for

portalVars ==
  <<program, script, at, requests, indications, handler, raced, misprinted>>

Idle == [pc |-> "idle", arg |-> 0]

Doing(what) == script # <<>> /\ Head(script).do = what
Step        == Head(script)
Proceed     == script' = Tail(script)
Ended       == script = <<>>

Request(r)  == requests' = Append(requests, r)
Indicate(i) == indications' = Append(indications, i)

\* The board takes the next request, if it is of this kind.
Receive(kind) ==
  requests # <<>> /\ Head(requests).kind = kind /\ requests' = Tail(requests)

\* The portal thread takes the next indication, if it is of this kind.
Handle(kind) ==
  /\ handler.pc = "idle"
  /\ indications # <<>> /\ Head(indications).kind = kind
  /\ indications' = Tail(indications)
Indication == Head(indications)

PortalInit ==
  /\ program \in Programs
  /\ script = program.script
  /\ at = "start"
  /\ requests = <<>> /\ indications = <<>>
  /\ handler = Idle
  /\ raced = FALSE /\ misprinted = FALSE
=============================================================================
