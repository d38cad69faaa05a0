---------------------------- MODULE ControlPort ----------------------------
(***************************************************************************)
(* What the routes of the control port share: the daemon behind them, and  *)
(* the bearer gate of pkg/httpapi/auth.go.  The token is read once, when   *)
(* the daemon boots; a token that is mounted later is not seen.            *)
(***************************************************************************)
EXTENDS Naturals

VARIABLES phase,   \* "down", "boot" (nothing served yet) or "up"
          token    \* the daemon found a control token when it booted

portVars == <<phase, token>>

\* The verdict of a check that lets the request on.
Pass == 0

Bearer == {"right", "wrong", "missing"}

\* isMutatingPattern, of the methods that have routes here.
Mutating(method) == method \in {"POST", "PUT", "PATCH", "DELETE"}

\* register wraps the routes with a writing verb in requireBearer.
RequireBearer(method, bearer) ==
  CASE ~Mutating(method) -> Pass
    [] Mutating(method) /\ ~token -> 503
    [] Mutating(method) /\ token /\ bearer # "right" -> 401
    [] OTHER -> Pass

PortInit == phase = "down" /\ token = FALSE

\* loadControlToken: a missing or empty file does not stop the daemon.
LoadControlToken ==
  /\ phase = "down" /\ phase' = "boot"
  /\ token' \in BOOLEAN

\* ListenAndServe, the last thing the boot does.
ListenAndServe == phase = "boot" /\ phase' = "up" /\ UNCHANGED token

\* The process ends, in whatever way.
Die == phase # "down" /\ phase' = "down" /\ token' = FALSE

PortTypeOK == phase \in {"down", "boot", "up"} /\ token \in BOOLEAN
=============================================================================
