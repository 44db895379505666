--------------------------- MODULE SessionMonitor ---------------------------
(***************************************************************************)
(* What the process knows of the WhatsApp session: the gateway's session   *)
(* itself, the adapter's status read (channel/waha.ts: cached ten seconds, *)
(* one request at a time) and the outage bookkeeping of                    *)
(* channel/session-monitor.ts.  Four callers check it: the retry loop, the *)
(* 15-second timer, the workers before a job and after a failed send.      *)
(*                                                                         *)
(* The session changes from WORKING to not working and back; a gateway     *)
(* that does not answer counts as not working, as it does for the code.    *)
(* A reading is the `epoch` in which the gateway answered: the number of   *)
(* changes by then, even while the session works.                          *)
(***************************************************************************)
EXTENDS Integers

CONSTANTS
  Checks,      \* callers of check() that may wait at once
  Nobody,      \* no check, no reading
  Asked,       \* a request the gateway has not answered
  LongOutage,  \* WHATSAPP_LONG_OUTAGE_MS, in minutes
  MaxDrops,    \* the session drops up to so many times
  MaxOutages   \* and outages are tracked up to here

ASSUME SessionAssumption ==
  /\ Nobody \notin Checks
  /\ LongOutage \in Nat
  /\ MaxDrops \in Nat
  /\ MaxOutages \in Nat
  /\ Asked # Nobody
  /\ {Asked, Nobody} \cap 0 .. 2 * MaxDrops = {}

VARIABLES
  epoch,       \* changes of the session, WORKING while even
  cache,       \* sessionStatusCache
  fetch,       \* the answer to the status request a check has sent
  waitsOn,     \* the check whose request a check waits for
  last,        \* the reading observed last
  outage,      \* the outage downSince stands for, 0 when undefined
  outages,     \* outages so far: two of them never share a downSince
  downFor,     \* minutes since downSince, counted up to LongOutage + 1
  longLogged   \* longOutageLogged

adapterVars == <<cache, fetch, waitsOn>>
monitorVars == <<last, outage, outages, downFor, longLogged>>
sessionVars == <<epoch, adapterVars, monitorVars>>

Readings == 0 .. 2 * MaxDrops
Works(r) == r % 2 = 0

SessionTypeOK ==
  /\ epoch \in 0 .. 2 * MaxDrops
  /\ cache \in Readings \cup {Nobody}
  /\ fetch \in [Checks -> Readings \cup {Nobody, Asked}]
  /\ waitsOn \in [Checks -> Checks \cup {Nobody}]
  /\ last \in Readings
  /\ outages \in 0 .. MaxOutages
  /\ outage \in 0 .. outages
  /\ downFor \in 0 .. LongOutage + 1
  /\ longLogged \in BOOLEAN

SessionInit ==
  /\ epoch = 0
  /\ cache = Nobody
  /\ fetch = [c \in Checks |-> Nobody]
  /\ waitsOn = [c \in Checks |-> Nobody]
  /\ last = 0
  /\ outage = 0
  /\ outages = 0
  /\ downFor = 0
  /\ longLogged = FALSE

-----------------------------------------------------------------------------
(* The gateway. *)

\* The phone loses the session: it reports FAILED, STARTING, SCAN_QR_CODE.
SessionDrops ==
  /\ Works(epoch)
  /\ epoch < 2 * MaxDrops
  /\ epoch' = epoch + 1
  /\ UNCHANGED <<adapterVars, monitorVars>>

SessionReturns ==
  /\ ~Works(epoch)
  /\ epoch' = epoch + 1
  /\ UNCHANGED <<adapterVars, monitorVars>>

-----------------------------------------------------------------------------
(* The outage bookkeeping. *)

WasLong == longLogged \/ downFor > LongOutage

\* Working again after more than two minutes: the owner is told.
Recovers(r) == Works(r) /\ outage # 0 /\ WasLong

\* A reading is observed: an outage begins, goes on, becomes a long one or is
\* over.
Observe(r) ==
  /\ last' = r
  /\ IF Works(r)
     THEN /\ outage' = 0
          /\ downFor' = 0
          /\ longLogged' = FALSE
          /\ UNCHANGED outages
     ELSE /\ outages' = IF outage = 0 THEN outages + 1 ELSE outages
          /\ outage' = IF outage = 0 THEN outages + 1 ELSE outage
          /\ downFor' = IF outage = 0 THEN 0 ELSE downFor
          /\ longLogged' = (outage # 0 /\ WasLong)

-----------------------------------------------------------------------------
(* The status read. *)

\* Mutation of Joins: every check sends a request of its own.
JoinsNothing(c) == {}

\* The requests a check finds under way: it waits for theirs.
Joins(c) == {f \in Checks : fetch[f] # Nobody}

\* A check is answered from the cache.
CheckCached(c) ==
  /\ waitsOn[c] = Nobody
  /\ cache # Nobody
  /\ Observe(cache)
  /\ UNCHANGED <<epoch, adapterVars>>

\* A check asks the gateway, or waits for the request already sent.
CheckAsks(c) ==
  /\ waitsOn[c] = Nobody
  /\ cache = Nobody
  /\ IF Joins(c) = {}
     THEN /\ fetch' = [fetch EXCEPT ![c] = Asked]
          /\ waitsOn' = [waitsOn EXCEPT ![c] = c]
     ELSE /\ \E f \in Joins(c) : waitsOn' = [waitsOn EXCEPT ![c] = f]
          /\ UNCHANGED fetch
  /\ UNCHANGED <<epoch, cache, monitorVars>>

\* The gateway answers, or does not: an error, a bad body or the timeout read
\* as UNKNOWN, which counts as down.
Answers(f) ==
  /\ fetch[f] = Asked
  /\ Works(epoch) \/ outage # 0 \/ outages < MaxOutages
  /\ fetch' = [fetch EXCEPT ![f] = epoch]
  /\ UNCHANGED <<epoch, cache, waitsOn, monitorVars>>

\* The answer arrives: it is cached and everyone who waited observes it.
Waiting(f) == {c \in Checks : waitsOn[c] = f}

FetchEnds(f) ==
  /\ fetch[f] \in Readings
  /\ Works(fetch[f]) \/ outage # 0 \/ outages < MaxOutages
  /\ cache' = fetch[f]
  /\ Observe(fetch[f])
  /\ fetch' = [fetch EXCEPT ![f] = Nobody]
  /\ waitsOn' = [c \in Checks |-> IF waitsOn[c] = f THEN Nobody ELSE waitsOn[c]]
  /\ UNCHANGED epoch

\* invalidateSessionStatus: a send found the session down.
Invalidate ==
  /\ cache' = Nobody
  /\ UNCHANGED <<epoch, fetch, waitsOn, monitorVars>>

\* A minute passes; a request takes three seconds, the cache lives for ten.
MonitorTick ==
  /\ \A c \in Checks : waitsOn[c] = Nobody
  /\ cache' = Nobody
  /\ downFor' = IF outage # 0 /\ downFor <= LongOutage THEN downFor + 1 ELSE downFor
  /\ UNCHANGED <<epoch, fetch, waitsOn, last, outage, outages, longLogged>>

\* The process dies: everything but the gateway's own state is forgotten.
MonitorCrash ==
  /\ cache' = Nobody
  /\ fetch' = [c \in Checks |-> Nobody]
  /\ waitsOn' = [c \in Checks |-> Nobody]
  /\ last' = 0
  /\ outage' = 0
  /\ downFor' = 0
  /\ longLogged' = FALSE
  /\ UNCHANGED <<epoch, outages>>

=============================================================================
