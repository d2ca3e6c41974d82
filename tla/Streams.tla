------------------------------- MODULE Streams -------------------------------
(***************************************************************************)
(* The event streams of one address: which tabs have one open, and the     *)
(* slots the limiter counts for them (sseRateLimit.ts on rateLimiter.ts,   *)
(* get_stream of sync.controller.ts, the reconnecting client of sync.ts).  *)
(***************************************************************************)
EXTENDS Naturals, FiniteSets, Sequences, SequencesExt

CONSTANTS
    Tabs,
    MaxStreams,     \* SSE_MAX_CONNECTIONS_PER_IP
    MaxDrops        \* bound on lost connections

ASSUME StreamsAssumption ==
    /\ IsFiniteSet(Tabs)
    /\ MaxStreams \in Nat \ {0} /\ MaxDrops \in Nat

VARIABLES
    up,         \* tabs whose stream is open at both ends
    ghosts,     \* streams whose client has gone, unnoticed by the server
    hits,       \* the limiter's hits for the address
    drops

streams == <<up, ghosts, hits, drops>>

StreamsInit == up = {} /\ ghosts = 0 /\ hits = 0 /\ drops = 0

(* Definitions named ...Mutant are faulty variants of the definition that  *)
(* follows; nothing here uses them.                                        *)

(* RateLimiter.revoke takes the newest hit away, if there is one.          *)
Revoked(n) == IF n = 0 THEN 0 ELSE n - 1

(* A stream is admitted while the window has room; a refused tab retries.  *)
Admitted == hits < MaxStreams
Open(t) ==
    /\ t \notin up /\ Admitted
    /\ up' = up \cup {t}
    /\ hits' = hits + 1
    /\ UNCHANGED <<ghosts, drops>>
(* A request with an expired token is admitted by the limiter, answered    *)
(* 401, and revoked both when its answer finishes and when it closes.      *)
Unauthorized ==
    /\ Admitted
    /\ hits' = Revoked(Revoked(hits + 1))
    /\ UNCHANGED <<up, ghosts, drops>>
Lose(t) ==
    /\ t \in up /\ drops < MaxDrops
    /\ up' = up \ {t}
    /\ ghosts' = ghosts + 1
    /\ drops' = drops + 1
    /\ UNCHANGED hits
(* The server notices that the client has gone.                            *)
CloseMutant ==
    /\ ghosts > 0
    /\ ghosts' = ghosts - 1
    /\ UNCHANGED <<up, drops, hits>>
Close ==
    /\ ghosts > 0
    /\ ghosts' = ghosts - 1
    /\ hits' = Revoked(hits)
    /\ UNCHANGED <<up, drops>>
(* The hit of a stream that has been open for an hour leaves the window.   *)
AgeOut ==
    /\ hits > 0
    /\ hits' = hits - 1
    /\ UNCHANGED <<up, ghosts, drops>>
StreamsRestart ==
    /\ up' = {} /\ ghosts' = 0 /\ hits' = 0
    /\ UNCHANGED drops

(* The limiter never counts more streams than there are: no tab is refused *)
(* for a stream that has ended, however connections are lost, noticed      *)
(* late, refused for an expired token, or cut by a restart.                *)
SlotsNeverLeak == hits <= Cardinality(up) + ghosts
=============================================================================
