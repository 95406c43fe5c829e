---------------------------- MODULE RuntimeTLS ----------------------------
(***************************************************************************)
(* The rotating TLS material of the agent runtime library.  The kubelet    *)
(* swaps the mounted directory in one step; the reloader reads the pair    *)
(* and the CA bundle one file after the other, on start and on every event *)
(* of its watch; outbound requests rebuild their transport when the        *)
(* reloader's generation has moved.  Material is named by the number of    *)
(* the swap it came with.                                                  *)
(***************************************************************************)
EXTENDS Integers

CONSTANT MaxSwaps  \* bound: rotations of the mounted Secret

VARIABLES
  mount,    \* [version, usable]: what the files hold now
  reload,   \* a reload under way: the versions it has read so far
  loaded,   \* [pair, pool, gen]: what the reloader holds
  watching, \* whether watcher.Add has been called
  events,   \* the ..data events not yet handled
  trip,     \* the generation a RoundTrip under way has read
  inner     \* the transport: the generation noted and the pool it trusts

vars == <<mount, reload, loaded, watching, events, trip, inner>>

None == -1
Idle == [at |-> "idle", cert |-> None, pair |-> None, ca |-> None]

-----------------------------------------------------------------------------
(* reload *)

\* New starts the first reload; afterwards an event does.
StartReload ==
  /\ reload = Idle
  /\ \/ loaded.gen = 0 /\ UNCHANGED events
     \/ events > 0 /\ events' = events - 1
  /\ reload' = [Idle EXCEPT !.at = "cert"]
  /\ UNCHANGED <<mount, loaded, watching, trip, inner>>

\* Material that does not load, or a certificate and a key of different
\* rotations: the reload ends with an error, New with it.
Fails == reload' = Idle

ReadCert ==
  /\ reload.at = "cert"
  /\ IF mount.usable THEN reload' = [reload EXCEPT !.at = "key", !.cert = mount.version] ELSE Fails
  /\ UNCHANGED <<mount, loaded, watching, events, trip, inner>>

ReadKey ==
  /\ reload.at = "key"
  /\ IF mount.usable /\ mount.version = reload.cert
     THEN reload' = [reload EXCEPT !.at = "ca", !.pair = mount.version] ELSE Fails
  /\ UNCHANGED <<mount, loaded, watching, events, trip, inner>>

ReadCA ==
  /\ reload.at = "ca"
  /\ IF mount.usable THEN reload' = [reload EXCEPT !.at = "commit", !.ca = mount.version] ELSE Fails
  /\ UNCHANGED <<mount, loaded, watching, events, trip, inner>>

\* Mutant: only the first load moves the generation.
CommitUnnumbered ==
  /\ reload.at = "commit"
  /\ loaded' = [pair |-> reload.pair, pool |-> reload.ca, gen |-> 1]
  /\ reload' = Idle
  /\ UNCHANGED <<mount, watching, events, trip, inner>>

Commit ==
  /\ reload.at = "commit"
  /\ loaded' = [pair |-> reload.pair, pool |-> reload.ca, gen |-> loaded.gen + 1]
  /\ reload' = Idle
  /\ UNCHANGED <<mount, watching, events, trip, inner>>

\* serve: the watch begins when New has loaded the material.
Watch ==
  /\ loaded.gen > 0 /\ ~watching
  /\ watching' = TRUE
  /\ UNCHANGED <<mount, reload, loaded, events, trip, inner>>

\* The kubelet swaps ..data.
Swap ==
  /\ mount.version < MaxSwaps
  /\ \E usable \in BOOLEAN : mount' = [version |-> mount.version + 1, usable |-> usable]
  /\ events' = IF watching THEN events + 1 ELSE events
  /\ UNCHANGED <<reload, loaded, watching, trip, inner>>

-----------------------------------------------------------------------------
(* reloadingTransport.RoundTrip, under its mutex *)

BeginTrip ==
  /\ loaded.gen > 0 /\ trip = None /\ inner.gen # loaded.gen
  /\ trip' = loaded.gen
  /\ UNCHANGED <<mount, reload, loaded, watching, events, inner>>

\* Between generation and clientTLSConfig a reload may commit.
Rebuild ==
  /\ trip # None
  /\ inner' = [gen |-> trip, pool |-> loaded.pool]
  /\ trip' = None
  /\ UNCHANGED <<mount, reload, loaded, watching, events>>

Init ==
  /\ mount = [version |-> 0, usable |-> TRUE]
  /\ reload = Idle
  /\ loaded = [pair |-> None, pool |-> None, gen |-> 0]
  /\ watching = FALSE /\ events = 0
  /\ trip = None
  /\ inner = [gen |-> None, pool |-> None]

TLSRests ==
  /\ mount.version = MaxSwaps /\ reload = Idle /\ events = 0 /\ trip = None
  /\ UNCHANGED vars

Next ==
  \/ StartReload \/ ReadCert \/ ReadKey \/ ReadCA \/ Commit \/ Watch \/ Swap
  \/ BeginTrip \/ Rebuild \/ TLSRests

Spec == Init /\ [][Next]_vars

-----------------------------------------------------------------------------
(* Properties *)

\* "Comparing generations on each request keeps outbound trust current": a
\* transport whose generation is the reloader's trusts the pool the reloader
\* holds, wherever a reload falls between the two reads of a RoundTrip.
TransportTrustsCurrent == inner.gen = loaded.gen => inner.pool = loaded.pool
=============================================================================
