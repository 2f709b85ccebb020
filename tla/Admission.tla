------------------------------ MODULE Admission ------------------------------
(***************************************************************************)
(* Who gets as far as a handler: the clients of the configuration          *)
(* (f2bguard/config.py), the worker slots of GuardHTTPServer, the          *)
(* certificate of the connection and the rate limiter (f2bguard/server.py). *)
(*                                                                         *)
(* One thread accepts and starts a thread for each connection, unless all  *)
(* slots are taken.  That thread does the TLS handshake, reads a request,  *)
(* finds the client by its certificate, asks the rate limiter, reads the   *)
(* body and calls the handler; whichever of these ends the connection, the *)
(* finally clause closes it and gives the slot back.  Every answer closes  *)
(* the connection, so there is one request on each.  What the handler does *)
(* is in Delivery and Enforcement; here it is one step.                    *)
(*                                                                         *)
(* RateLimiter.allow reads the clock before it takes its lock, so two      *)
(* threads may enter their stamps in the wrong order.                      *)
(***************************************************************************)
EXTENDS Integers, Sequences, FiniteSets

CONSTANTS
    Id,             \* client ids
    Fingerprint,    \* certificates, by their hexdigest
    Jail,
    Files,          \* the client lists config.json may hold
    Conn,           \* connections that may hold a slot at a time
    Slots,          \* 64 worker slots
    Limit,          \* requests_per_minute
    Window,         \* 60 seconds
    MaxClock,       \* bound on the clock
    MaxConnections, \* bound on how many connections arrive
    None            \* no client, no configuration

\* A fingerprint as it is written, in lower case or not.
Written == [digest : Fingerprint, lower : BOOLEAN]
ClientItem == [id : Id, cert_sha256 : Seq(Written), allowed_jails : Seq(Jail)]

ASSUME AdmissionAssumption ==
    /\ Files \subseteq Seq(ClientItem)
    /\ Slots \in Nat \ {0} /\ Limit \in Nat \ {0} /\ Window \in Nat \ {0}
    /\ MaxClock \in Nat /\ MaxConnections \in Nat
    /\ None \notin Id

VARIABLES
    file,       \* the client list of config.json
    config,     \* the clients the server runs with, or None before and without
    free,       \* the value of _worker_slots
    conn,       \* conn[c]: how far a connection is
    history,    \* history[i]: the stamps the limiter keeps for client i
    now,        \* time.monotonic()
    arrived,    \* connections accepted so far
    admitted    \* history: all admissions of a client, stamp and true time

admissionVars == <<file, config, free, conn, history, now, arrived, admitted>>

Stages == {"absent", "starting", "handshake", "request", "stamped", "handling", "closing"}
Absent == [stage |-> "absent", cert |-> None, client |-> None, stamp |-> 0]

AdmissionTypeOK ==
    /\ free \in 0 .. Slots
    /\ conn \in [Conn -> [stage : Stages, cert : Fingerprint \cup {None},
                          client : Id \cup {None}, stamp : 0 .. MaxClock]]
    /\ \A i \in Id : Len(history[i]) <= Limit
    /\ now \in 0 .. MaxClock

AdmissionInit ==
    /\ file \in Files
    /\ config = None
    /\ free = Slots
    /\ conn = [c \in Conn |-> Absent]
    /\ history = [i \in Id |-> <<>>]
    /\ now = 0
    /\ arrived = 0
    /\ admitted = [i \in Id |-> <<>>]

-----------------------------------------------------------------------------
(***************************************************************************)
(* The clients of the configuration.                                       *)
(***************************************************************************)

\* Mutant: fingerprints are compared as they are written.
SameFingerprint_AsWritten(f, g) == f = g

\* normalized = fingerprint.lower()
SameFingerprint(f, g) == f.digest = g.digest

\* No two entries of a list are the same.
Distinct(s) == \A k, l \in DOMAIN s : s[k] = s[l] => k = l

\* The loop over clients, up to its first ConfigError.
Legal(items) ==
    /\ Distinct([n \in DOMAIN items |-> items[n].id])
    /\ \A n \in DOMAIN items :
          /\ items[n].cert_sha256 # <<>> /\ items[n].allowed_jails # <<>>
          /\ Distinct(items[n].allowed_jails)
    /\ \A n, o \in DOMAIN items :
          \A k \in DOMAIN items[n].cert_sha256, l \in DOMAIN items[o].cert_sha256 :
              SameFingerprint(items[n].cert_sha256[k], items[o].cert_sha256[l])
                  => n = o /\ k = l

Digests(item) == {item.cert_sha256[k].digest : k \in DOMAIN item.cert_sha256}

\* load_config; without a legal list the server does not start.
LoadConfig ==
    /\ config = None
    /\ Legal(file)
    /\ config' = [n \in DOMAIN file |-> [id |-> file[n].id, digests |-> Digests(file[n])]]
    /\ UNCHANGED <<file, free, conn, history, now, arrived, admitted>>

\* clients_by_fingerprint: a dictionary, in which the last entry wins.
ClientOf(digest) ==
    LET at == {n \in DOMAIN config : digest \in config[n].digests}
    IN  IF at = {} THEN None ELSE config[CHOOSE n \in at : \A o \in at : o <= n].id

-----------------------------------------------------------------------------
(***************************************************************************)
(* The accepting thread.  It has one connection in its hands at a time.    *)
(***************************************************************************)
Goes(c, stage) == conn' = [conn EXCEPT ![c].stage = stage]
Closes(c) == conn' = [conn EXCEPT ![c] = [Absent EXCEPT !.stage = "closing"]]

\* process_request: a slot is taken, and a thread started next.
Accept(c) ==
    /\ config # None /\ arrived < MaxConnections
    /\ free > 0
    /\ conn[c] = Absent
    /\ \A d \in Conn : conn[d].stage # "starting"
    /\ arrived' = arrived + 1
    /\ free' = free - 1
    /\ Goes(c, "starting")
    /\ UNCHANGED <<file, config, history, now, admitted>>

\* process_request: without a slot the connection is shut at once.
Refuse ==
    /\ config # None /\ arrived < MaxConnections
    /\ free = 0
    /\ \A d \in Conn : conn[d].stage # "starting"
    /\ arrived' = arrived + 1
    /\ UNCHANGED <<file, config, free, conn, history, now, admitted>>

ThreadStarts(c) ==
    /\ conn[c].stage = "starting"
    /\ Goes(c, "handshake")
    /\ UNCHANGED <<file, config, free, history, now, arrived, admitted>>

\* Mutant: the slot is not given back when the thread cannot be started.
ThreadFails_KeepsSlot(c) ==
    /\ conn[c].stage = "starting"
    /\ conn' = [conn EXCEPT ![c] = Absent]
    /\ UNCHANGED <<file, config, free, history, now, arrived, admitted>>

\* The thread cannot be started: the slot is given back here.
ThreadFails(c) ==
    /\ conn[c].stage = "starting"
    /\ conn' = [conn EXCEPT ![c] = Absent]
    /\ free' = free + 1
    /\ UNCHANGED <<file, config, history, now, arrived, admitted>>

-----------------------------------------------------------------------------
(***************************************************************************)
(* The thread of a connection.                                             *)
(***************************************************************************)

\* wrap_socket succeeds: the peer has a certificate of the CA.
HandshakeEnds(c) ==
    /\ conn[c].stage = "handshake"
    /\ \E f \in Fingerprint :
          conn' = [conn EXCEPT ![c].stage = "request", ![c].cert = f]
    /\ UNCHANGED <<file, config, free, history, now, arrived, admitted>>

\* Mutant: the timeout is set when the handler is set up, after the handshake.
ConnectionEnds_LateTimeout(c) ==
    /\ conn[c].stage \in {"request", "handling"}
    /\ Closes(c)
    /\ UNCHANGED <<file, config, free, history, now, arrived, admitted>>

\* A failed handshake, a read that times out or ends early, a request that
\* http.server refuses; and whatever ends the handler, its answer or an
\* exception.  Reads are bounded and each has its 10 seconds.
ConnectionEnds(c) ==
    /\ conn[c].stage \in {"handshake", "request", "handling"}
    /\ Closes(c)
    /\ UNCHANGED <<file, config, free, history, now, arrived, admitted>>

\* _authorize for a certificate no client lists: 403.
Unknown(c) ==
    /\ conn[c].stage = "request"
    /\ ClientOf(conn[c].cert) = None
    /\ Closes(c)
    /\ UNCHANGED <<file, config, free, history, now, arrived, admitted>>

\* _authorize for a client; allow reads the clock.
ReadClock(c) ==
    /\ conn[c].stage = "request"
    /\ ClientOf(conn[c].cert) # None
    /\ conn' = [conn EXCEPT ![c].stage = "stamped", ![c].stamp = now,
                            ![c].client = ClientOf(conn[c].cert)]
    /\ UNCHANGED <<file, config, free, history, now, arrived, admitted>>

\* Mutant: a stamp leaves the window one tick late.
Outside_Late(stamp, current) == stamp < current - Window

\* Mutant: a stamp leaves the window one tick early.
Outside_Early(stamp, current) == stamp <= current - Window + 1

Outside(stamp, current) == stamp <= current - Window

\* What the popleft loop leaves: it stops at the first stamp inside.
Kept(s, current) ==
    LET inside == {k \in DOMAIN s : ~Outside(s[k], current)}
    IN  IF inside = {} THEN <<>>
        ELSE SubSeq(s, CHOOSE k \in inside : \A l \in inside : k <= l, Len(s))

\* Mutant: one request more than the limit.
AtLimit_OneMore(s) == Len(s) > Limit

AtLimit(s) == Len(s) >= Limit

\* The rest of allow, under its lock.
Allow(c) ==
    /\ conn[c].stage = "stamped"
    /\ LET i == conn[c].client
           kept == Kept(history[i], conn[c].stamp)
       IN  \/ /\ AtLimit(kept)
              /\ history' = [history EXCEPT ![i] = kept]
              /\ Closes(c)
              /\ UNCHANGED admitted
           \/ /\ ~AtLimit(kept)
              /\ history' = [history EXCEPT ![i] = Append(kept, conn[c].stamp)]
              /\ conn' = [conn EXCEPT ![c].stage = "handling", ![c].stamp = 0]
              /\ admitted' = [admitted EXCEPT ![i] =
                    Append(@, [stamp |-> conn[c].stamp, time |-> now])]
    /\ UNCHANGED <<file, config, free, now, arrived>>

\* The finally clause of process_request_thread.
Release(c) ==
    /\ conn[c].stage = "closing"
    /\ conn' = [conn EXCEPT ![c] = Absent]
    /\ free' = free + 1
    /\ UNCHANGED <<file, config, history, now, arrived, admitted>>

Tick ==
    /\ now < MaxClock
    /\ now' = now + 1
    /\ UNCHANGED <<file, config, free, conn, history, arrived, admitted>>

AdmissionNext ==
    \/ LoadConfig
    \/ Refuse
    \/ Tick
    \/ \E c \in Conn :
          \/ Accept(c) \/ ThreadStarts(c) \/ ThreadFails(c) \/ HandshakeEnds(c)
          \/ ConnectionEnds(c) \/ Unknown(c) \/ ReadClock(c) \/ Allow(c) \/ Release(c)

AdmissionSpec == AdmissionInit /\ [][AdmissionNext]_admissionVars

\* Every started thread runs; a peer that says nothing ends by its timeout.
AdmissionFairness ==
    \A c \in Conn :
        /\ WF_admissionVars(ThreadStarts(c))
        /\ WF_admissionVars(ConnectionEnds(c))
        /\ WF_admissionVars(Allow(c))
        /\ WF_admissionVars(Release(c))

FairAdmissionSpec == AdmissionSpec /\ AdmissionFairness

-----------------------------------------------------------------------------
(***************************************************************************)
(* Properties.                                                             *)
(***************************************************************************)
Holding == {c \in Conn : conn[c] # Absent}

\* Every way a connection may end gives its slot back exactly once: the slots
\* never run out by a leak, and a second release never lets a 65th thread in.
SlotsBalance == free + Cardinality(Holding) = Slots

\* No connection keeps its slot for ever, whatever its peer does.
SlotsComeBack == \A c \in Conn : conn[c] # Absent ~> conn[c] = Absent

\* A request is served as the one client whose entry lists its certificate, in
\* whichever case it is written there: no certificate speaks for two clients.
ServedAsTheOneListed ==
    \A c \in Conn : conn[c].client # None =>
        \A n \in DOMAIN file :
            conn[c].cert \in Digests(file[n]) <=> file[n].id = conn[c].client

\* The limit holds in real time, although stamps may be entered out of order:
\* of Limit + 1 requests admitted one after the other, the last is let in no
\* less than Window after the clock was read for the first.
RateIsKept ==
    \A i \in Id : \A n \in 1 .. Len(admitted[i]) - Limit :
        admitted[i][n + Limit].time >= admitted[i][n].stamp + Window

\* Nobody is answered 429 unless Limit requests of this client were let in
\* later than Window before the clock was read: a late stamp that stays in the
\* list behind a younger one refuses no request that the rate allows.
NoNeedlessRefusal ==
    [][\A c \in Conn :
          conn[c].stage = "stamped" /\ conn'[c].stage = "closing" =>
              LET past == admitted[conn[c].client]
              IN  /\ Len(past) >= Limit
                  /\ \A n \in Len(past) - Limit + 1 .. Len(past) :
                        past[n].time > conn[c].stamp - Window]_admissionVars
=============================================================================
