---------------------------- MODULE SocketsProofs ----------------------------
(***************************************************************************)
(* What the poller and its sockets guarantee for any number of sockets,    *)
(* connections and descriptor numbers: an event reaches the socket it      *)
(* happened to, descriptors, files and registrations stay together, and    *)
(* every connect and every end is heard of once.                           *)
(***************************************************************************)
EXTENDS Sockets, FiniteSetTheorems, WellFoundedInduction, TLAPS

USE DEF kernel, poller, reported, sockets, holders, history, vars, Socks

(* The inductive invariant. *)

Waiting == {backlog[i] : i \in DOMAIN backlog}

\* A socket that has not been opened yet.
Unused(s) == peer[s] = "idle" \/ s \in Waiting

Untouched ==
  /\ \A s \in Socks : Unused(s) => /\ fd[s] = None /\ ~timer[s] /\ ~errEmit[s]
                                   /\ answers[s] = <<>>
  /\ \A s \in Waiting : peer[s] # "idle"
  /\ \A i, j \in DOMAIN backlog : backlog[i] = backlog[j] => i = j

\* A file has one number, and somebody who will close it.
Distinct == \A s, r \in Socks : fd[s] = fd[r] /\ fd[s] # None => s = r
Kept == \A s \in Socks : fd[s] # None => Alive(s) \/ s \in posted

\* What is registered has its SockFD, and what waits to be connected no answer.
Watched ==
  \A f \in Fds : eventMap[f].of # None =>
    LET s == eventMap[f].of
    IN  /\ sockFd[s] = "held" /\ eventMap[f].on # "none"
        /\ eventMap[f].on = "connect" => s \in Clients /\ answers[s] = <<>>

\* An event that was not marked is of the file that is registered.
Marked == \A e \in batch : e.fd \notin expired => eventMap[e.fd].of = e.file

\* The socket whose callback runs is open.
InCallback ==
  /\ run.file = run.of
  /\ loop \in {"poll", "events", "accept"} => run = Nobody
  /\ loop \in {"connect", "io", "return"} =>
       run.of \in Socks /\ fd[run.of] # None
  /\ loop = "connect" => /\ run.of \in Clients /\ sockFd[run.of] = "held"
                         /\ answers[run.of] = <<>>

Once ==
  \A s \in Socks : /\ Len(answers[s]) <= 1 /\ (answers[s] # <<>> => ~timer[s])
                   /\ errs[s] <= 1 /\ (errs[s] = 1 => errEmit[s])
                   /\ data[s] <= sentData[s]

\* A retry stands for an edge of the listener, and that for a connection.
ToCome == {s \in Conns : peer[s] = "idle"}
Edges == (IF listener THEN 1 ELSE 0) + (IF accepting THEN 1 ELSE 0)
           + (IF loop = "accept" THEN 1 ELSE 0)
Retrying == retries + Edges + Cardinality(ToCome) <= Cardinality(Conns)

IInv == /\ TypeOK /\ MapMatchesEpoll /\ Untouched /\ Distinct /\ Kept
        /\ Watched /\ Marked /\ InCallback /\ Once /\ Retrying

LEMMA InvImplies == IInv => NoStaleEvent /\ DescriptorsKept /\ HeardOnce
<1> SUFFICES ASSUME IInv PROVE NoStaleEvent /\ DescriptorsKept /\ HeardOnce
  OBVIOUS
<1>1. NoStaleEvent BY DEF IInv, InCallback, NoStaleEvent
<1>2. NoLeak
  <2>1. Distinct /\ Kept BY DEF IInv
  <2>2. ASSUME posted = {}, NEW s \in Socks, fd[s] # None PROVE Alive(s)
    BY <2>1, <2>2 DEF Kept
  <2> QED BY <2>1, <2>2 DEF NoLeak, Distinct
<1>3. HeardOnce BY DEF IInv, Once, HeardOnce
<1> QED BY <1>1, <1>2, <1>3 DEF IInv, DescriptorsKept

-----------------------------------------------------------------------------
(* Numbers: the lowest free descriptor, and the connections still to come. *)

Below == OpToRel(<, Nat)

LEMMA BelowFounded == IsWellFoundedOn(Below, Nat)
BY NatLessThanWellFounded, Zenon DEF Below

LEMMA BelowHolds ==
  ASSUME NEW y \in Nat, NEW x \in Nat, y < x
  PROVE  <<y, x>> \in Below
<1>1. <<y, x>> \in Nat \X Nat OBVIOUS
<1>2. <<y, x>>[1] = y /\ <<y, x>>[2] = x OBVIOUS
<1>3. <<y, x>>[1] < <<y, x>>[2] BY <1>2, Zenon
<1> QED BY <1>1, <1>3, Zenon DEF Below, OpToRel

LEMMA LowestIn ==
  ASSUME NEW F \in SUBSET Nat, F # {} PROVE Lowest(F) \in F
<1>1. PICK x \in F : \A y \in F : ~(<<y, x>> \in Below)
  BY WFMin, BelowFounded, Zenon
<1>2. \A y \in F : x <= y
  <2> TAKE y \in F
  <2>1. ~(y < x) BY <1>1, BelowHolds
  <2> QED BY <2>1
<1> QED BY <1>2 DEF Lowest

LEMMA LowestFree ==
  ASSUME TypeOK, FreeFds # {}
  PROVE  /\ Lowest(FreeFds) \in Fds /\ Lowest(FreeFds) # None
         /\ \A s \in Socks : fd[s] # Lowest(FreeFds)
<1>1. FreeFds \in SUBSET Nat BY FdsAssumption DEF FreeFds
<1>2. Lowest(FreeFds) \in FreeFds BY <1>1, LowestIn
<1> QED BY <1>2, FdsAssumption DEF FreeFds

LEMMA FewToCome == Cardinality(ToCome) \in Nat /\ Cardinality(Conns) \in Nat
<1>1. ToCome \subseteq Conns BY DEF ToCome
<1> QED BY <1>1, SocksAssumption, FS_Subset, FS_CardinalityType

LEMMA EdgesCounted ==
  /\ Edges \in Nat
  /\ (listener' \in BOOLEAN /\ accepting' \in BOOLEAN) => Edges' \in Nat
BY DEF Edges

LEMMA Sums ==
  ASSUME NEW r \in Nat, NEW x \in Nat, NEW n \in Nat, NEW m \in Nat,
         NEW s \in Nat, NEW y \in Nat, NEW k \in Nat,
         r + x + n <= m, s + y + k <= r + x + n
  PROVE  s + y + k <= m /\ s \in 0..m
OBVIOUS

LEMMA Traded ==
  ASSUME NEW s \in Nat, NEW y \in Nat, NEW r \in Nat, NEW x \in Nat,
         s + 1 = r, y <= x + 1
  PROVE  s + y <= r + x
OBVIOUS

LEMMA Added ==
  ASSUME NEW s \in Nat, NEW y \in Nat, NEW r \in Nat, NEW x \in Nat,
         NEW n \in Nat, s + y <= r + x
  PROVE  s + y + n <= r + x + n
OBVIOUS

\* What leaves the retries, the edges and the connections to come as they are.
LEMMA Budget ==
  ASSUME IInv, retries' \in Nat, ToCome' = ToCome, Edges' \in Nat,
         retries' + Edges' <= retries + Edges
  PROVE  Retrying' /\ retries' \in 0..Cardinality(Conns)
<1> DEFINE n == Cardinality(ToCome)
           m == Cardinality(Conns)
<1>1. n \in Nat /\ m \in Nat BY FewToCome
<1>2. retries \in Nat BY <1>1 DEF IInv, TypeOK
<1>3. Edges \in Nat BY EdgesCounted
<1>4. retries + Edges + n <= m BY DEF IInv, Retrying
<1>5. retries' + Edges' + n <= retries + Edges + n
  BY <1>1, <1>2, <1>3, Added
<1>6. retries' + Edges' + n <= m /\ retries' \in 0..m
  BY <1>1, <1>2, <1>3, <1>4, <1>5, Sums
<1> QED BY <1>6 DEF Retrying

-----------------------------------------------------------------------------
(* Registrations come and go. *)

\* What SockFD, closeSock and emitErr do to the poller.
Unregister(s) == IF sockFd[s] = "held" /\ Registered(s)
                 THEN DelEvent(s) ELSE UNCHANGED <<poller, expired>>

LEMMA Unregistered ==
  ASSUME IInv, NEW s \in Socks, Unregister(s)
  PROVE  /\ epoll' = epoll \ {s} /\ ready' \subseteq epoll' /\ expired' \subseteq Fds
         /\ expired \subseteq expired'
         /\ eventMap' \in [Fds -> [of : Socks \cup {None},
                                   on : {"none", "connect", "io"}]]
         /\ \A f \in Fds : /\ eventMap'[f].of # s
                           /\ eventMap[f].of # s => eventMap'[f] = eventMap[f]
                           /\ eventMap[f].of = s => eventMap'[f].of = None /\ f \in expired'
<1>1. CASE sockFd[s] = "held" /\ Registered(s)
  <2>1. DelEvent(s) /\ fd[s] \in Fds BY <1>1 DEF Unregister, IInv, TypeOK, Registered
  <2>2. \A f \in Fds : eventMap[f].of = s <=> f = fd[s]
    BY <1>1, SocksAssumption DEF IInv, MapMatchesEpoll, Registered
  <2> QED BY <2>1, <2>2, SocksAssumption
          DEF DelEvent, NoReg, IInv, TypeOK
<1>2. CASE ~(sockFd[s] = "held" /\ Registered(s))
  <2>1. UNCHANGED <<poller, expired>> BY <1>2 DEF Unregister
  <2>2. \A f \in Fds : eventMap[f].of # s
    <3> SUFFICES ASSUME NEW f \in Fds, eventMap[f].of = s PROVE FALSE
      OBVIOUS
    <3>1. s # None BY SocksAssumption
    <3>2. sockFd[s] = "held" /\ fd[s] = f
      BY <3>1 DEF IInv, Watched, MapMatchesEpoll
    <3>3. f # None BY FdsAssumption
    <3> QED BY <1>2, <3>2, <3>3 DEF Registered
  <2>3. s \notin epoll
    BY <2>2, SocksAssumption DEF IInv, MapMatchesEpoll, Registered, TypeOK
  <2> QED BY <2>1, <2>2, <2>3 DEF IInv, TypeOK
<1> QED BY <1>1, <1>2

\* A socket leaves the poller, and its file may be closed.
LEMMA Leaves ==
  ASSUME IInv, NEW s \in Socks, Unregister(s),
         fd' \in {fd, [fd EXCEPT ![s] = None]},
         NEW x \in {"none", "held", "removed"}, sockFd' = [sockFd EXCEPT ![s] = x],
         \A r \in Clients \cup Conns : r # s => answers'[r] = answers[r],
         batch' = batch
  PROVE  MapMatchesEpoll' /\ Distinct' /\ Watched' /\ Marked'
<1>0. /\ epoll' = epoll \ {s}
      /\ expired \subseteq expired'
      /\ \A f \in Fds : /\ eventMap'[f].of # s
                        /\ eventMap[f].of # s => eventMap'[f] = eventMap[f]
                        /\ eventMap[f].of = s => eventMap'[f].of = None /\ f \in expired'
      /\ eventMap' \in [Fds -> [of : Socks \cup {None},
                                on : {"none", "connect", "io"}]]
  BY Unregistered
<1>1. fd \in [Socks -> Fds \cup {None}] /\ sockFd \in [Socks -> {"none", "held", "removed"}]
      /\ eventMap \in [Fds -> [of : Socks \cup {None},
                               on : {"none", "connect", "io"}]]
      /\ epoll \subseteq Socks
  BY DEF IInv, TypeOK
<1>2. \A r \in Socks : r # s => fd'[r] = fd[r] /\ sockFd'[r] = sockFd[r]
  BY <1>1
<1>3. fd'[s] \in {fd[s], None} BY <1>1
<1>4. MapMatchesEpoll'
  <2>1. ASSUME NEW f \in Fds, eventMap'[f].of # None
        PROVE  fd'[eventMap'[f].of] = f /\ eventMap'[f].of \in epoll'
    <3>1. eventMap[f].of # s
      BY <1>0, <2>1
    <3> QED BY <1>0, <1>1, <1>2, <2>1, <3>1 DEF IInv, MapMatchesEpoll
  <2>2. ASSUME NEW r \in epoll' PROVE Registered(r)'
    <3>1. r \in epoll /\ r # s /\ Registered(r)
      BY <1>0 DEF IInv, MapMatchesEpoll
    <3>2. fd[r] \in Fds /\ eventMap[fd[r]].of = r
      BY <1>1, <3>1 DEF Registered
    <3> QED BY <1>0, <1>1, <1>2, <3>1, <3>2 DEF Registered
  <2> QED BY <2>1, <2>2 DEF MapMatchesEpoll
<1>5. Distinct' BY <1>1, <1>2, <1>3 DEF IInv, Distinct
<1>6. Watched'
  <2> SUFFICES ASSUME NEW f \in Fds, eventMap'[f].of # None
               PROVE  /\ sockFd'[eventMap'[f].of] = "held"
                      /\ eventMap'[f].on # "none"
                      /\ eventMap'[f].on = "connect" =>
                           /\ eventMap'[f].of \in Clients
                           /\ answers'[eventMap'[f].of] = <<>>
    BY DEF Watched
  <2>1. eventMap'[f] = eventMap[f] /\ eventMap[f].of # s
        /\ eventMap[f].of \in Socks
    BY <1>0, <1>1
  <2> QED BY <1>2, <2>1 DEF IInv, Watched
<1>7. Marked'
  <2> SUFFICES ASSUME NEW e \in batch, e.fd \notin expired'
               PROVE  eventMap'[e.fd].of = e.file
    BY DEF Marked
  <2>1. e \in [fd : Fds, file : Socks] BY DEF IInv, TypeOK
  <2>2. e.fd \in Fds /\ e.fd \notin expired BY <1>0, <2>1
  <2>3. eventMap[e.fd].of = e.file BY <2>2 DEF IInv, Marked
  <2> QED BY <1>0, <2>2, <2>3
<1> QED BY <1>4, <1>5, <1>6, <1>7

\* A socket is opened, and registered under its new number.
LEMMA Enters ==
  ASSUME IInv, NEW s \in Socks, FreeFds # {}, fd[s] = None,
         fd' = [fd EXCEPT ![s] = Lowest(FreeFds)],
         NEW on \in {"connect", "io"}, NEW fresh \in BOOLEAN,
         AddEvent(s, fd'[s], on, fresh),
         sockFd' = [sockFd EXCEPT ![s] = "held"],
         UNCHANGED <<answers, batch, expired>>,
         on = "connect" => s \in Clients /\ answers[s] = <<>>
  PROVE  /\ MapMatchesEpoll' /\ Distinct' /\ Watched' /\ Marked'
         /\ fd' \in [Socks -> Fds \cup {None}] /\ epoll' \subseteq Socks
         /\ ready' \subseteq epoll'
         /\ eventMap' \in [Fds -> [of : Socks \cup {None},
                                   on : {"none", "connect", "io"}]]
         /\ sockFd' \in [Socks -> {"none", "held", "removed"}]
<1> DEFINE n == Lowest(FreeFds)
<1>1. n \in Fds /\ n # None /\ \A r \in Socks : fd[r] # n
  BY LowestFree DEF IInv
<1> HIDE DEF n
<1>2. fd \in [Socks -> Fds \cup {None}] /\ epoll \subseteq Socks
      /\ ready \subseteq epoll
      /\ sockFd \in [Socks -> {"none", "held", "removed"}]
      /\ eventMap \in [Fds -> [of : Socks \cup {None},
                               on : {"none", "connect", "io"}]]
  BY DEF IInv, TypeOK
<1>3. fd'[s] = n /\ \A r \in Socks : r # s => fd'[r] = fd[r]
  BY <1>2 DEF n
<1>4. fd' \in [Socks -> Fds \cup {None}] BY <1>1, <1>2 DEF n
<1>5. /\ epoll' = epoll \cup {s}
      /\ eventMap' = [eventMap EXCEPT ![n] = [of |-> s, on |-> on]]
      /\ ready' = IF fresh THEN ready \cup {s} ELSE ready \ {s}
  BY <1>3 DEF AddEvent
<1>6. /\ eventMap'[n].of = s /\ eventMap'[n].on = on
      /\ \A f \in Fds : f # n => eventMap'[f] = eventMap[f]
      /\ \A f \in Fds : eventMap[f].of # s
      /\ eventMap[n].of = None
  <2>1. eventMap'[n] = [of |-> s, on |-> on] BY <1>1, <1>2, <1>5
  <2>2. \A f \in Fds : f # n => eventMap'[f] = eventMap[f] BY <1>2, <1>5
  <2>3. ASSUME NEW f \in Fds PROVE eventMap[f].of # s
    BY <1>1, <1>2, SocksAssumption, FdsAssumption DEF IInv, MapMatchesEpoll
  <2>4. eventMap[n].of = None
    <3> SUFFICES ASSUME eventMap[n].of # None PROVE FALSE OBVIOUS
    <3>1. eventMap[n].of \in Socks BY <1>1, <1>2
    <3>2. fd[eventMap[n].of] = n BY <1>1 DEF IInv, MapMatchesEpoll
    <3> QED BY <1>1, <3>1, <3>2
  <2> QED BY <2>1, <2>2, <2>3, <2>4
<1>7. eventMap' \in [Fds -> [of : Socks \cup {None},
                             on : {"none", "connect", "io"}]]
  BY <1>1, <1>2, <1>5
<1>8. sockFd' \in [Socks -> {"none", "held", "removed"}] /\ sockFd'[s] = "held"
      /\ \A r \in Socks : r # s => sockFd'[r] = sockFd[r]
  BY <1>2
<1>9. MapMatchesEpoll'
  <2>1. ASSUME NEW f \in Fds, eventMap'[f].of # None
        PROVE  fd'[eventMap'[f].of] = f /\ eventMap'[f].of \in epoll'
    <3>1. CASE f = n BY <1>3, <1>5, <1>6, <3>1
    <3>2. CASE f # n
      <4>1. eventMap'[f] = eventMap[f] /\ eventMap[f].of # s
            /\ eventMap[f].of \in Socks
        BY <1>2, <1>6, <2>1, <3>2
      <4>2. fd[eventMap[f].of] = f /\ eventMap[f].of \in epoll
        BY <2>1, <4>1 DEF IInv, MapMatchesEpoll
      <4> QED BY <1>3, <1>5, <4>1, <4>2
    <3> QED BY <3>1, <3>2
  <2>2. ASSUME NEW r \in epoll' PROVE Registered(r)'
    <3>1. CASE r = s BY <1>1, <1>3, <1>6, <3>1 DEF Registered
    <3>2. CASE r # s
      <4>1. r \in epoll /\ Registered(r)
        BY <1>5, <3>2 DEF IInv, MapMatchesEpoll
      <4>2. fd[r] \in Fds /\ fd[r] # n /\ eventMap[fd[r]].of = r
        BY <1>1, <1>2, <4>1 DEF Registered
      <4> QED BY <1>2, <1>3, <1>6, <3>2, <4>1, <4>2, FdsAssumption
              DEF Registered
    <3> QED BY <3>1, <3>2
  <2> QED BY <2>1, <2>2 DEF MapMatchesEpoll
<1>10. Distinct' BY <1>1, <1>3 DEF IInv, Distinct
<1>11. Watched'
  <2> SUFFICES ASSUME NEW f \in Fds, eventMap'[f].of # None
               PROVE  /\ sockFd'[eventMap'[f].of] = "held"
                      /\ eventMap'[f].on # "none"
                      /\ eventMap'[f].on = "connect" =>
                           /\ eventMap'[f].of \in Clients
                           /\ answers'[eventMap'[f].of] = <<>>
    BY DEF Watched
  <2>1. CASE f = n BY <1>6, <1>8, <2>1
  <2>2. CASE f # n
    <3>1. eventMap'[f] = eventMap[f] /\ eventMap[f].of # s
          /\ eventMap[f].of \in Socks
      BY <1>2, <1>6, <2>2
    <3> QED BY <1>8, <3>1 DEF IInv, Watched
  <2> QED BY <2>1, <2>2
<1>12. Marked'
  <2> SUFFICES ASSUME NEW e \in batch, e.fd \notin expired
               PROVE  eventMap'[e.fd].of = e.file
    BY DEF Marked
  <2>1. e \in [fd : Fds, file : Socks] BY DEF IInv, TypeOK
  <2>2. e.fd \in Fds /\ e.file \in Socks BY <2>1
  <2>3. eventMap[e.fd].of = e.file BY DEF IInv, Marked
  <2>4. e.fd # n BY <1>6, <2>2, <2>3, SocksAssumption
  <2> QED BY <1>6, <2>2, <2>3, <2>4
<1> QED BY <1>2, <1>4, <1>5, <1>7, <1>8, <1>9, <1>10, <1>11, <1>12

-----------------------------------------------------------------------------
(* What most steps leave alone. *)

LEMMA SameMap ==
  ASSUME IInv, UNCHANGED <<fd, epoll, eventMap, sockFd, answers>>
  PROVE  MapMatchesEpoll' /\ Distinct' /\ Watched'
BY DEF IInv, MapMatchesEpoll, Distinct, Watched, Registered

LEMMA SameMarks ==
  ASSUME IInv, UNCHANGED <<eventMap, expired>>, batch' \subseteq batch
  PROVE  Marked'
BY DEF IInv, Marked

LEMMA SameUse ==
  ASSUME IInv, UNCHANGED <<peer, backlog, fd, timer, errEmit, answers>>
  PROVE  Untouched' /\ ToCome' = ToCome
BY DEF IInv, Untouched, Unused, Waiting, ToCome

LEMMA SameOnce ==
  ASSUME IInv, UNCHANGED <<answers, timer, errs, errEmit>>,
         \A s \in Socks : data'[s] <= sentData'[s]
  PROVE  Once'
BY DEF IInv, Once

\* Changes to a socket that is in use.
LEMMA Used ==
  ASSUME IInv, UNCHANGED <<peer, backlog>>, NEW s \in Socks, ~Unused(s),
         \A r \in Clients \cup Conns : r # s =>
           /\ fd'[r] = fd[r] /\ timer'[r] = timer[r]
           /\ errEmit'[r] = errEmit[r] /\ answers'[r] = answers[r]
  PROVE  Untouched' /\ ToCome' = ToCome
<1>1. Waiting' = Waiting /\ ToCome' = ToCome BY DEF Waiting, ToCome
<1> QED BY <1>1 DEF IInv, Untouched, Unused

LEMMA InUse ==
  ASSUME IInv, NEW s \in Socks,
         fd[s] # None \/ timer[s] \/ errEmit[s] \/ answers[s] # <<>>
  PROVE  ~Unused(s)
BY DEF IInv, Untouched

LEMMA SameRetries ==
  ASSUME IInv, UNCHANGED <<retries, listener, accepting>>, ToCome' = ToCome,
         loop' = "accept" <=> loop = "accept"
  PROVE  Retrying'
<1>1. retries \in Nat /\ listener \in BOOLEAN /\ accepting \in BOOLEAN
  BY FewToCome DEF IInv, TypeOK
<1>2. Edges' = Edges BY DEF Edges
<1>3. Edges \in Nat BY EdgesCounted
<1>4. retries' + Edges' <= retries + Edges BY <1>1, <1>2, <1>3
<1> QED BY <1>1, <1>2, <1>3, <1>4, Budget

-----------------------------------------------------------------------------
(* The network *)

LEMMA EstablishStep ==
  ASSUME IInv, NEW s \in Socks, Establish(s) PROVE IInv'
<1> USE DEF Establish, Edge
<1>1. TypeOK'
  <2>1. peer' \in [Socks -> {"idle", "syn", "up", "refused"}]
    BY DEF IInv, TypeOK
  <2>2. ready' \subseteq epoll' BY DEF IInv, TypeOK
  <2> HIDE DEF Edge
  <2> QED BY <2>1, <2>2 DEF IInv, TypeOK
<1>2. MapMatchesEpoll' /\ Distinct' /\ Watched' BY SameMap
<1>3. Marked' BY SameMarks
<1>4. peer \in [Socks -> {"idle", "syn", "up", "refused"}]
  BY DEF IInv, TypeOK
<1>5. /\ \A r \in Socks : (peer'[r] = "idle" <=> peer[r] = "idle")
      /\ \A r \in Socks : r # s => peer'[r] = peer[r]
  BY <1>4
<1>6. ToCome' = ToCome BY <1>5 DEF ToCome
<1>7. Waiting \subseteq Socks
  BY DEF IInv, TypeOK, Waiting
<1>8. Untouched'
  <2>1. Waiting' = Waiting BY DEF Waiting
  <2> QED BY <1>5, <1>7, <2>1 DEF IInv, Untouched, Unused
<1>9. Once' BY SameOnce DEF IInv, Once
<1>10. Kept' /\ InCallback' BY DEF IInv, Kept, Alive, InCallback
<1>11. Retrying' BY <1>6, SameRetries
<1> QED BY <1>1, <1>2, <1>3, <1>8, <1>9, <1>10, <1>11 DEF IInv

\* A queue of connections with one more, and without its first.
LEMMA Queued ==
  ASSUME IInv, NEW s \in Conns, backlog' = Append(backlog, s)
  PROVE  /\ Waiting' = Waiting \cup {s} /\ backlog' \in Seq(Conns)
         /\ s \notin Waiting =>
              \A i, j \in DOMAIN backlog' : backlog'[i] = backlog'[j] => i = j
<1> DEFINE q == backlog
           r == Append(q, s)
<1>1. q \in Seq(Conns) /\ Len(q) \in Nat /\ DOMAIN q = 1..Len(q)
  BY DEF IInv, TypeOK
<1>2. /\ r \in Seq(Conns) /\ DOMAIN r = 1..(Len(q) + 1)
      /\ \A i \in 1..Len(q) : r[i] = q[i]
      /\ r[Len(q) + 1] = s
  BY <1>1
<1>3. {r[i] : i \in DOMAIN r} = {q[i] : i \in DOMAIN q} \cup {s}
  <2>1. \A i \in DOMAIN r : i \in DOMAIN q \/ i = Len(q) + 1 BY <1>1, <1>2
  <2>2. \A i \in DOMAIN q : i \in DOMAIN r BY <1>1, <1>2
  <2>3. Len(q) + 1 \in DOMAIN r BY <1>1, <1>2
  <2> HIDE DEF r
  <2> QED BY <1>1, <1>2, <2>1, <2>2, <2>3
<1>4. ASSUME s \notin {q[i] : i \in DOMAIN q},
             NEW i \in DOMAIN r, NEW j \in DOMAIN r, r[i] = r[j]
      PROVE  i = j
  <2>1. (i \in DOMAIN q \/ i = Len(q) + 1) /\ (j \in DOMAIN q \/ j = Len(q) + 1)
    BY <1>1, <1>2
  <2>2. \A k, l \in DOMAIN q : q[k] = q[l] => k = l BY DEF IInv, Untouched
  <2> HIDE DEF r
  <2> QED BY <1>1, <1>2, <1>4, <2>1, <2>2
<1> QED BY <1>2, <1>3, <1>4 DEF Waiting

LEMMA Unqueued ==
  ASSUME IInv, backlog # <<>>, backlog' = Tail(backlog)
  PROVE  /\ Waiting' \subseteq Waiting /\ backlog' \in Seq(Conns)
         /\ Head(backlog) \in Conns /\ Head(backlog) \in Waiting
         /\ Head(backlog) \notin Waiting'
         /\ \A i, j \in DOMAIN backlog' : backlog'[i] = backlog'[j] => i = j
<1> DEFINE q == backlog
           r == Tail(q)
<1>1. q \in Seq(Conns) /\ Len(q) \in Nat /\ DOMAIN q = 1..Len(q) /\ Len(q) > 0
  <2>1. q \in Seq(Conns) /\ q # <<>> BY DEF IInv, TypeOK
  <2> HIDE DEF q
  <2> QED BY <2>1
<1>2. /\ r \in Seq(Conns) /\ DOMAIN r = 1..(Len(q) - 1)
      /\ \A i \in 1..(Len(q) - 1) : r[i] = q[i + 1]
      /\ Head(q) = q[1] /\ 1 \in DOMAIN q
  BY <1>1
<1>3. \A k, l \in DOMAIN q : q[k] = q[l] => k = l BY DEF IInv, Untouched
<1>4. \A i \in DOMAIN r : i \in Nat /\ i + 1 \in DOMAIN q /\ i + 1 # 1
  BY <1>1, <1>2
<1> HIDE DEF r
<1>5. \A i \in DOMAIN r : r[i] \in {q[k] : k \in DOMAIN q} /\ r[i] # Head(q)
  BY <1>2, <1>3, <1>4
<1>6. \A i, j \in DOMAIN r : r[i] = r[j] => i = j
  <2> SUFFICES ASSUME NEW i \in DOMAIN r, NEW j \in DOMAIN r, r[i] = r[j]
               PROVE  i = j
    OBVIOUS
  <2>1. r[i] = q[i + 1] /\ r[j] = q[j + 1] BY <1>2
  <2>2. i + 1 = j + 1 BY <1>3, <1>4, <2>1
  <2> QED BY <1>4, <2>2
<1>7. Head(q) \in Conns BY <1>1, <1>2
<1> QED BY <1>2, <1>5, <1>6, <1>7 DEF r, Waiting

LEMMA ComeStep ==
  ASSUME IInv, NEW s \in Socks, Come(s) PROVE IInv'
<1> USE DEF Come
<1>1. s \in Conns /\ s \notin Waiting BY DEF IInv, Untouched
<1>2. backlog' \in Seq(Conns) /\ Waiting' = Waiting \cup {s}
      /\ \A i, j \in DOMAIN backlog' : backlog'[i] = backlog'[j] => i = j
  BY <1>1, Queued
<1>3. TypeOK' BY <1>2 DEF IInv, TypeOK
<1>4. MapMatchesEpoll' /\ Distinct' /\ Watched' BY SameMap
<1>5. Marked' BY SameMarks
<1>6. peer \in [Socks -> {"idle", "syn", "up", "refused"}]
  BY DEF IInv, TypeOK
<1>7. peer'[s] = "up" /\ \A r \in Socks : r # s => peer'[r] = peer[r]
  BY <1>6
<1>8. Untouched'
  <2>1. \A r \in Socks : Unused(r)' => Unused(r)
    BY <1>2, <1>7 DEF Unused
  <2>2. \A r \in Waiting' : r \in Socks /\ peer'[r] # "idle"
    <3>1. Waiting \subseteq Socks BY DEF IInv, TypeOK, Waiting
    <3> QED BY <1>2, <1>7, <3>1 DEF IInv, Untouched
  <2> QED BY <1>2, <2>1, <2>2 DEF IInv, Untouched
<1>9. Once' BY SameOnce DEF IInv, Once
<1>10. Kept' /\ InCallback' BY DEF IInv, Kept, Alive, InCallback
<1>11. Retrying'
  <2>1. s \in ToCome /\ ToCome' = ToCome \ {s}
    BY <1>1, <1>7 DEF ToCome
  <2>2. IsFiniteSet(ToCome) BY SocksAssumption, FS_Subset DEF ToCome
  <2>3. Cardinality(ToCome') = Cardinality(ToCome) - 1
    BY <2>1, <2>2, FS_RemoveElement
  <2>4. /\ Edges \in Nat /\ Edges' \in Nat /\ Edges' <= Edges + 1
    <3>1. listener \in BOOLEAN /\ accepting \in BOOLEAN BY DEF IInv, TypeOK
    <3> QED BY <3>1 DEF Edges
  <2>5. /\ retries \in Nat /\ Cardinality(ToCome) \in Nat
        /\ Cardinality(Conns) \in Nat
    BY FewToCome DEF IInv, TypeOK
  <2>6. retries + Edges + Cardinality(ToCome) <= Cardinality(Conns)
    BY DEF IInv, Retrying
  <2>7. retries + Edges' + Cardinality(ToCome') <= Cardinality(Conns)
    BY <2>3, <2>4, <2>5, <2>6
  <2> QED BY <2>7 DEF Retrying
<1> QED BY <1>3, <1>4, <1>5, <1>8, <1>9, <1>10, <1>11 DEF IInv

LEMMA PeerStep ==
  ASSUME IInv, NEW s \in Socks, DataComes(s) \/ PeerEnds(s) PROVE IInv'
<1>1. /\ UNCHANGED <<peer, backlog, fd, listener, epoll, eventMap, reported,
                     posted, retries, sockets, holders, loop, run, history>>
  BY DEF DataComes, PeerEnds
<1>2. TypeOK' /\ \A r \in Socks : data'[r] <= sentData'[r]
  <2>1. CASE DataComes(s)
    <3>1. /\ data \in [Socks -> 0..MaxData] /\ sentData \in [Socks -> 0..MaxData]
          /\ sentData[s] < MaxData /\ data[s] <= sentData[s]
      BY <2>1 DEF IInv, TypeOK, Once, DataComes
    <3>2. data[s] + 1 \in 0..MaxData /\ sentData[s] + 1 \in 0..MaxData
      BY <3>1, BoundsAssumption
    <3>3. /\ data' \in [Socks -> 0..MaxData]
          /\ sentData' \in [Socks -> 0..MaxData]
      BY <2>1, <3>1, <3>2 DEF DataComes
    <3>4. \A r \in Socks : data'[r] <= sentData'[r]
      BY <2>1, <3>1, BoundsAssumption DEF IInv, Once, DataComes
    <3>5. ready' \subseteq epoll' BY <2>1 DEF IInv, TypeOK, DataComes, Edge
    <3> QED BY <2>1, <3>3, <3>4, <3>5 DEF IInv, TypeOK, DataComes
  <2>2. CASE PeerEnds(s)
    <3>1. \A r \in Socks : data'[r] <= sentData'[r]
      BY <2>2 DEF IInv, Once, PeerEnds
    <3>2. eof' \in [Socks -> Ends] /\ ready' \subseteq epoll'
      BY <2>2 DEF IInv, TypeOK, PeerEnds, Edge, Ends
    <3> QED BY <2>2, <3>1, <3>2 DEF IInv, TypeOK, PeerEnds
  <2> QED BY <2>1, <2>2
<1>3. MapMatchesEpoll' /\ Distinct' /\ Watched' BY <1>1, SameMap
<1>4. Marked' BY <1>1, SameMarks
<1>5. Untouched' /\ ToCome' = ToCome BY <1>1, SameUse
<1>6. Once' BY <1>1, <1>2, SameOnce
<1>7. Kept' /\ InCallback' BY <1>1 DEF IInv, Kept, Alive, InCallback
<1>8. Retrying' BY <1>1, <1>5, SameRetries
<1> QED BY <1>2, <1>3, <1>4, <1>5, <1>6, <1>7, <1>8 DEF IInv

-----------------------------------------------------------------------------
(* Connecting *)

\* A client that has not connected yet.
LEMMA IdleClient ==
  ASSUME IInv, NEW s \in Clients, peer[s] = "idle"
  PROVE  /\ fd[s] = None /\ ~timer[s] /\ ~errEmit[s] /\ answers[s] = <<>>
         /\ \A f \in Fds : eventMap[f].of # s
<1>1. fd[s] = None /\ ~timer[s] /\ ~errEmit[s] /\ answers[s] = <<>>
  BY DEF IInv, Untouched, Unused
<1>2. ASSUME NEW f \in Fds, eventMap[f].of = s PROVE FALSE
  BY <1>1, <1>2, SocksAssumption, FdsAssumption DEF IInv, MapMatchesEpoll
<1> QED BY <1>1, <1>2

\* A client that connects is in use, and those still to come are the same.
LEMMA ClientLeavesIdle ==
  ASSUME IInv, NEW s \in Clients, NEW x \in {"syn", "refused"},
         peer' = [peer EXCEPT ![s] = x], UNCHANGED <<backlog, errEmit>>,
         \A r \in Clients \cup Conns : r # s =>
           /\ fd'[r] = fd[r] /\ timer'[r] = timer[r] /\ answers'[r] = answers[r]
  PROVE  Untouched' /\ ToCome' = ToCome
<1>1. peer \in [Socks -> {"idle", "syn", "up", "refused"}]
  BY DEF IInv, TypeOK
<1>2. peer'[s] = x /\ \A r \in Socks : r # s => peer'[r] = peer[r]
  BY <1>1
<1>3. Waiting' = Waiting /\ Waiting \subseteq Conns
  BY DEF IInv, TypeOK, Waiting
<1>4. ~Unused(s)' /\ \A r \in Socks : r # s => (Unused(r)' <=> Unused(r))
  BY <1>2, <1>3, SocksAssumption DEF Unused
<1>5. ToCome' = ToCome BY <1>2, SocksAssumption DEF ToCome
<1> QED BY <1>2, <1>3, <1>4, <1>5, SocksAssumption DEF IInv, Untouched

\* con_cb was not called before.
LEMMA Answered ==
  ASSUME IInv, NEW s \in Socks, answers[s] = <<>>, NEW ok \in BOOLEAN,
         Answer(s, ok), UNCHANGED <<data, sentData, errEmit, errs>>
  PROVE  /\ Once' /\ answers' \in [Socks -> Seq(BOOLEAN)]
         /\ timer' \in [Socks -> BOOLEAN]
<1>1. answers \in [Socks -> Seq(BOOLEAN)] /\ timer \in [Socks -> BOOLEAN]
  BY DEF IInv, TypeOK
<1>2. Append(<<>>, ok) = <<ok>> /\ <<ok>> \in Seq(BOOLEAN) /\ Len(<<ok>>) = 1
  OBVIOUS
<1>3. /\ answers' = [answers EXCEPT ![s] = <<ok>>]
      /\ timer' = [timer EXCEPT ![s] = FALSE]
  BY <1>2 DEF Answer
<1>4. answers'[s] = <<ok>> /\ ~timer'[s] BY <1>1, <1>3
<1>5. \A r \in Socks : r # s => answers'[r] = answers[r] /\ timer'[r] = timer[r]
  BY <1>1, <1>3
<1>6. Once'
  <2> SUFFICES ASSUME NEW r \in Socks
               PROVE  /\ Len(answers'[r]) <= 1
                      /\ answers'[r] # <<>> => ~timer'[r]
                      /\ errs[r] <= 1 /\ (errs[r] = 1 => errEmit[r])
                      /\ data[r] <= sentData[r]
    BY DEF Once
  <2>1. CASE r = s
    <3>1. Len(answers'[r]) = 1 /\ ~timer'[r] BY <1>2, <1>4, <2>1
    <3>2. /\ errs[r] <= 1 /\ (errs[r] = 1 => errEmit[r])
          /\ data[r] <= sentData[r]
      BY DEF IInv, Once
    <3>3. Len(answers'[r]) <= 1 BY <3>1
    <3> QED BY <3>1, <3>2, <3>3
  <2>2. CASE r # s BY <1>5, <2>2 DEF IInv, Once
  <2> QED BY <2>1, <2>2
<1> QED BY <1>1, <1>2, <1>3, <1>6

LEMMA ConnectFailsStep ==
  ASSUME IInv, NEW s \in Clients, ConnectFails(s) PROVE IInv'
<1> USE DEF ConnectFails
<1>1. /\ fd[s] = None /\ answers[s] = <<>>
      /\ \A f \in Fds : eventMap[f].of # s
  BY IdleClient
<1>2. /\ Once' /\ answers' \in [Socks -> Seq(BOOLEAN)]
      /\ timer' \in [Socks -> BOOLEAN]
  BY <1>1, Answered
<1>3. TypeOK'
  <2>1. peer' \in [Socks -> {"idle", "syn", "up", "refused"}]
    BY DEF IInv, TypeOK
  <2> QED BY <1>2, <2>1 DEF IInv, TypeOK
<1>4. \A r \in Socks : r # s =>
        fd'[r] = fd[r] /\ timer'[r] = timer[r] /\ answers'[r] = answers[r]
  BY DEF Answer, IInv, TypeOK
<1>5. Untouched' /\ ToCome' = ToCome BY <1>4, ClientLeavesIdle
<1>6. MapMatchesEpoll' /\ Distinct' /\ Kept'
  BY DEF IInv, MapMatchesEpoll, Distinct, Registered, Kept, Alive
<1>7. Watched'
  <2> SUFFICES ASSUME NEW f \in Fds, eventMap[f].of # None
               PROVE  answers'[eventMap[f].of] = answers[eventMap[f].of]
    BY DEF IInv, Watched
  <2>1. eventMap[f].of \in Socks BY DEF IInv, TypeOK
  <2> QED BY <1>1, <1>4, <2>1
<1>8. Marked' BY SameMarks
<1>9. InCallback' BY DEF IInv, InCallback
<1>10. Retrying' BY <1>5, SameRetries
<1> QED BY <1>2, <1>3, <1>5, <1>6, <1>7, <1>8, <1>9, <1>10 DEF IInv

LEMMA ConnectStep ==
  ASSUME IInv, NEW s \in Clients, Connect(s) PROVE IInv'
<1> USE DEF Connect
<1>1. fd[s] = None /\ answers[s] = <<>> BY IdleClient
<1>2. /\ MapMatchesEpoll' /\ Distinct' /\ Watched' /\ Marked'
      /\ fd' \in [Socks -> Fds \cup {None}] /\ epoll' \subseteq Socks
      /\ ready' \subseteq epoll'
      /\ eventMap' \in [Fds -> [of : Socks \cup {None},
                                on : {"none", "connect", "io"}]]
      /\ sockFd' \in [Socks -> {"none", "held", "removed"}]
  BY <1>1, Enters
<1>3. TypeOK'
  <2>1. /\ peer' \in [Socks -> {"idle", "syn", "up", "refused"}]
        /\ timer' \in [Socks -> BOOLEAN]
    BY DEF IInv, TypeOK
  <2> QED BY <1>2, <2>1 DEF IInv, TypeOK
<1>4. \A r \in Socks : r # s =>
        fd'[r] = fd[r] /\ timer'[r] = timer[r] /\ answers'[r] = answers[r]
  BY DEF IInv, TypeOK
<1>5. Untouched' /\ ToCome' = ToCome BY <1>4, ClientLeavesIdle
<1>6. Kept' BY <1>4 DEF IInv, Kept, Alive
<1>7. Once' BY <1>1, <1>4 DEF IInv, Once
<1>8. InCallback' BY DEF IInv, InCallback
<1>9. Retrying' BY <1>5, SameRetries
<1> QED BY <1>2, <1>3, <1>5, <1>6, <1>7, <1>8, <1>9 DEF IInv

\* A socket that leaves the poller is closed.
LEMMA Closed ==
  ASSUME IInv, NEW s \in Socks, DropSockFD(s), CloseFile(s)
  PROVE  /\ Unregister(s) /\ sockFd' = [sockFd EXCEPT ![s] = "none"]
         /\ fd' = [fd EXCEPT ![s] = None]
         /\ fd' \in [Socks -> Fds \cup {None}]
         /\ sockFd' \in [Socks -> {"none", "held", "removed"}]
<1>1. Unregister(s) /\ sockFd' = [sockFd EXCEPT ![s] = "none"]
  BY DEF DropSockFD, Unregister
<1>2. \A f \in Fds : eventMap'[f].of # s BY <1>1, Unregistered
<1>3. fd' = [fd EXCEPT ![s] = None] BY <1>2 DEF CloseFile
<1> QED BY <1>1, <1>3 DEF IInv, TypeOK

LEMMA TimeoutStep ==
  ASSUME IInv, NEW s \in Clients, ConnectTimeout(s) PROVE IInv'
<1> USE DEF ConnectTimeout
<1>1. /\ Unregister(s) /\ sockFd' = [sockFd EXCEPT ![s] = "none"]
      /\ fd' = [fd EXCEPT ![s] = None]
      /\ fd' \in [Socks -> Fds \cup {None}]
      /\ sockFd' \in [Socks -> {"none", "held", "removed"}]
  BY Closed
<1>2. answers[s] = <<>> BY DEF IInv, Once
<1>3. /\ Once' /\ answers' \in [Socks -> Seq(BOOLEAN)]
      /\ timer' \in [Socks -> BOOLEAN]
  BY <1>2, Answered
<1>4. \A r \in Socks : r # s =>
        fd'[r] = fd[r] /\ timer'[r] = timer[r] /\ answers'[r] = answers[r]
  BY <1>1 DEF Answer, IInv, TypeOK
<1>5. MapMatchesEpoll' /\ Distinct' /\ Watched' /\ Marked'
  BY <1>1, <1>4, Leaves
<1>6. TypeOK' BY <1>1, <1>3, Unregistered DEF IInv, TypeOK
<1>7. ~Unused(s) BY InUse
<1>8. Untouched' /\ ToCome' = ToCome BY <1>4, <1>7, Used
<1>9. fd'[s] = None BY <1>1 DEF IInv, TypeOK
<1>10. Kept' BY <1>4, <1>9 DEF IInv, Kept, Alive
<1>11. InCallback' BY DEF IInv, InCallback
<1>12. Retrying' BY <1>8, SameRetries
<1> QED BY <1>3, <1>5, <1>6, <1>8, <1>10, <1>11, <1>12 DEF IInv

-----------------------------------------------------------------------------
(* EventLoop::runLoop *)

\* Steps of the loop that only take an event from the array, or none, and of
\* the other threads.
LEMMA Quiet ==
  ASSUME IInv,
         UNCHANGED <<peer, sentData, backlog, fd, epoll, eventMap, sockFd,
                     errEmit, timer, answers, errs, expired>>,
         \A s \in Socks : data'[s] <= sentData[s],
         batch' \subseteq batch
  PROVE  /\ MapMatchesEpoll' /\ Distinct' /\ Watched' /\ Untouched' /\ Marked'
         /\ Once' /\ ToCome' = ToCome
BY SameMap, SameMarks, SameUse, SameOnce

LEMMA WaitStep ==
  ASSUME IInv, EpollWait PROVE IInv'
<1> USE DEF EpollWait
<1>1. MapMatchesEpoll' /\ Distinct' /\ Watched' BY SameMap
<1>2. Untouched' /\ ToCome' = ToCome BY SameUse
<1>3. Once' BY SameOnce DEF IInv, Once
<1>4. \A s \in ready : /\ s \in Socks /\ fd[s] \in Fds
                       /\ eventMap[fd[s]].of = s
  BY DEF IInv, TypeOK, MapMatchesEpoll, Registered
<1>5. Marked'
  <2> SUFFICES ASSUME NEW e \in batch' PROVE eventMap[e.fd].of = e.file
    BY DEF Marked
  <2>1. PICK s \in ready : e = [fd |-> fd[s], file |-> s] OBVIOUS
  <2>2. e.fd = fd[s] /\ e.file = s BY <2>1
  <2> QED BY <1>4, <2>2
<1>6. TypeOK'
  <2>1. batch' \subseteq [fd : Fds, file : Socks] BY <1>4
  <2> QED BY <2>1 DEF IInv, TypeOK
<1>7. Kept' /\ InCallback' BY DEF IInv, Kept, Alive, InCallback
<1>8. Retrying'
  <2>1. /\ retries \in Nat /\ listener \in BOOLEAN /\ accepting \in BOOLEAN
        /\ Edges \in Nat /\ Edges' \in Nat
    BY FewToCome DEF IInv, TypeOK, Edges
  <2>2. Edges' <= Edges BY <2>1 DEF Edges
  <2>3. retries' + Edges' <= retries + Edges BY <2>1, <2>2
  <2> QED BY <1>2, <2>1, <2>3, Budget
<1> QED BY <1>1, <1>2, <1>3, <1>5, <1>6, <1>7, <1>8 DEF IInv

LEMMA EventsStep ==
  ASSUME IInv, BatchDone \/ \E e \in batch : Skip(e) PROVE IInv'
<1>1. /\ UNCHANGED <<kernel, fd, listener, poller, accepting, expired, posted,
                     retries, sockets, holders, run, history>>
      /\ batch' \subseteq batch
      /\ loop' \in {"poll", "events"} /\ loop = "events"
  BY DEF BatchDone, Skip
<1>2. /\ MapMatchesEpoll' /\ Distinct' /\ Watched' /\ Untouched' /\ Marked'
      /\ Once' /\ ToCome' = ToCome
  BY <1>1, Quiet DEF IInv, Once
<1>3. TypeOK' BY <1>1 DEF IInv, TypeOK
<1>4. Kept' /\ InCallback' BY <1>1 DEF IInv, Kept, Alive, InCallback
<1>5. Retrying' BY <1>1, <1>2, SameRetries
<1> QED BY <1>2, <1>3, <1>4, <1>5 DEF IInv

LEMMA DispatchStep ==
  ASSUME IInv, NEW e \in batch, Dispatch(e) PROVE IInv'
<1> USE DEF Dispatch
<1>1. /\ MapMatchesEpoll' /\ Distinct' /\ Watched' /\ Untouched' /\ Marked'
      /\ Once' /\ ToCome' = ToCome
  BY Quiet DEF IInv, Once
<1> DEFINE s == eventMap[e.fd].of
<1>2. e.fd \in Fds /\ e.file \in Socks
  <2>1. e \in [fd : Fds, file : Socks] BY DEF IInv, TypeOK
  <2> QED BY <2>1
<1>3. s = e.file /\ s # None BY <1>2 DEF Deliverable, IInv, Marked
<1>4. /\ eventMap[e.fd].on \in {"none", "connect", "io"}
      /\ s \in Socks /\ fd[s] = e.fd /\ s \in epoll /\ sockFd[s] = "held"
      /\ eventMap[e.fd].on = "connect" => s \in Clients /\ answers[s] = <<>>
  BY <1>2, <1>3 DEF IInv, TypeOK, MapMatchesEpoll, Watched
<1>5. fd[s] # None BY <1>2, <1>4, FdsAssumption
<1>6. run'.of = s /\ run'.file = e.file
      /\ run' \in [of : Socks \cup {None}, file : Socks \cup {None}]
  BY <1>2, <1>4
<1>7. loop' = eventMap[e.fd].on OBVIOUS
<1>8. loop' \in {"connect", "io"}
  BY <1>2, <1>3, <1>4, <1>7 DEF IInv, Watched
<1>9. TypeOK'
  <2> HIDE DEF s
  <2> QED BY <1>6, <1>8 DEF IInv, TypeOK
<1>10. InCallback'
  <2> HIDE DEF s
  <2> QED BY <1>3, <1>4, <1>5, <1>6, <1>7, <1>8 DEF InCallback
<1>11. Kept'
  <2>1. run = Nobody BY DEF IInv, InCallback
  <2>2. \A r \in Socks : run.of # r BY <2>1, SocksAssumption DEF Nobody
  <2> QED BY <2>2 DEF IInv, Kept, Alive
<1>12. Retrying'
  <2> HIDE DEF s
  <2> QED BY <1>1, <1>8, SameRetries
<1> QED BY <1>1, <1>9, <1>10, <1>11, <1>12 DEF IInv

LEMMA DeleteStep ==
  ASSUME IInv, NEW s \in Socks, RunDelete(s) PROVE IInv'
<1> USE DEF RunDelete
<1>1. /\ Unregister(s) /\ sockFd' = [sockFd EXCEPT ![s] = "none"]
      /\ fd' = [fd EXCEPT ![s] = None]
      /\ fd' \in [Socks -> Fds \cup {None}]
      /\ sockFd' \in [Socks -> {"none", "held", "removed"}]
  BY Closed
<1>2. /\ fd'[s] = None /\ timer' \in [Socks -> BOOLEAN] /\ ~timer'[s]
      /\ \A r \in Socks : r # s => fd'[r] = fd[r] /\ timer'[r] = timer[r]
  BY <1>1 DEF IInv, TypeOK
<1>3. MapMatchesEpoll' /\ Distinct' /\ Watched' /\ Marked'
  BY <1>1, Leaves
<1>4. TypeOK'
  <2>1. /\ epoll' \subseteq Socks /\ ready' \subseteq epoll' /\ expired' \subseteq Fds
        /\ eventMap' \in [Fds -> [of : Socks \cup {None},
                                  on : {"none", "connect", "io"}]]
    BY <1>1, Unregistered DEF IInv, TypeOK
  <2>2. posted' \subseteq Socks BY DEF IInv, TypeOK
  <2> QED BY <1>1, <1>2, <2>1, <2>2 DEF IInv, TypeOK
<1>5. Untouched' /\ ToCome' = ToCome
  <2>1. ToCome' = ToCome /\ Waiting' = Waiting BY DEF ToCome, Waiting
  <2> QED BY <1>2, <2>1 DEF IInv, Untouched, Unused
<1>6. Once' BY <1>2 DEF IInv, Once
<1>7. Kept' BY <1>2 DEF IInv, Kept, Alive
<1>8. InCallback' BY DEF IInv, InCallback
<1>9. Retrying' BY <1>5, SameRetries
<1> QED BY <1>3, <1>4, <1>5, <1>6, <1>7, <1>8, <1>9 DEF IInv

LEMMA ReturnStep ==
  ASSUME IInv, NEW s \in Socks, Return(s) PROVE IInv'
<1> USE DEF Return
<1> DEFINE ends == ~owned[s] /\ mainHolds # s
<1>0. /\ run.of = s /\ fd[s] # None /\ run' = Nobody
      /\ timer \in [Socks -> BOOLEAN] /\ fd \in [Socks -> Fds \cup {None}]
      /\ sockFd \in [Socks -> {"none", "held", "removed"}]
  BY DEF IInv, InCallback, TypeOK
<1>1. /\ timer' \in [Socks -> BOOLEAN] /\ (timer'[s] => timer[s])
      /\ \A r \in Socks : r # s => timer'[r] = timer[r]
  BY <1>0
<1>2. /\ MapMatchesEpoll' /\ Distinct' /\ Watched' /\ Marked'
      /\ fd' \in {fd, [fd EXCEPT ![s] = None]}
      /\ (ends => fd'[s] = None)
      /\ sockFd' \in [Socks -> {"none", "held", "removed"}]
      /\ epoll' \subseteq Socks /\ ready' \subseteq epoll' /\ expired' \subseteq Fds
      /\ eventMap' \in [Fds -> [of : Socks \cup {None},
                                on : {"none", "connect", "io"}]]
  <2>1. CASE ends
    <3>1. DropSockFD(s) BY <2>1
    <3>2. sockFd' = [sockFd EXCEPT ![s] = "none"] BY <3>1 DEF DropSockFD
    <3>3. CloseFile(s) BY <1>0, <3>2
    <3>4. /\ Unregister(s) /\ fd' = [fd EXCEPT ![s] = None]
          /\ sockFd' \in [Socks -> {"none", "held", "removed"}]
      BY <3>1, <3>3, Closed
    <3>5. MapMatchesEpoll' /\ Distinct' /\ Watched' /\ Marked'
      BY <3>2, <3>4, Leaves
    <3> QED BY <1>0, <3>4, <3>5, Unregistered DEF IInv, TypeOK
  <2>2. CASE ~ends
    <3>1. UNCHANGED <<sockFd, poller, expired>> BY <2>2
    <3>2. CASE sockFd[s] = "none"
      <4>1. Unregister(s) BY <3>1, <3>2 DEF Unregister
      <4>2. CloseFile(s) BY <3>1, <3>2
      <4>3. \A f \in Fds : eventMap'[f].of # s BY <4>1, Unregistered
      <4>4. fd' = [fd EXCEPT ![s] = None] BY <4>2, <4>3 DEF CloseFile
      <4>5. sockFd' = [sockFd EXCEPT ![s] = "none"] BY <1>0, <3>1, <3>2
      <4>6. MapMatchesEpoll' /\ Distinct' /\ Watched' /\ Marked'
        BY <4>1, <4>4, <4>5, Leaves
      <4> QED BY <2>2, <3>1, <4>4, <4>6 DEF IInv, TypeOK
    <3>3. CASE sockFd[s] # "none"
      <4>1. UNCHANGED fd BY <3>1, <3>3
      <4>2. MapMatchesEpoll' /\ Distinct' /\ Watched' BY <3>1, <4>1, SameMap
      <4>3. Marked' BY <3>1, SameMarks
      <4> QED BY <2>2, <3>1, <4>1, <4>2, <4>3 DEF IInv, TypeOK
    <3> QED BY <3>2, <3>3
  <2> QED BY <2>1, <2>2
<1>3. /\ fd' \in [Socks -> Fds \cup {None}]
      /\ \A r \in Socks : r # s => fd'[r] = fd[r]
  BY <1>0, <1>2
<1>4. TypeOK'
  <2>1. run' \in [of : Socks \cup {None}, file : Socks \cup {None}]
    BY <1>0 DEF Nobody
  <2> HIDE DEF ends
  <2> QED BY <1>1, <1>2, <1>3, <2>1 DEF IInv, TypeOK
<1>5. ~Unused(s) BY <1>0, InUse
<1>6. Untouched' /\ ToCome' = ToCome BY <1>1, <1>3, <1>5, Used
<1>7. Once' BY <1>1 DEF IInv, Once
<1>8. Kept'
  <2> SUFFICES ASSUME NEW r \in Socks, fd'[r] # None
               PROVE  Alive(r)' \/ r \in posted
    BY DEF Kept
  <2>1. CASE r = s BY <1>2, <2>1 DEF Alive
  <2>2. CASE r # s
    <3>1. Alive(r) \/ r \in posted BY <1>3, <2>2 DEF IInv, Kept
    <3> QED BY <1>0, <2>2, <3>1 DEF Alive
  <2> QED BY <2>1, <2>2
<1>9. InCallback' BY <1>0 DEF InCallback, Nobody
<1>10. Retrying' BY <1>6, SameRetries
<1> QED BY <1>2, <1>4, <1>6, <1>7, <1>8, <1>9, <1>10 DEF IInv

-----------------------------------------------------------------------------
(* The callbacks of a socket *)

LEMMA ConnectedStep ==
  ASSUME IInv, NEW s \in Socks, Connected(s) PROVE IInv'
<1> USE DEF Connected
<1>1. /\ s \in Clients /\ fd[s] \in Fds /\ fd[s] # None /\ sockFd[s] = "held"
      /\ answers[s] = <<>> /\ run.of = s
  BY DEF IInv, InCallback, TypeOK
<1> DEFINE n == fd[s]
           fresh == data[s] > 0 \/ eof[s] # "open"
<1>2. /\ epoll' = epoll \cup {s}
      /\ eventMap' = [eventMap EXCEPT ![n] = [of |-> s, on |-> "io"]]
      /\ ready' \subseteq epoll'
  BY DEF AddEvent, IInv, TypeOK
<1>3. eventMap \in [Fds -> [of : Socks \cup {None},
                            on : {"none", "connect", "io"}]]
  BY DEF IInv, TypeOK
<1>4. /\ eventMap'[n].of = s /\ eventMap'[n].on = "io"
      /\ \A f \in Fds : f # n => eventMap'[f] = eventMap[f] /\ eventMap[f].of # s
  <2>1. eventMap'[n] = [of |-> s, on |-> "io"] BY <1>1, <1>2, <1>3
  <2>2. \A f \in Fds : f # n => eventMap'[f] = eventMap[f] BY <1>2, <1>3
  <2>3. \A f \in Fds : f # n => eventMap[f].of # s
    BY SocksAssumption DEF IInv, MapMatchesEpoll
  <2> QED BY <2>1, <2>2, <2>3
<1>5. /\ Once' /\ answers' \in [Socks -> Seq(BOOLEAN)]
      /\ timer' \in [Socks -> BOOLEAN]
  BY <1>1, Answered
<1>6. \A r \in Socks : r # s =>
        answers'[r] = answers[r] /\ timer'[r] = timer[r]
  BY DEF Answer, IInv, TypeOK
<1>7. TypeOK'
  <2>1. eventMap' \in [Fds -> [of : Socks \cup {None},
                               on : {"none", "connect", "io"}]]
    BY <1>1, <1>2, <1>3
  <2>2. expired' \subseteq Fds /\ epoll' \subseteq Socks
    BY <1>1, <1>2 DEF IInv, TypeOK
  <2> HIDE DEF n
  <2> QED BY <1>2, <1>5, <2>1, <2>2 DEF IInv, TypeOK
<1>8. MapMatchesEpoll'
  <2>1. ASSUME NEW f \in Fds, eventMap'[f].of # None
        PROVE  fd[eventMap'[f].of] = f /\ eventMap'[f].of \in epoll'
    BY <1>2, <1>4, <2>1 DEF IInv, MapMatchesEpoll
  <2>2. ASSUME NEW r \in epoll' PROVE Registered(r)'
    <3>1. CASE r = s BY <1>1, <1>4, <3>1 DEF Registered
    <3>2. CASE r # s
      <4>1. r \in epoll /\ fd[r] # None /\ eventMap[fd[r]].of = r /\ r \in Socks
        BY <1>2, <3>2 DEF IInv, MapMatchesEpoll, Registered, TypeOK
      <4>2. fd[r] \in Fds /\ fd[r] # n
        BY <3>2, <4>1 DEF IInv, TypeOK, Distinct
      <4> QED BY <1>4, <4>1, <4>2 DEF Registered
    <3> QED BY <3>1, <3>2
  <2> QED BY <2>1, <2>2 DEF MapMatchesEpoll
<1>9. Watched'
  <2> SUFFICES ASSUME NEW f \in Fds, eventMap'[f].of # None
               PROVE  /\ sockFd[eventMap'[f].of] = "held"
                      /\ eventMap'[f].on # "none"
                      /\ eventMap'[f].on = "connect" =>
                           /\ eventMap'[f].of \in Clients
                           /\ answers'[eventMap'[f].of] = <<>>
    BY DEF Watched
  <2>1. CASE f = n BY <1>1, <1>4, <2>1
  <2>2. CASE f # n
    <3>1. eventMap'[f] = eventMap[f] /\ eventMap[f].of # s
          /\ eventMap[f].of \in Socks
      BY <1>3, <1>4, <2>2
    <3> QED BY <1>6, <3>1 DEF IInv, Watched
  <2> QED BY <2>1, <2>2
<1>10. Marked'
  <2> SUFFICES ASSUME NEW e \in batch, e.fd \notin expired'
               PROVE  eventMap'[e.fd].of = e.file
    BY DEF Marked
  <2>1. e \in [fd : Fds, file : Socks] BY DEF IInv, TypeOK
  <2>2. e.fd \in Fds /\ e.fd # n /\ e.fd \notin expired BY <2>1
  <2> QED BY <1>4, <2>2 DEF IInv, Marked
<1>11. ~Unused(s) BY <1>1, InUse
<1>12. Untouched' /\ ToCome' = ToCome BY <1>6, <1>11, Used
<1>13. Distinct' /\ Kept' BY DEF IInv, Distinct, Kept, Alive
<1>14. InCallback' BY <1>1 DEF IInv, InCallback
<1>15. Retrying' BY <1>12, SameRetries
<1> QED BY <1>5, <1>7, <1>8, <1>9, <1>10, <1>12, <1>13, <1>14, <1>15 DEF IInv

LEMMA NotConnectedStep ==
  ASSUME IInv, NEW s \in Socks, NotConnected(s) PROVE IInv'
<1> USE DEF NotConnected
<1>1. fd[s] # None /\ answers[s] = <<>> /\ run.of = s
  BY DEF IInv, InCallback
<1>2. /\ Unregister(s) /\ sockFd' = [sockFd EXCEPT ![s] = "none"]
      /\ sockFd' \in [Socks -> {"none", "held", "removed"}]
  BY DEF DropSockFD, Unregister, IInv, TypeOK
<1>3. /\ Once' /\ answers' \in [Socks -> Seq(BOOLEAN)]
      /\ timer' \in [Socks -> BOOLEAN]
  BY <1>1, Answered
<1>4. \A r \in Socks : r # s =>
        answers'[r] = answers[r] /\ timer'[r] = timer[r]
  BY DEF Answer, IInv, TypeOK
<1>5. MapMatchesEpoll' /\ Distinct' /\ Watched' /\ Marked'
  BY <1>2, <1>4, Leaves
<1>6. TypeOK'
  <2>1. /\ epoll' \subseteq Socks /\ ready' \subseteq epoll' /\ expired' \subseteq Fds
        /\ eventMap' \in [Fds -> [of : Socks \cup {None},
                                  on : {"none", "connect", "io"}]]
    <3>1. epoll \subseteq Socks BY DEF IInv, TypeOK
    <3> QED BY <1>2, <3>1, Unregistered
  <2> QED BY <1>2, <1>3, <2>1 DEF IInv, TypeOK
<1>7. ~Unused(s) BY <1>1, InUse
<1>8. Untouched' /\ ToCome' = ToCome BY <1>4, <1>7, Used
<1>9. Kept' /\ InCallback' BY <1>1 DEF IInv, Kept, Alive, InCallback
<1>10. Retrying' BY <1>8, SameRetries
<1> QED BY <1>3, <1>5, <1>6, <1>8, <1>9, <1>10 DEF IInv

LEMMA ReadStep ==
  ASSUME IInv, NEW s \in Socks, Read(s) \/ ReadAgain(s) PROVE IInv'
<1>1. /\ UNCHANGED <<peer, sentData, eof, backlog, fd, listener, poller,
                     reported, posted, retries, sockets, holders, run, history>>
      /\ loop = "io" /\ loop' \in {"io", "return"}
  BY DEF Read, ReadAgain
<1>2. data' \in [Socks -> 0..MaxData] /\ \A r \in Socks : data'[r] <= sentData[r]
  <2>1. CASE Read(s)
    <3>1. data[s] \in 0..MaxData /\ data[s] > 0 /\ sentData[s] \in 0..MaxData
          /\ data[s] <= sentData[s]
      BY <2>1 DEF Read, IInv, TypeOK, Once
    <3>2. data[s] - 1 \in 0..MaxData /\ data[s] - 1 <= sentData[s]
      BY <3>1, BoundsAssumption
    <3> QED BY <2>1, <3>2 DEF Read, IInv, TypeOK, Once
  <2>2. CASE ReadAgain(s) BY <2>2 DEF ReadAgain, IInv, TypeOK, Once
  <2> QED BY <2>1, <2>2
<1>3. /\ MapMatchesEpoll' /\ Distinct' /\ Watched' /\ Untouched' /\ Marked'
      /\ Once' /\ ToCome' = ToCome
  BY <1>1, <1>2, Quiet
<1>4. TypeOK' BY <1>1, <1>2 DEF IInv, TypeOK
<1>5. Kept' /\ InCallback' BY <1>1 DEF IInv, Kept, Alive, InCallback
<1>6. Retrying' BY <1>1, <1>3, SameRetries
<1> QED BY <1>3, <1>4, <1>5, <1>6 DEF IInv

LEMMA ReadEndsStep ==
  ASSUME IInv, NEW s \in Socks, ReadEnds(s) PROVE IInv'
<1> USE DEF ReadEnds
<1>1. /\ fd[s] # None /\ run.of = s
      /\ sockFd \in [Socks -> {"none", "held", "removed"}]
      /\ errEmit \in [Socks -> BOOLEAN] /\ errs \in [Socks -> Nat]
      /\ owned \in [Socks -> BOOLEAN]
  BY DEF IInv, InCallback, TypeOK
<1>2. ~Unused(s) BY <1>1, InUse
<1>3. CASE errEmit[s]
  <2>1. UNCHANGED <<errEmit, errs, owned, sockFd, poller, expired>>
    BY <1>3 DEF EmitErr
  <2>2. /\ MapMatchesEpoll' /\ Distinct' /\ Watched' /\ Untouched' /\ Marked'
        /\ Once' /\ ToCome' = ToCome
    BY <2>1, Quiet DEF IInv, Once
  <2>3. TypeOK' BY <2>1 DEF IInv, TypeOK
  <2>4. Kept' /\ InCallback'
    BY <1>1, <2>1 DEF IInv, Kept, Alive, InCallback
  <2>5. Retrying' BY <2>2, SameRetries
  <2> QED BY <2>2, <2>3, <2>4, <2>5 DEF IInv
<1>4. CASE ~errEmit[s]
  <2>1. /\ errEmit' = [errEmit EXCEPT ![s] = TRUE]
        /\ errs' = [errs EXCEPT ![s] = @ + 1]
        /\ owned' = [owned EXCEPT ![s] = s \in Clients /\ owned[s]]
        /\ Unregister(s)
        /\ sockFd' = [sockFd EXCEPT ![s] = IF @ = "held" THEN "removed" ELSE @]
    BY <1>4 DEF EmitErr, Unregister
  <2> DEFINE x == IF sockFd[s] = "held" THEN "removed" ELSE sockFd[s]
  <2>2. /\ x \in {"none", "held", "removed"} /\ sockFd' = [sockFd EXCEPT ![s] = x]
        /\ sockFd' \in [Socks -> {"none", "held", "removed"}]
    BY <1>1, <2>1
  <2>3. MapMatchesEpoll' /\ Distinct' /\ Watched' /\ Marked'
    <3> HIDE DEF x
    <3> QED BY <2>1, <2>2, Leaves
  <2>4. TypeOK'
    <3>1. /\ epoll' \subseteq Socks /\ ready' \subseteq epoll'
          /\ expired' \subseteq Fds
          /\ eventMap' \in [Fds -> [of : Socks \cup {None},
                                    on : {"none", "connect", "io"}]]
      BY <2>1, Unregistered DEF IInv, TypeOK
    <3>2. /\ errEmit' \in [Socks -> BOOLEAN] /\ errs' \in [Socks -> Nat]
          /\ owned' \in [Socks -> BOOLEAN]
      BY <1>1, <2>1
    <3> HIDE DEF x
    <3> QED BY <2>2, <3>1, <3>2 DEF IInv, TypeOK
  <2>5. errs[s] = 0 BY <1>1, <1>4 DEF IInv, Once
  <2>6. Once' BY <1>1, <2>1, <2>5 DEF IInv, Once
  <2>7. \A r \in Socks : r # s => errEmit'[r] = errEmit[r] /\ owned'[r] = owned[r]
    BY <1>1, <2>1
  <2>8. Untouched' /\ ToCome' = ToCome BY <1>2, <2>7, Used
  <2>9. Kept' BY <1>1, <2>7 DEF IInv, Kept, Alive
  <2>10. InCallback' BY <1>1 DEF IInv, InCallback
  <2>11. Retrying' BY <2>8, SameRetries
  <2> QED BY <2>3, <2>4, <2>6, <2>8, <2>9, <2>10, <2>11 DEF IInv
<1> QED BY <1>3, <1>4

-----------------------------------------------------------------------------
(* Socket::onAccept, and the other threads *)

LEMMA BeginAcceptStep ==
  ASSUME IInv, BeginAccept PROVE IInv'
<1> USE DEF BeginAccept
<1>1. /\ MapMatchesEpoll' /\ Distinct' /\ Watched' /\ Untouched' /\ Marked'
      /\ Once' /\ ToCome' = ToCome
  BY Quiet DEF IInv, Once
<1>2. /\ retries \in Nat /\ listener \in BOOLEAN /\ accepting \in BOOLEAN
      /\ Cardinality(Conns) \in Nat /\ Edges \in Nat
  BY FewToCome, EdgesCounted DEF IInv, TypeOK
<1>3. /\ retries' \in Nat /\ accepting' \in BOOLEAN
      /\ Edges' \in Nat /\ retries' + Edges' <= retries + Edges
  <2>1. CASE loop = "events" /\ accepting
    <3>1. /\ accepting' = FALSE /\ retries' = retries
          /\ loop' = "accept" /\ UNCHANGED listener
      BY <2>1
    <3>2. Edges' = Edges BY <1>2, <2>1, <3>1 DEF Edges
    <3>3. retries' + Edges' = retries + Edges BY <3>1, <3>2
    <3>4. retries + Edges <= retries + Edges BY <1>2
    <3> QED BY <1>2, <3>1, <3>2, <3>3, <3>4
  <2>2. CASE loop = "poll"
    <3>1. retries' = retries - 1 /\ retries > 0 /\ UNCHANGED accepting
      BY <2>2
    <3>2. Edges' \in Nat /\ Edges' <= Edges + 1 BY <1>2, <2>2, <3>1 DEF Edges
    <3>3. retries' \in Nat /\ retries' + 1 = retries BY <1>2, <3>1
    <3>4. retries' + Edges' <= retries + Edges BY <1>2, <3>2, <3>3, Traded
    <3> QED BY <1>2, <3>1, <3>2, <3>3, <3>4
  <2> QED BY <2>1, <2>2
<1>4. Retrying' /\ retries' \in 0..Cardinality(Conns) BY <1>1, <1>3, Budget
<1>5. TypeOK' BY <1>3, <1>4 DEF IInv, TypeOK
<1>6. Kept' /\ InCallback' BY DEF IInv, Kept, Alive, InCallback
<1> QED BY <1>1, <1>4, <1>5, <1>6 DEF IInv

LEMMA AcceptEndsStep ==
  ASSUME IInv, AcceptDone \/ AcceptFull PROVE IInv'
<1> USE DEF AcceptDone, AcceptFull
<1>1. /\ MapMatchesEpoll' /\ Distinct' /\ Watched' /\ Untouched' /\ Marked'
      /\ Once' /\ ToCome' = ToCome
  BY Quiet DEF IInv, Once
<1>2. /\ retries \in Nat /\ listener \in BOOLEAN /\ accepting \in BOOLEAN
      /\ Cardinality(Conns) \in Nat /\ Edges \in Nat
  BY FewToCome, EdgesCounted DEF IInv, TypeOK
<1>3. /\ retries' \in Nat /\ Edges' \in Nat
      /\ retries' + Edges' <= retries + Edges
  BY <1>2 DEF Edges
<1>4. Retrying' /\ retries' \in 0..Cardinality(Conns) BY <1>1, <1>3, Budget
<1>5. TypeOK' BY <1>4 DEF IInv, TypeOK
<1>6. Kept' /\ InCallback' BY DEF IInv, Kept, Alive, InCallback
<1> QED BY <1>1, <1>4, <1>5, <1>6 DEF IInv

\* A connection that was waiting is taken from the queue.
LEMMA Taken ==
  ASSUME IInv, NEW s \in Socks, backlog # <<>>, Head(backlog) = s,
         backlog' = Tail(backlog), UNCHANGED <<peer, timer, answers>>,
         \A r \in Clients \cup Conns : r # s =>
           fd'[r] = fd[r] /\ errEmit'[r] = errEmit[r]
  PROVE  /\ Untouched' /\ ToCome' = ToCome /\ backlog' \in Seq(Conns)
         /\ fd[s] = None /\ ~errEmit[s] /\ ~timer[s] /\ answers[s] = <<>>
<1>1. /\ Waiting' \subseteq Waiting /\ backlog' \in Seq(Conns)
      /\ s \in Waiting /\ s \notin Waiting'
      /\ \A i, j \in DOMAIN backlog' : backlog'[i] = backlog'[j] => i = j
  BY Unqueued
<1>2. fd[s] = None /\ ~errEmit[s] /\ ~timer[s] /\ answers[s] = <<>>
      /\ peer[s] # "idle"
  BY <1>1 DEF IInv, Untouched, Unused
<1>3. ToCome' = ToCome BY DEF ToCome
<1>4. \A r \in Socks : Unused(r)' => Unused(r) /\ r # s
  BY <1>1, <1>2 DEF Unused
<1>5. Untouched' BY <1>1, <1>4 DEF IInv, Untouched
<1> QED BY <1>1, <1>2, <1>3, <1>5

LEMMA AcceptStep ==
  ASSUME IInv, NEW s \in Socks, Accept(s) PROVE IInv'
<1> USE DEF Accept
<1>1. /\ \A r \in Socks : r # s => fd'[r] = fd[r] /\ owned'[r] = owned[r]
      /\ owned' \in [Socks -> BOOLEAN] /\ owned'[s]
  BY DEF IInv, TypeOK
<1>2. /\ Untouched' /\ ToCome' = ToCome /\ backlog' \in Seq(Conns)
      /\ fd[s] = None
  BY <1>1, Taken
<1>3. (data[s] > 0 \/ eof[s] # "open") \in BOOLEAN OBVIOUS
<1>4. /\ MapMatchesEpoll' /\ Distinct' /\ Watched' /\ Marked'
      /\ fd' \in [Socks -> Fds \cup {None}] /\ epoll' \subseteq Socks
      /\ ready' \subseteq epoll'
      /\ eventMap' \in [Fds -> [of : Socks \cup {None},
                                on : {"none", "connect", "io"}]]
      /\ sockFd' \in [Socks -> {"none", "held", "removed"}]
  <2> DEFINE fresh == data[s] > 0 \/ eof[s] # "open"
  <2>1. AddEvent(s, fd'[s], "io", fresh) /\ fresh \in BOOLEAN OBVIOUS
  <2> HIDE DEF fresh
  <2> QED BY <1>2, <2>1, Enters
<1>5. TypeOK' BY <1>1, <1>2, <1>4 DEF IInv, TypeOK
<1>6. Once' BY SameOnce DEF IInv, Once
<1>7. Kept' BY <1>1 DEF IInv, Kept, Alive
<1>8. InCallback' BY DEF IInv, InCallback
<1>9. Retrying' BY <1>2, SameRetries
<1> QED BY <1>2, <1>4, <1>5, <1>6, <1>7, <1>8, <1>9 DEF IInv

LEMMA UnwatchedStep ==
  ASSUME IInv, NEW s \in Socks, AcceptUnwatched(s) PROVE IInv'
<1> USE DEF AcceptUnwatched
<1>1. /\ errEmit' \in [Socks -> BOOLEAN] /\ errEmit'[s]
      /\ \A r \in Socks : r # s => errEmit'[r] = errEmit[r] /\ errs'[r] = errs[r]
      /\ errs' \in [Socks -> Nat] /\ errs \in [Socks -> Nat]
      /\ errs'[s] = errs[s] + 1
  <2>1. errEmit \in [Socks -> BOOLEAN] /\ errs \in [Socks -> Nat]
    BY DEF IInv, TypeOK
  <2>2. errs[s] + 1 \in Nat BY <2>1
  <2> QED BY <2>1, <2>2
<1>2. /\ Untouched' /\ ToCome' = ToCome /\ backlog' \in Seq(Conns)
      /\ ~errEmit[s]
  BY <1>1, Taken
<1>3. TypeOK' BY <1>1, <1>2 DEF IInv, TypeOK
<1>4. MapMatchesEpoll' /\ Distinct' /\ Watched' BY SameMap
<1>5. Marked' BY SameMarks
<1>6. errs[s] = 0 BY <1>1, <1>2 DEF IInv, Once
<1>7. Once' BY <1>1, <1>6 DEF IInv, Once
<1>8. Kept' /\ InCallback' BY DEF IInv, Kept, Alive, InCallback
<1>9. Retrying' BY <1>2, SameRetries
<1> QED BY <1>2, <1>3, <1>4, <1>5, <1>7, <1>8, <1>9 DEF IInv

LEMMA OtherThreads ==
  ASSUME IInv, NEW s \in Socks, Drop(s) \/ Lock(s) \/ Unlock(s) PROVE IInv'
<1> USE DEF Drop, Lock, Unlock, LetGo
<1>1. UNCHANGED <<kernel, fd, listener, poller, reported, retries, sockets,
                  loop, run, history>>
  OBVIOUS
<1>2. /\ MapMatchesEpoll' /\ Distinct' /\ Watched' /\ Untouched' /\ Marked'
      /\ Once' /\ ToCome' = ToCome
  BY <1>1, Quiet DEF IInv, Once
<1>3. /\ owned \in [Socks -> BOOLEAN] /\ posted \subseteq Socks
      /\ mainHolds \in Socks \cup {None} /\ s # None
  BY SocksAssumption DEF IInv, TypeOK
<1>4. /\ owned' \in [Socks -> BOOLEAN] /\ posted' \subseteq Socks
      /\ mainHolds' \in Socks \cup {None} /\ posted \subseteq posted'
  BY <1>3
<1>5. TypeOK' BY <1>1, <1>4 DEF IInv, TypeOK
<1>6. ASSUME NEW r \in Socks, Alive(r) PROVE Alive(r)' \/ r \in posted'
  <2>1. CASE Drop(s)
    <3>1. \A q \in Socks : q # s => owned'[q] = owned[q] BY <1>3, <2>1
    <3>2. CASE r = s BY <1>3, <2>1, <3>2 DEF Alive
    <3>3. CASE r # s BY <1>6, <2>1, <3>1, <3>3 DEF Alive
    <3> QED BY <3>2, <3>3
  <2>2. CASE Lock(s)
    <3>1. mainHolds = None /\ r # None BY <2>2, SocksAssumption
    <3> QED BY <1>6, <2>2, <3>1 DEF Alive
  <2>3. CASE Unlock(s)
    <3>1. CASE r = s BY <2>3, <3>1 DEF Alive
    <3>2. CASE r # s BY <1>6, <2>3, <3>2 DEF Alive
    <3> QED BY <3>1, <3>2
  <2> QED BY <2>1, <2>2, <2>3
<1>7. Kept' BY <1>1, <1>4, <1>6 DEF IInv, Kept
<1>8. InCallback' BY <1>1 DEF IInv, InCallback
<1>9. Retrying' BY <1>1, <1>2, SameRetries
<1> QED BY <1>2, <1>5, <1>7, <1>8, <1>9 DEF IInv

-----------------------------------------------------------------------------
LEMMA InitEstablishesIInv == Init => IInv
<1> SUFFICES ASSUME Init PROVE IInv OBVIOUS
<1> USE DEF Init
<1>1. TypeOK
  <2>1. <<>> \in Seq(Conns) /\ <<>> \in Seq(BOOLEAN) OBVIOUS
  <2>2. /\ retries \in 0..Cardinality(Conns)
        /\ data \in [Socks -> 0..MaxData] /\ sentData \in [Socks -> 0..MaxData]
    BY FewToCome, BoundsAssumption
  <2>3. /\ run \in [of : Socks \cup {None}, file : Socks \cup {None}]
        /\ eventMap \in [Fds -> [of : Socks \cup {None},
                                 on : {"none", "connect", "io"}]]
    BY DEF NoReg, Nobody
  <2>4. /\ peer \in [Socks -> {"idle", "syn", "up", "refused"}]
        /\ eof \in [Socks -> Ends] /\ fd \in [Socks -> Fds \cup {None}]
        /\ sockFd \in [Socks -> {"none", "held", "removed"}]
        /\ errEmit \in [Socks -> BOOLEAN] /\ timer \in [Socks -> BOOLEAN]
        /\ owned \in [Socks -> BOOLEAN]
        /\ answers \in [Socks -> Seq(BOOLEAN)] /\ errs \in [Socks -> Nat]
    BY <2>1 DEF Ends
  <2> QED BY <2>1, <2>2, <2>3, <2>4 DEF TypeOK
<1>2. Waiting = {} BY DEF Waiting
<1>3. Untouched BY <1>2 DEF Untouched
<1>4. MapMatchesEpoll /\ Watched BY DEF MapMatchesEpoll, Watched, NoReg
<1>5. Distinct /\ Kept /\ Marked BY DEF Distinct, Kept, Marked
<1>6. InCallback BY DEF InCallback, Nobody
<1>7. Once BY DEF Once
<1>8. Retrying
  <2>1. ToCome = Conns BY DEF ToCome
  <2> QED BY <2>1, FewToCome DEF Retrying, Edges
<1> QED BY <1>1, <1>3, <1>4, <1>5, <1>6, <1>7, <1>8 DEF IInv

LEMMA StutterKeepsIInv == ASSUME IInv, UNCHANGED vars PROVE IInv'
<1>1. /\ MapMatchesEpoll' /\ Distinct' /\ Watched' /\ Untouched' /\ Marked'
      /\ Once' /\ ToCome' = ToCome
  BY Quiet DEF IInv, Once
<1>2. TypeOK' BY DEF IInv, TypeOK
<1>3. Kept' /\ InCallback' BY DEF IInv, Kept, Alive, InCallback
<1>4. Retrying' BY <1>1, SameRetries
<1> QED BY <1>1, <1>2, <1>3, <1>4 DEF IInv

LEMMA NextKeepsIInv == IInv /\ [Next]_vars => IInv'
<1> SUFFICES ASSUME IInv, [Next]_vars PROVE IInv' OBVIOUS
<1>1. ASSUME NEW s \in Socks, Network(s) PROVE IInv'
  BY <1>1, EstablishStep, ComeStep, PeerStep DEF Network
<1>2. ASSUME NEW s \in Socks, Drop(s) \/ Lock(s) \/ Unlock(s) PROVE IInv'
  BY <1>2, OtherThreads
<1>3. ASSUME NEW s \in Clients,
             Connect(s) \/ ConnectFails(s) \/ ConnectTimeout(s)
      PROVE  IInv'
  BY <1>3, ConnectStep, ConnectFailsStep, TimeoutStep
<1>4. ASSUME NEW s \in Socks, RunDelete(s) \/ Callback(s) PROVE IInv'
  BY <1>4, DeleteStep, ConnectedStep, NotConnectedStep, ReadStep,
     ReadEndsStep, AcceptStep, UnwatchedStep, ReturnStep DEF Callback
<1>5. ASSUME Loop PROVE IInv'
  <2>1. CASE EpollWait BY <2>1, WaitStep
  <2>2. CASE BatchDone \/ \E e \in batch : Skip(e) BY <2>2, EventsStep
  <2>3. ASSUME NEW e \in batch, Dispatch(e) PROVE IInv'
    BY <2>3, DispatchStep
  <2>4. CASE BeginAccept BY <2>4, BeginAcceptStep
  <2>5. CASE AcceptDone \/ AcceptFull BY <2>5, AcceptEndsStep
  <2> QED BY <1>4, <1>5, <2>1, <2>2, <2>3, <2>4, <2>5 DEF Loop
<1>6. CASE Sleep \/ UNCHANGED vars BY <1>6, StutterKeepsIInv DEF Sleep
<1> QED BY <1>1, <1>2, <1>3, <1>5, <1>6 DEF Next

LEMMA IInvHolds == Spec => []IInv
<1>1. Init => IInv BY InitEstablishesIInv
<1>2. IInv /\ [Next]_vars => IInv' BY NextKeepsIInv
<1> QED BY <1>1, <1>2, PTL DEF Spec

(***************************************************************************)
(* An event is handled by the socket it happened to, although descriptor   *)
(* numbers are given out again while events of the closed file are still   *)
(* in the array of epoll_wait (_event_cache_expired in runLoop).           *)
(***************************************************************************)
THEOREM SocketsNoStaleEvent == Spec => []NoStaleEvent
BY IInvHolds, InvImplies, PTL

(***************************************************************************)
(* epoll, _event_map and the open files agree, no number is given to two   *)
(* files, and none is left open that nobody would close (addEvent,         *)
(* delEvent, SockFD, SockNum, the deleter of createSocket).                *)
(***************************************************************************)
THEOREM SocketsDescriptorsKept == Spec => []DescriptorsKept
BY IInvHolds, InvImplies, PTL

(***************************************************************************)
(* con_cb is called at most once for a connect, its timer goes with it,    *)
(* and on_err is called at most once (connect_l, onConnected, emitErr).    *)
(***************************************************************************)
THEOREM SocketsHeardOnce == Spec => []HeardOnce
BY IInvHolds, InvImplies, PTL
=============================================================================
