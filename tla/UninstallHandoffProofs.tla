----------------------- MODULE UninstallHandoffProofs -----------------------
(* Theorems about UninstallHandoff, for every number of clients, files and   *)
(* requests, every clock and every way in which steps fail.                  *)
EXTENDS UninstallHandoff, FiniteSetTheorems, SequenceTheorems, TLAPS

-----------------------------------------------------------------------------
(* The inductive invariant.                                                 *)

\* A request was timed before now.
RequestsTimed == \A c \in Clients : request[c].now <= clock

\* Every token in use was given to a lease that was written.
TokensGiven ==
    /\ lease.token <= leases
    /\ \A c \in Clients : held[c] <= leases /\ request[c].token <= leases

\* What HandoffInvariant says of a token that is held goes for the token a
\* client that is removing files will hold.
RemovalMeansHandoff ==
    \A c \in Clients : request[c].step = "remove" =>
        /\ request[c].token # 0
        /\ request[c].token = lease.token => lease.expires = until \div Second

\* While a handoff lasts, no Detox that had begun when the request of the lease
\* was timed is still running.
LeaseOutlastsDetox ==
    (lease # NoLease /\ HandoffActive)
        => \A s \in detox : s.start <= lease.sample => s.end <= clock

HandoffKept ==
    /\ HandoffInvariant
    /\ RequestsTimed /\ TokensGiven
    /\ RemovalMeansHandoff /\ LeaseOutlastsDetox

-----------------------------------------------------------------------------
(* Passes and requests stay what they are.                                  *)

\* The files of a daemon, or of a family, make a pass.
LEMMA FilesType ==
    /\ Files \in Seq(Managed) /\ Files # <<>>
    /\ Chromium \in Seq(Managed) /\ Hosts \in Managed /\ Deferred \subseteq Managed
<1>1. Gecko \in Seq(ToSet(Gecko)) /\ Chromium \in Seq(ToSet(Chromium))
  BY HandoffAssumption
<1> DEFINE A == ToSet(Gecko) \cup ToSet(Chromium) \cup {Hosts}
<1>2. Gecko \in Seq(A) /\ Chromium \in Seq(A) /\ <<Hosts>> \in Seq(A)
  BY <1>1, SeqMonotonic
<1> DEFINE policies == Gecko \o Chromium
<1>3. policies \in Seq(A) /\ Len(policies) = Len(Gecko) + Len(Chromium)
  BY <1>2, ConcatProperties
<1> HIDE DEF A
<1>4. \A i \in 1 .. Len(Chromium) : Chromium[i] = policies[Len(Gecko) + i]
  BY <1>2
<1> HIDE DEF policies
<1>5. /\ Files = policies \o <<Hosts>>
      /\ Files \in Seq(A) /\ Len(Files) = Len(policies) + 1
  BY <1>2, <1>3, ConcatProperties DEF Files, policies
<1>6. /\ \A i \in 1 .. Len(policies) : Files[i] = policies[i]
      /\ Files[Len(policies) + 1] = Hosts
  BY <1>2, <1>3, <1>5
<1>7. /\ \A i \in 1 .. Len(Files) : Files[i] \in Managed
      /\ Len(Files) \in Nat /\ Len(policies) \in Nat
  BY <1>3, <1>5 DEF Managed, ToSet
<1>8. Files \in Seq(Managed) /\ Files # <<>> /\ Hosts \in Managed
  BY <1>5, <1>6, <1>7
<1>9. ToSet(policies) \subseteq Managed
  BY <1>3, <1>5, <1>6, <1>7 DEF ToSet
<1>10. \A i \in 1 .. Len(Chromium) : Chromium[i] \in Managed
  <2> SUFFICES ASSUME NEW i \in 1 .. Len(Chromium)
               PROVE  Chromium[i] \in Managed
    OBVIOUS
  <2>1. Len(Gecko) \in Nat /\ Len(Chromium) \in Nat
    BY <1>2
  <2>2. Len(Gecko) + i \in 1 .. Len(policies)
    BY <1>3, <2>1
  <2>3. Len(Gecko) + i \in 1 .. Len(Files)
    BY <1>5, <1>7, <2>2
  <2> QED
    BY <1>4, <1>6, <1>7, <2>2, <2>3
<1>11. Chromium \in Seq(Managed)
  BY <1>2, <1>10
<1> QED
  BY <1>8, <1>9, <1>11, HandoffAssumption DEF policies

\* What is left of a pass after a file.
LEMMA AfterType ==
    ASSUME NEW p \in Passes, p.left # <<>>
    PROVE  After(p) \in Passes /\ (After(p).left = <<>> => After(p) = NoRepair)
<1>1. Len(p.left) \in Nat \ {0} /\ Tail(p.left) \in Seq(Managed)
      /\ Len(Tail(p.left)) = Len(p.left) - 1
  BY HeadTailProperties, EmptySeq DEF Passes
<1>2. CASE Len(p.left) = 1
  BY <1>2, EmptySeq DEF After, NoRepair, Passes
<1>3. CASE Len(p.left) # 1
  <2>1. Len(Tail(p.left)) # 0 /\ Len(<<>>) = 0
    BY <1>1, <1>3, EmptySeq
  <2> QED
    BY <1>1, <1>3, <2>1 DEF After, Passes
<1> QED
  BY <1>2, <1>3

\* A new pass.
LEMMA PassType ==
    ASSUME NEW files \in Seq(Managed), NEW once \in BOOLEAN
    PROVE  /\ Pass(files, once) \in Passes
           /\ Pass(files, once).left = <<>> => Pass(files, once) = NoRepair
<1> DEFINE flag == once /\ files # <<>>
<1>1. flag \in BOOLEAN /\ (files = <<>> => flag = FALSE)
  OBVIOUS
<1>2. Pass(files, once) = [NoRepair EXCEPT !.left = files, !.once = flag]
  BY DEF Pass
<1> HIDE DEF flag
<1>3. Pass(files, once) = [left |-> files, cleared |-> FALSE, once |-> flag]
  BY <1>2 DEF NoRepair
<1>4. files = <<>> => Pass(files, once) = NoRepair
  BY <1>1, <1>3 DEF NoRepair
<1> QED
  BY <1>1, <1>3, <1>4 DEF Passes

\* The families that a failing file leaves to a pass.
LEMMA NextFamilyType ==
    ASSUME NEW files \in Seq(Managed)
    PROVE  NextFamily(files) \in Seq(Managed)
<1> DEFINE family == {i \in DOMAIN files : files[i] \in Family(Head(files))}
<1>1. DOMAIN files = 1 .. Len(files) /\ Len(files) \in Nat
  BY LenProperties
<1>2. IsFiniteSet(family)
  <2>1. IsFiniteSet(1 .. Len(files)) /\ family \in SUBSET (1 .. Len(files))
    BY <1>1, FS_Interval
  <2> QED
    BY <2>1, FS_Subset
<1>3. Cardinality(family) \in Nat
  BY <1>2, FS_CardinalityType
<1>4. \A i \in Cardinality(family) + 1 .. Len(files) : files[i] \in Managed
  BY <1>1, <1>3, ElementOfSeq
<1> HIDE DEF family
<1>5. SubSeq(files, Cardinality(family) + 1, Len(files)) \in Seq(Managed)
  BY <1>1, <1>3, <1>4, SubSeqProperties
<1> QED
  BY <1>5 DEF NextFamily, family

RepairTypeOK ==
    /\ repair \in [Actors -> Passes]
    /\ \A a \in Actors : repair[a].left = <<>> => repair[a] = NoRepair

RequestTypeOK ==
    /\ request \in [Clients -> Requests]
    /\ \A c \in Clients : request[c].step = "remove" => request[c].left # <<>>

RestTypeOK ==
    /\ clock \in Nat /\ until \in Nat /\ leases \in Nat /\ failures \in Nat
    /\ tampered \in BOOLEAN
    /\ detox \subseteq Sessions
    /\ lease \in Leases
    /\ managed \subseteq Managed /\ heard \subseteq Deferred
    /\ held \in [Clients -> Nat]
    /\ daemon \in {"down", "starting", "serving"}
    /\ package \in {"installed", "stopped", "removed"}

LEMMA TypeParts ==
    /\ TypeOK <=> RepairTypeOK /\ RequestTypeOK /\ RestTypeOK
    /\ TypeOK' <=> RepairTypeOK' /\ RequestTypeOK' /\ RestTypeOK'
  BY DEF TypeOK, RepairTypeOK, RequestTypeOK, RestTypeOK

\* An actor takes up, goes on with or ends a pass, ...
LEMMA NewRepairType ==
    ASSUME RepairTypeOK, NEW a \in Actors, NEW p \in Passes,
           p.left = <<>> => p = NoRepair,
           repair' = [repair EXCEPT ![a] = p]
    PROVE  RepairTypeOK'
  BY DEF RepairTypeOK

LEMMA TakesPass ==
    ASSUME RepairTypeOK, NEW a \in Actors,
           NEW files \in Seq(Managed), NEW once \in BOOLEAN,
           repair' = [repair EXCEPT ![a] = Pass(files, once)]
    PROVE  RepairTypeOK'
<1> DEFINE pass == Pass(files, once)
<1>1. pass \in Passes /\ (pass.left = <<>> => pass = NoRepair)
  BY PassType
<1> HIDE DEF pass
<1>2. repair' = [repair EXCEPT ![a] = pass]
  BY DEF pass
<1> QED
  BY <1>1, <1>2, NewRepairType

\* ... and a client a request.
LEMMA NewRequestType ==
    ASSUME RequestTypeOK, NEW c \in Clients, NEW r \in Requests,
           r.step = "remove" => r.left # <<>>,
           request' = [request EXCEPT ![c] = r]
    PROVE  RequestTypeOK'
  BY DEF RequestTypeOK

LEMMA NothingType ==
    /\ NoRepair \in Passes /\ NoRequest \in Requests
    /\ NoRequest.step = "none" /\ NoRequest.now = 0 /\ NoRequest.token = 0
  BY EmptySeq DEF NoRepair, NoRequest, Passes, Requests

LEMMA RejectType ==
    ASSUME RequestTypeOK, NEW c \in Clients, Reject(c)
    PROVE  RequestTypeOK'
  BY NothingType, NewRequestType DEF Reject

LEMMA InitType == Init => TypeOK
<1> SUFFICES ASSUME Init PROVE RepairTypeOK /\ RequestTypeOK /\ RestTypeOK
  BY TypeParts
<1>1. RepairTypeOK
  BY NothingType DEF Init, AllIdle, RepairTypeOK
<1>2. RequestTypeOK
  BY NothingType DEF Init, Answered, RequestTypeOK
<1>3. RestTypeOK
  BY DEF Init, RestTypeOK, NoLease, Leases
<1> QED
  BY <1>1, <1>2, <1>3

\* The daemon's life and the clock.
LEMMA LifeType ==
    ASSUME TypeOK,
           \/ Tick \/ Tamper \/ Crash \/ Restart \/ Listen
           \/ LoopPass \/ HostsChanged \/ RemovePackage \/ AbortRemoval
    PROVE  TypeOK'
<1> SUFFICES ASSUME RepairTypeOK, RequestTypeOK, RestTypeOK
             PROVE  RepairTypeOK' /\ RequestTypeOK' /\ RestTypeOK'
  BY TypeParts
<1>0. Loop \in Actors /\ HostsTool \in Actors
  BY DEF Actors
<1>1. CASE Tick \/ Tamper \/ Listen \/ AbortRemoval \/ RemovePackage
  <2>1. RepairTypeOK' /\ RequestTypeOK'
    BY <1>1 DEF Tick, Tamper, Listen, AbortRemoval, RemovePackage,
       RepairTypeOK, RequestTypeOK
  <2>2. CASE Tick \/ Tamper \/ Listen \/ AbortRemoval
    <3>1. CASE Tick \/ Listen \/ AbortRemoval
      BY <2>1, <3>1 DEF Tick, Listen, AbortRemoval, RestTypeOK
    <3>2. CASE Tamper
      BY <2>1, <3>2, Zenon DEF Tamper, RestTypeOK
    <3> QED
      BY <2>2, <3>1, <3>2
  <2>3. CASE RemovePackage
    <3>1. NoLease \in Leases
      BY DEF NoLease, Leases
    <3> QED
      BY <2>1, <2>3, <3>1 DEF RemovePackage, RestTypeOK
  <2> QED
    BY <1>1, <2>2, <2>3
<1>2. CASE Crash
  <2>1. RepairTypeOK'
    BY <1>0, <1>2, NothingType DEF Crash, AllIdle, RepairTypeOK
  <2>2. RequestTypeOK'
    BY <1>2, NothingType DEF Crash, Answered, RequestTypeOK
  <2>3. RestTypeOK'
    BY <1>2 DEF Crash, RestTypeOK
  <2> QED
    BY <2>1, <2>2, <2>3
<1>3. CASE Restart \/ LoopPass
  <2>1. repair' = [repair EXCEPT ![Loop] = Pass(Files, FALSE)]
    BY <1>3 DEF Restart, LoopPass
  <2>2. RepairTypeOK'
    BY <1>0, <2>1, FilesType, TakesPass
  <2>3. RequestTypeOK' /\ RestTypeOK'
    BY <1>3 DEF Restart, LoopPass, RequestTypeOK, RestTypeOK
  <2> QED
    BY <2>2, <2>3
<1>4. CASE HostsChanged
  <2>1. RepairTypeOK'
    <3>1. repair' = [repair EXCEPT ![HostsTool] = Pass(<<Hosts>>, FALSE)]
      BY <1>4 DEF HostsChanged
    <3>2. <<Hosts>> \in Seq(Managed)
      BY FilesType
    <3> QED
      BY <1>0, <3>1, <3>2, TakesPass
  <2>2. RequestTypeOK' /\ RestTypeOK'
    BY <1>4 DEF HostsChanged, RequestTypeOK, RestTypeOK
  <2> QED
    BY <2>1, <2>2
<1> QED
  BY <1>1, <1>2, <1>3, <1>4

\* Repairs.
LEMMA RepairingType ==
    ASSUME TypeOK, NEW a \in Actors, Repairing(a)
    PROVE  TypeOK'
<1> SUFFICES ASSUME RepairTypeOK, RequestTypeOK, RestTypeOK
             PROVE  RepairTypeOK' /\ RequestTypeOK' /\ RestTypeOK'
  BY TypeParts
<1>0. /\ repair[a] \in Passes /\ repair[a].left # <<>>
      /\ repair[a].left \in Seq(Managed) /\ Head(repair[a].left) \in Managed
  <2>1. repair[a].left # <<>>
    BY DEF Repairing, CheckFile, WriteFile, FailFile
  <2> QED
    BY <2>1, HeadTailProperties DEF RepairTypeOK, Passes
<1>1. CASE CheckFile(a)
  <2> DEFINE next == IF HandoffActive /\ repair[a].once THEN NoRepair
                     ELSE IF HandoffActive \/ Head(repair[a].left) \in Deferred \ heard
                     THEN After(repair[a])
                     ELSE [repair[a] EXCEPT !.cleared = TRUE]
  <2>1. next \in Passes /\ (next.left = <<>> => next = NoRepair)
    BY <1>0, AfterType, NothingType DEF Passes
  <2>2. repair' = [repair EXCEPT ![a] = next]
    BY <1>1 DEF CheckFile
  <2>3. RepairTypeOK'
    BY <2>1, <2>2, NewRepairType
  <2> QED
    BY <1>1, <2>3 DEF CheckFile, RequestTypeOK, RestTypeOK
<1>2. CASE WriteFile(a)
  <2>1. RepairTypeOK'
    BY <1>0, <1>2, AfterType, NewRepairType DEF WriteFile
  <2> QED
    BY <1>0, <1>2, <2>1 DEF WriteFile, RequestTypeOK, RestTypeOK
<1>3. CASE FailFile(a)
  <2>1. \/ repair' = [repair EXCEPT ![a] = NoRepair]
        \/ repair' = [repair EXCEPT ![a] = Pass(NextFamily(repair[a].left), FALSE)]
    BY <1>3 DEF FailFile
  <2>2. RepairTypeOK'
    BY <1>0, <2>1, NothingType, NextFamilyType, TakesPass, NewRepairType
  <2>3. failures' \in Nat /\ daemon' \in {"down", "starting", "serving"}
    <3>1. failures' = failures + 1 /\ (daemon' = "down" \/ daemon' = daemon)
      BY <1>3 DEF FailFile
    <3> QED
      BY <3>1 DEF RestTypeOK
  <2>4. UNCHANGED <<clock, tampered, detox, until, lease, leases, managed,
                    heard, request, held, package>>
    BY <1>3 DEF FailFile
  <2> QED
    BY <2>2, <2>3, <2>4 DEF RequestTypeOK, RestTypeOK
<1> QED
  BY <1>1, <1>2, <1>3 DEF Repairing

\* A granted request goes on to remove the files.
LEMMA RemovingType ==
    ASSUME TypeOK, NEW c \in Clients
    PROVE  /\ Removing(request[c]) \in Requests
           /\ Removing(request[c]).step = "remove"
           /\ Removing(request[c]).left = Files
           /\ Removing(request[c]).token = leases + 1
           /\ Removing(request[c]).now = request[c].now
<1>1. request[c] \in Requests /\ leases + 1 \in Nat
  BY DEF TypeOK
<1> QED
  BY <1>1, FilesType DEF Requests, Removing

\* A lease is written.
LEMMA LeaseType ==
    ASSUME TypeOK, NEW c \in Clients, NEW ends \in HandoffEnds(request[c])
    PROVE  /\ ends \in Nat
           /\ NewLease(request[c], ends) \in Leases
           /\ NewLease(request[c], ends) =
                [token |-> leases + 1, expires |-> ends \div Second,
                 sample |-> request[c].now]
<1>1. request[c].checked \in Nat /\ request[c].now \in Nat
      /\ clock \in Nat /\ leases \in Nat
  BY DEF TypeOK, Requests
<1>2. HandoffLength \in Nat /\ Second \in Nat \ {0}
  BY HandoffAssumption
<1>3. ends \in Nat
  BY <1>1, <1>2 DEF HandoffEnds
<1>4. ends \div Second \in Nat
  BY <1>2, <1>3
<1> QED
  BY <1>1, <1>3, <1>4 DEF NewLease, Leases

\* Detox requests and uninstall requests up to the grant.
LEMMA AskingType ==
    ASSUME TypeOK, NEW c \in Clients,
           \/ Begin(c) \/ StartDetox(c) \/ Authorize(c) \/ GrantRejected(c)
           \/ \E f \in Deferred : Heartbeat(c, f)
    PROVE  TypeOK'
<1> SUFFICES ASSUME RepairTypeOK, RequestTypeOK, RestTypeOK
             PROVE  RepairTypeOK' /\ RequestTypeOK' /\ RestTypeOK'
  BY TypeParts
<1>0. c \in Actors /\ request[c] \in Requests /\ request[c].now \in Nat
  BY DEF Actors, RequestTypeOK, Requests
<1>1. CASE Begin(c)
  <2>1. PICK step \in {"detox", "check"}, code \in BOOLEAN :
          request' = [request EXCEPT ![c] =
             [NoRequest EXCEPT !.step = step, !.now = clock, !.emergency = code]]
    BY <1>1 DEF Begin
  <2> DEFINE r == [NoRequest EXCEPT !.step = step, !.now = clock, !.emergency = code]
  <2>2. r \in Requests /\ r.step # "remove"
    BY NothingType DEF RestTypeOK, Requests
  <2> HIDE DEF r
  <2>3. request' = [request EXCEPT ![c] = r]
    BY <2>1 DEF r
  <2>4. RequestTypeOK'
    BY <2>2, <2>3, NewRequestType
  <2> QED
    BY <1>1, <2>4 DEF Begin, RepairTypeOK, RestTypeOK
<1>2. CASE StartDetox(c)
  <2>1. RequestTypeOK'
    BY <1>2, RejectType DEF StartDetox
  <2>2. RepairTypeOK'
    <3>1. \/ repair' = [repair EXCEPT ![c] = Pass(Chromium, TRUE)]
          \/ repair' = repair
      BY <1>2 DEF StartDetox
    <3>2. CASE repair' = [repair EXCEPT ![c] = Pass(Chromium, TRUE)]
      BY <1>0, <3>2, FilesType, TakesPass
    <3>3. CASE repair' = repair
      BY <3>3 DEF RepairTypeOK
    <3> QED
      BY <3>1, <3>2, <3>3
  <2>3. detox' \subseteq Sessions
    <3>1. \/ detox' = detox
          \/ \E d \in DetoxLengths :
                detox' = detox \cup {[start |-> request[c].now,
                                      end   |-> request[c].now + d]}
      BY <1>2 DEF StartDetox
    <3>2. \A d \in DetoxLengths : request[c].now + d \in Nat
      BY <1>0, HandoffAssumption
    <3> QED
      BY <1>0, <3>1, <3>2 DEF RestTypeOK, Sessions
  <2>4. managed' \subseteq Managed /\ failures' \in Nat
    <3>1. /\ managed' = managed \/ managed' = managed \cup {Hosts}
          /\ failures' = failures \/ failures' = failures + 1
      BY <1>2 DEF StartDetox
    <3> QED
      BY <3>1, FilesType DEF RestTypeOK
  <2> QED
    BY <1>2, <2>1, <2>2, <2>3, <2>4 DEF StartDetox, RestTypeOK
<1>3. CASE Authorize(c)
  <2>1. \/ Reject(c)
        \/ request' = [request EXCEPT ![c] =
              [request[c] EXCEPT !.step = "grant", !.checked = clock]]
    BY <1>3 DEF Authorize, Reject
  <2>2. [request[c] EXCEPT !.step = "grant", !.checked = clock] \in Requests
        /\ [request[c] EXCEPT !.step = "grant", !.checked = clock].step = "grant"
    BY <1>0 DEF Requests, RestTypeOK
  <2>3. RequestTypeOK'
    BY <2>1, <2>2, RejectType, NewRequestType
  <2> QED
    BY <1>3, <2>3 DEF Authorize, RepairTypeOK, RestTypeOK
<1>4. CASE GrantRejected(c)
  <2>1. RequestTypeOK'
    BY <1>4, RejectType DEF GrantRejected
  <2> QED
    BY <1>4, <2>1 DEF GrantRejected, RepairTypeOK, RestTypeOK
<1>5. ASSUME NEW f \in Deferred, Heartbeat(c, f)
      PROVE  RepairTypeOK' /\ RequestTypeOK' /\ RestTypeOK'
  <2>1. repair' = [repair EXCEPT ![c] = Pass(<<f>>, TRUE)]
    BY <1>5 DEF Heartbeat
  <2>2. <<f>> \in Seq(Managed)
    BY FilesType
  <2>3. RepairTypeOK'
    BY <1>0, <2>1, <2>2, TakesPass
  <2> QED
    BY <1>5, <2>3 DEF Heartbeat, RequestTypeOK, RestTypeOK
<1> QED
  BY <1>1, <1>2, <1>3, <1>4, <1>5

\* The grant, the removal of the files, and the package manager's first hook.
LEMMA RemovalType ==
    ASSUME TypeOK, NEW c \in Clients,
           \/ Grant(c) \/ GrantFails(c) \/ RemoveFile(c) \/ RemoveFails(c)
           \/ StopServices(c)
    PROVE  TypeOK'
<1> SUFFICES ASSUME RepairTypeOK, RequestTypeOK, RestTypeOK
             PROVE  RepairTypeOK' /\ RequestTypeOK' /\ RestTypeOK'
  BY TypeParts
<1>0. request[c] \in Requests
  BY DEF RequestTypeOK
<1>1. CASE Grant(c)
  <2>1. PICK ends \in HandoffEnds(request[c]) :
          lease' = NewLease(request[c], ends) /\ until' = ends
    BY <1>1 DEF Grant
  <2>2. RequestTypeOK'
    BY <1>1, RemovingType, FilesType, NewRequestType DEF Grant
  <2>3. RestTypeOK'
    <3>1. lease' \in Leases /\ until' \in Nat /\ leases' = leases + 1
      BY <1>1, <2>1, LeaseType DEF Grant
    <3> QED
      BY <1>1, <3>1 DEF Grant, RestTypeOK
  <2> QED
    BY <1>1, <2>2, <2>3 DEF Grant, RepairTypeOK
<1>2. CASE GrantFails(c)
  <2>1. PICK ends \in HandoffEnds(request[c]) : lease' = NewLease(request[c], ends)
    BY <1>2 DEF GrantFails
  <2>2. RequestTypeOK'
    BY <1>2, RejectType DEF GrantFails
  <2>3. RestTypeOK'
    <3>1. /\ lease' \in Leases
          /\ leases' = leases + 1 /\ failures' = failures + 1
      BY <1>2, <2>1, LeaseType DEF GrantFails
    <3> QED
      BY <1>2, <3>1 DEF GrantFails, RestTypeOK
  <2> QED
    BY <1>2, <2>2, <2>3 DEF GrantFails, RepairTypeOK
<1>3. CASE RemoveFile(c)
  <2>1. request[c].left # <<>> /\ request[c].left \in Seq(Managed)
    BY <1>0, <1>3 DEF RemoveFile, RequestTypeOK, Requests
  <2>2. CASE Len(request[c].left) = 1
    <3>1. RequestTypeOK' /\ held' \in [Clients -> Nat]
      BY <1>0, <1>3, <2>2, RejectType DEF RemoveFile, Requests, RestTypeOK
    <3> QED
      BY <1>3, <3>1 DEF RemoveFile, RepairTypeOK, RestTypeOK
  <2>3. CASE Len(request[c].left) # 1
    <3> DEFINE r == [request[c] EXCEPT !.left = Tail(request[c].left)]
    <3>1. Len(Tail(request[c].left)) # 0 /\ Len(<<>>) = 0
          /\ Tail(request[c].left) \in Seq(Managed)
      BY <2>1, <2>3, HeadTailProperties, EmptySeq
    <3>2. r \in Requests /\ r.left # <<>>
      BY <1>0, <3>1 DEF Requests
    <3>3. request' = [request EXCEPT ![c] = r]
      BY <1>3, <2>3 DEF RemoveFile
    <3>4. RequestTypeOK'
      BY <3>2, <3>3, NewRequestType
    <3> QED
      BY <1>3, <2>3, <3>4 DEF RemoveFile, RepairTypeOK, RestTypeOK
  <2> QED
    BY <2>2, <2>3
<1>4. CASE RemoveFails(c)
  <2>1. RequestTypeOK'
    BY <1>4, RejectType DEF RemoveFails
  <2> QED
    BY <1>4, <2>1 DEF RemoveFails, RepairTypeOK, RestTypeOK
<1>5. CASE StopServices(c)
  <2>1. RepairTypeOK' /\ RequestTypeOK'
    BY <1>5, NothingType DEF StopServices, AllIdle, Answered, RepairTypeOK,
       RequestTypeOK
  <2> QED
    BY <1>5, <2>1 DEF StopServices, RestTypeOK
<1> QED
  BY <1>1, <1>2, <1>3, <1>4, <1>5

LEMMA TypeStep == TypeOK /\ [Next]_vars => TypeOK'
<1> SUFFICES ASSUME TypeOK, [Next]_vars PROVE TypeOK'
  OBVIOUS
<1>1. CASE UNCHANGED vars
  BY <1>1 DEF vars, TypeOK
<1>2. ASSUME NEW c \in Clients, Serve(c) PROVE TypeOK'
  BY <1>2, AskingType, RemovalType DEF Serve
<1> QED
  BY <1>1, <1>2, LifeType, RepairingType DEF Next

\* Every variable stays in its domain in every behaviour.
THEOREM HandoffTypeCorrect == Spec => []TypeOK
  BY InitType, TypeStep, PTL DEF Spec

-----------------------------------------------------------------------------
(* The invariant is kept.                                                   *)

\* Steps that grant nothing and start no Detox: time may pass, the lease may be
\* consumed, and a client may end its request or hold the token of a removal.
LEMMA QuietStep ==
    ASSUME HandoffKept, TypeOK',
           clock <= clock', UNCHANGED <<detox, until, leases>>,
           lease' \in {lease, NoLease},
           \A c \in Clients :
             /\ request'[c].now <= clock' /\ request'[c].token <= leases
             /\ request'[c].step = "remove" =>
                  /\ request[c].step = "remove"
                  /\ request'[c].token = request[c].token
             /\ \/ held'[c] = held[c]
                \/ request[c].step = "remove" /\ held'[c] = request[c].token
    PROVE  HandoffKept'
<1> USE DEF HandoffKept, HandoffInvariant
<1>0. lease'.token = lease.token \/ lease'.token = 0
  BY DEF NoLease
<1>1. RequestsTimed'
  BY DEF RequestsTimed
<1>2. TokensGiven'
  <2>1. leases \in Nat /\ lease.token <= leases
    BY DEF TypeOK, TokensGiven
  <2>2. \A c \in Clients : held'[c] <= leases
    BY DEF TokensGiven
  <2> QED
    BY <1>0, <2>1, <2>2 DEF TokensGiven
<1>3. TokenMeansHandoff'
  <2> SUFFICES ASSUME NEW c \in Clients, held'[c] # 0, held'[c] = lease'.token
               PROVE  lease'.expires = until' \div Second
    BY DEF TokenMeansHandoff
  <2>1. lease' = lease
    BY DEF NoLease
  <2> QED
    BY <2>1 DEF TokenMeansHandoff, RemovalMeansHandoff
<1>4. RemovalMeansHandoff'
  <2> SUFFICES ASSUME NEW c \in Clients, request'[c].step = "remove"
               PROVE  /\ request'[c].token # 0
                      /\ request'[c].token = lease'.token
                           => lease'.expires = until' \div Second
    BY DEF RemovalMeansHandoff
  <2>1. request[c].step = "remove" /\ request'[c].token = request[c].token
    OBVIOUS
  <2>2. request'[c].token # 0
    BY <2>1 DEF RemovalMeansHandoff
  <2>3. request'[c].token = lease'.token => lease' = lease
    BY <2>2 DEF NoLease
  <2> QED
    BY <2>1, <2>2, <2>3 DEF RemovalMeansHandoff
<1>5. LeaseOutlastsDetox'
  <2> SUFFICES ASSUME lease' # NoLease, clock' < until',
                      NEW s \in detox', s.start <= lease'.sample
               PROVE  s.end <= clock'
    BY DEF LeaseOutlastsDetox, HandoffActive
  <2>1. /\ lease' = lease /\ s \in detox /\ until' = until
        /\ clock \in Nat /\ clock' \in Nat /\ until \in Nat /\ s.end \in Nat
    BY DEF TypeOK, Sessions
  <2>2. clock < until
    BY <2>1
  <2>3. s.end <= clock
    BY <2>1, <2>2 DEF LeaseOutlastsDetox, HandoffActive
  <2> QED
    BY <2>1, <2>3
<1> QED
  BY <1>1, <1>2, <1>3, <1>4, <1>5

\* A lease is written for the request of client d, with the handoff recorded
\* and the removal under way, or with neither.
LEMMA LeaseStep ==
    ASSUME HandoffKept, TypeOK', NEW d \in Clients,
           NEW ends \in HandoffEnds(request[d]),
           ActiveDetox(request[d].now) = {},
           lease' = NewLease(request[d], ends), leases' = leases + 1,
           UNCHANGED <<clock, detox, held>>,
           \/ /\ until' = ends
              /\ request' = [request EXCEPT ![d] = Removing(request[d])]
           \/ Reject(d)
    PROVE  HandoffKept'
<1> USE DEF HandoffKept, HandoffInvariant
<1>1. /\ lease'.token = leases + 1 /\ lease'.expires = ends \div Second
      /\ lease'.sample = request[d].now
      /\ leases \in Nat /\ clock \in Nat
  BY LeaseType DEF TypeOK
<1>2. request' = [request EXCEPT ![d] = Removing(request[d])] \/ Reject(d)
  OBVIOUS
<1>3. \A c \in Clients :
        \/ request'[c] = request[c]
        \/ request'[c] = NoRequest
        \/ /\ c = d /\ until' = ends
           /\ request'[c].now = request[c].now /\ request'[c].token = leases + 1
  BY RemovingType DEF Reject, TypeOK
<1>4. RequestsTimed'
  BY <1>1, <1>3, NothingType DEF RequestsTimed
<1>5. TokensGiven'
  <2>1. \A c \in Clients : held[c] \in Nat /\ request[c].token \in Nat
    BY DEF TypeOK, Requests
  <2> QED
    BY <1>1, <1>3, <2>1, NothingType DEF TokensGiven
<1>6. TokenMeansHandoff'
  <2>1. \A c \in Clients : held[c] \in Nat /\ held[c] <= leases
    BY DEF TypeOK, TokensGiven
  <2> QED
    BY <1>1, <2>1 DEF TokenMeansHandoff
<1>7. RemovalMeansHandoff'
  <2> SUFFICES ASSUME NEW c \in Clients, request'[c].step = "remove"
               PROVE  /\ request'[c].token # 0
                      /\ request'[c].token = lease'.token
                           => lease'.expires = until' \div Second
    BY DEF RemovalMeansHandoff
  <2>1. request[c].token \in Nat /\ request[c].token <= leases
    BY DEF TypeOK, Requests, TokensGiven
  <2>2. CASE request'[c] = request[c]
    BY <1>1, <2>1, <2>2 DEF RemovalMeansHandoff
  <2>3. CASE until' = ends /\ request'[c].token = leases + 1
    BY <1>1, <2>3
  <2> QED
    BY <1>3, <2>2, <2>3, NothingType
<1>8. LeaseOutlastsDetox'
  <2> SUFFICES ASSUME NEW s \in detox, s.start <= request[d].now
               PROVE  s.end <= clock
    BY <1>1 DEF LeaseOutlastsDetox
  <2>1. s.end \in Nat /\ request[d].now \in Nat
    BY DEF TypeOK, Sessions, Requests
  <2>2. s.end <= request[d].now
    BY <2>1 DEF ActiveDetox
  <2> QED
    BY <1>1, <2>1, <2>2 DEF RequestsTimed
<1> QED
  BY <1>4, <1>5, <1>6, <1>7, <1>8

\* A Detox starts only when no handoff is under way.
LEMMA DetoxStep ==
    ASSUME HandoffKept, TypeOK', NEW d \in Clients, StartDetox(d)
    PROVE  HandoffKept'
<1> USE DEF HandoffKept, HandoffInvariant
<1>1. \A c \in Clients : request'[c] = request[c] \/ request'[c] = NoRequest
  BY DEF StartDetox, Reject, TypeOK
<1>2. UNCHANGED <<clock, until, lease, leases, held>>
  BY DEF StartDetox
<1>3. RequestsTimed'
  BY <1>1, <1>2, NothingType DEF RequestsTimed, TypeOK
<1>4. TokensGiven'
  BY <1>1, <1>2, NothingType DEF TokensGiven, TypeOK
<1>5. TokenMeansHandoff'
  BY <1>2 DEF TokenMeansHandoff
<1>6. RemovalMeansHandoff'
  BY <1>1, <1>2, NothingType DEF RemovalMeansHandoff
<1>7. LeaseOutlastsDetox'
  BY <1>2 DEF StartDetox, HandoffActive, LeaseOutlastsDetox
<1> QED
  BY <1>3, <1>4, <1>5, <1>6, <1>7

LEMMA HandoffStep == HandoffKept /\ [Next]_vars => HandoffKept'
<1> SUFFICES ASSUME HandoffKept, [Next]_vars PROVE HandoffKept'
  OBVIOUS
<1>1. TypeOK /\ TypeOK'
  BY TypeStep DEF HandoffKept, HandoffInvariant
<1>2. \A c \in Clients : /\ request[c].now <= clock /\ request[c].token <= leases
                         /\ request[c].token \in Nat /\ request[c].now \in Nat
                         /\ request[c] \in Requests
  BY <1>1 DEF HandoffKept, RequestsTimed, TokensGiven, TypeOK, Requests
<1>3. clock \in Nat /\ leases \in Nat /\ clock <= clock + 1 /\ clock <= clock
  BY <1>1 DEF TypeOK
<1>4. CASE \/ Tick \/ Tamper \/ Crash \/ Restart \/ Listen \/ LoopPass
           \/ HostsChanged \/ RemovePackage \/ AbortRemoval
           \/ \E a \in Actors : Repairing(a)
           \/ UNCHANGED vars
  <2>1. /\ clock' = clock \/ clock' = clock + 1
        /\ UNCHANGED <<detox, until, leases, held>>
        /\ lease' \in {lease, NoLease}
        /\ request' = request \/ request' = Answered
    BY <1>4 DEF Tick, Tamper, Crash, Restart, Listen, LoopPass, HostsChanged,
       RemovePackage, AbortRemoval, Repairing, CheckFile, WriteFile, FailFile, vars
  <2>2. \A c \in Clients : request'[c] = request[c] \/ request'[c] = NoRequest
    BY <2>1 DEF Answered
  <2>3. clock <= clock' /\ clock' \in Nat
    BY <1>1, <1>3, <2>1 DEF TypeOK
  <2> QED
    BY <1>1, <1>2, <1>3, <2>1, <2>2, <2>3, NothingType, QuietStep
<1>5. ASSUME NEW d \in Clients, Serve(d) PROVE HandoffKept'
  <2>1. CASE \/ Authorize(d) \/ GrantRejected(d) \/ RemoveFails(d)
             \/ RemoveFile(d) \/ Begin(d) \/ StopServices(d)
             \/ \E f \in Deferred : Heartbeat(d, f)
    <3>1. /\ clock' = clock /\ UNCHANGED <<detox, until, leases, lease>>
          /\ held' = held \/ /\ request[d].step = "remove"
                             /\ held' = [held EXCEPT ![d] = request[d].token]
      BY <2>1 DEF Authorize, GrantRejected, RemoveFails, RemoveFile, Begin,
         StopServices, Heartbeat
    <3>2. \A c \in Clients :
            \/ held'[c] = held[c]
            \/ request[c].step = "remove" /\ held'[c] = request[c].token
      BY <1>1, <3>1 DEF TypeOK
    <3>3. \A c \in Clients :
            \/ request'[c] = request[c] \/ request'[c] = NoRequest
            \/ /\ request'[c].now \in {request[c].now, clock}
               /\ request'[c].token \in {request[c].token, 0}
               /\ request'[c].step = "remove" =>
                    request[c].step = "remove" /\ request'[c].token = request[c].token
      <4>1. CASE \/ GrantRejected(d) \/ RemoveFails(d) \/ StopServices(d)
                 \/ \E f \in Deferred : Heartbeat(d, f)
        BY <1>1, <4>1 DEF GrantRejected, RemoveFails, StopServices, Heartbeat,
           Reject, Answered, TypeOK
      <4>2. CASE Authorize(d)
        BY <1>1, <1>2, <4>2 DEF Authorize, Requests, TypeOK
      <4>3. CASE RemoveFile(d)
        <5>1. \/ Reject(d)
              \/ request' = [request EXCEPT ![d] =
                    [request[d] EXCEPT !.left = Tail(request[d].left)]]
          BY <4>3 DEF RemoveFile
        <5> DEFINE r == [request[d] EXCEPT !.left = Tail(request[d].left)]
        <5>2. r.now = request[d].now /\ r.token = request[d].token
              /\ r.step = request[d].step
          BY <1>2 DEF Requests
        <5> HIDE DEF r
        <5>3. Reject(d) \/ request' = [request EXCEPT ![d] = r]
          BY <5>1 DEF r
        <5> QED
          BY <1>1, <5>2, <5>3 DEF Reject, TypeOK
      <4>4. CASE Begin(d)
        <5>1. PICK step \in {"detox", "check"}, code \in BOOLEAN :
                request' = [request EXCEPT ![d] =
                  [NoRequest EXCEPT !.step = step, !.now = clock, !.emergency = code]]
          BY <4>4 DEF Begin
        <5> DEFINE r == [NoRequest EXCEPT !.step = step, !.now = clock,
                                          !.emergency = code]
        <5>2. r.now = clock /\ r.token = 0 /\ r.step # "remove"
          BY DEF NoRequest
        <5> HIDE DEF r
        <5>3. request' = [request EXCEPT ![d] = r]
          BY <5>1 DEF r
        <5> QED
          BY <1>1, <5>2, <5>3 DEF TypeOK
      <4> QED
        BY <2>1, <4>1, <4>2, <4>3, <4>4
    <3> QED
      BY <1>1, <1>2, <1>3, <3>1, <3>2, <3>3, NothingType, QuietStep
  <2>2. CASE StartDetox(d)
    BY <1>1, <2>2, DetoxStep
  <2>3. CASE Grant(d)
    <3>1. PICK ends \in HandoffEnds(request[d]) :
            lease' = NewLease(request[d], ends) /\ until' = ends
      BY <2>3 DEF Grant
    <3> QED
      BY <1>1, <2>3, <3>1, LeaseStep DEF Grant
  <2>4. CASE GrantFails(d)
    <3>1. PICK ends \in HandoffEnds(request[d]) :
            lease' = NewLease(request[d], ends)
      BY <2>4 DEF GrantFails
    <3> QED
      BY <1>1, <2>4, <3>1, LeaseStep DEF GrantFails
  <2> QED
    BY <1>5, <2>1, <2>2, <2>3, <2>4 DEF Serve
<1> QED
  BY <1>4, <1>5 DEF Next

LEMMA HandoffAlwaysKept == Spec => []HandoffKept
<1>1. Init => HandoffKept
  BY InitType, NothingType DEF Init, Answered, NoLease, HandoffKept,
     HandoffInvariant, TokenMeansHandoff, RequestsTimed, TokensGiven,
     RemovalMeansHandoff, LeaseOutlastsDetox
<1> QED
  BY <1>1, HandoffStep, PTL DEF Spec

-----------------------------------------------------------------------------
(* What follows from it.                                                    *)

\* A client that holds the token of the current lease holds it for a handoff
\* the database has recorded, whichever steps failed or were interrupted.
THEOREM HandoffIsRecorded == Spec => []HandoffInvariant
  BY HandoffAlwaysKept, PTL DEF HandoffKept

\* While a handoff lasts, no client's removal goes ahead over a Detox that had
\* begun when its request was timed.
THEOREM RemovalSparesDetox == Spec => RemovalRespectsDetox
<1>1. HandoffKept /\ [Next]_vars => [RemovalStep]_vars
  <2> SUFFICES ASSUME HandoffKept, Next, package = "installed",
                      package' = "stopped", HandoffActive,
                      NEW s \in ActiveDetox(clock)
               PROVE  lease.sample < s.start
    BY DEF RemovalStep
  <2>1. lease # NoLease
    <3>1. \E c \in Clients : StopServices(c)
      BY DEF Next, Tick, Tamper, Crash, Restart, Listen, LoopPass, HostsChanged,
         Repairing, CheckFile, WriteFile, FailFile, RemovePackage, AbortRemoval,
         Serve, Begin, StartDetox, Heartbeat, Authorize, Grant, GrantRejected,
         GrantFails, RemoveFile, RemoveFails
    <3> QED
      BY <3>1 DEF StopServices, LeaseAccepted
  <2>2. /\ s \in detox /\ clock < s.end /\ s.start \in Nat /\ s.end \in Nat
        /\ clock \in Nat /\ lease.sample \in Nat
    BY DEF HandoffKept, HandoffInvariant, TypeOK, ActiveDetox, Sessions, Leases
  <2>3. s.start <= lease.sample => s.end <= clock
    BY <2>1, <2>2 DEF HandoffKept, LeaseOutlastsDetox
  <2> QED
    BY <2>2, <2>3
<1> QED
  BY <1>1, HandoffAlwaysKept, PTL DEF Spec, RemovalRespectsDetox
=============================================================================
