-------------------------- MODULE KnownHostsProofs --------------------------
(***************************************************************************)
(* KnownHosts.tla, for any number of processes, hosts, keys and checks.    *)
(***************************************************************************)
EXTENDS KnownHosts, TLAPS

\* A process in a check has a host and a key; an idle one has read nothing.
Assigned ==
  \A p \in Proc :
    /\ pc[p] # "idle" => host[p] \in Host /\ key[p] \in Key
    /\ pc[p] = "idle" => readAt[p] = NoTime /\ p \notin before

\* No time is ahead of the time it was taken from.
Times ==
  /\ modified <= clock
  /\ \A p \in Proc :
       /\ seen[p] <= modified
       /\ cache[p].modified <= modified
       /\ readAt[p] <= clock
       /\ readAt[p] >= 0 => cache[p].modified <= readAt[p]

\* Nothing is known before the file exists, and nothing is cached before it is read.
Origins ==
  /\ modified = NoTime => Known = Nothing
  /\ \A p \in Proc : readAt[p] = NoTime => cache[p] = Empty

\* A cache filled in a later tick than the last write lacks no host.
CachesComplete ==
  \A p \in Proc, h \in Host :
    readAt[p] > modified /\ Known[h] # None => cache[p].entries[h] # None

\* What was recorded when a check began still is.
StillRecorded == \A p \in Proc : p \in before => Known[host[p]] # None

IInv ==
  /\ TypeOK
  /\ Assigned /\ Times /\ Origins
  /\ CachesComplete /\ StillRecorded /\ NoSecondFirstUse

-----------------------------------------------------------------------------
Pieces == Host \cup Key \cup {Space}

LEMMA WithLineType ==
  ASSUME NEW m \in Entries, NEW l \in Seq(Pieces) PROVE WithLine(m, l) \in Entries
  BY DEF WithLine, Gives, Text, Entries

LEMMA ExtendType ==
  ASSUME NEW l \in Seq(Pieces), NEW x \in Pieces PROVE Extend(l, x) \in Seq(Pieces)
  BY DEF Extend

\* A host that a line gives is given by every extension of the line.
LEMMA ExtendGives ==
  ASSUME NEW l \in Seq(Pieces), NEW x \in Pieces, Gives(l)
  PROVE  Gives(Extend(l, x)) /\ Extend(l, x)[1] = l[1]
<1>1. CASE Extend(l, x) = l
  BY <1>1
<1>2. CASE Extend(l, x) = Append(l, x)
  <2> DEFINE n == Append(l, x)
  <2>1. Len(n) = Len(l) + 1 /\ \A i \in 1..Len(l) : n[i] = l[i]
    OBVIOUS
  <2>2. PICK i \in 3..Len(l) : l[i] # Space
    BY DEF Gives
  <2>3. i \in 3..Len(n) /\ n[i] # Space
    BY <2>1, <2>2
  <2>4. Len(n) > 2 /\ n[1] \in Host /\ n[2] = Space /\ n[1] = l[1]
    BY <2>1 DEF Gives
  <2> HIDE DEF n
  <2>5. QED
    BY <1>2, <2>3, <2>4 DEF Gives, n
<1>3. QED
  BY <1>1, <1>2 DEF Extend

\* No piece written after it takes a host from the file.
LEMMA ExtendKeeps ==
  ASSUME NEW m \in Entries, NEW l \in Seq(Pieces), NEW x \in Pieces, NEW h \in Host,
         WithLine(m, l)[h] # None
  PROVE  WithLine(m, Extend(l, x))[h] # None
<1> DEFINE n == Extend(l, x)
<1>1. n \in Seq(Pieces)
  BY ExtendType
<1>2. Text(n) # None
  BY NoneAssumption DEF Text
<1>3. Gives(l) => Gives(n) /\ n[1] = l[1]
  BY ExtendGives
<1> SUFFICES WithLine(m, n)[h] # None
  OBVIOUS
<1> HIDE DEF n
<1>4. CASE m[h] # None
  BY <1>2, <1>4 DEF WithLine, Entries
<1>5. CASE m[h] = None
  <2>1. Gives(l) /\ l[1] = h
    BY <1>5 DEF WithLine, Entries
  <2>2. QED
    BY <2>1, <1>2, <1>3 DEF WithLine, Entries
<1>6. QED
  BY <1>4, <1>5

LEMMA EndedLine == ASSUME NEW m PROVE WithLine(m, <<>>) = m
  BY DEF WithLine, Gives

LEMMA KnownType == ASSUME TypeOK PROVE Known \in Entries
  BY WithLineType DEF TypeOK, Known, Pieces

-----------------------------------------------------------------------------
LEMMA InitInv == Init => IInv
<1> SUFFICES ASSUME Init PROVE IInv
  OBVIOUS
<1> USE BoundsAssumption DEF Init
<1>1. Nothing \in Entries
  BY DEF Nothing, Entries
<1>2. TypeOK
  BY <1>1 DEF TypeOK, Empty, Tick, NoTime
<1>3. Known = Nothing
  BY EndedLine DEF Known
<1>4. Assigned /\ Times /\ Origins
  BY <1>3 DEF Assigned, Times, Origins, Empty, NoTime
<1>5. CachesComplete /\ StillRecorded /\ NoSecondFirstUse
  BY DEF CachesComplete, StillRecorded, NoSecondFirstUse, NoTime
<1>6. QED
  BY <1>2, <1>4, <1>5 DEF IInv

LEMMA TypeStep == ASSUME TypeOK, Assigned, [Next]_vars PROVE TypeOK'
<1> USE BoundsAssumption DEF TypeOK, Saving, Over, Tick, NoTime, Unreadable, Goto, fvars, hvars
<1>1. Known \in Entries /\ Nothing \in Entries
  BY KnownType DEF Nothing, Entries
<1>2. CASE TickOver
  BY <1>2 DEF TickOver
<1>3. ASSUME NEW p \in Proc, NEW h \in Host, NEW k \in Key, CheckServerKey(p, h, k)
      PROVE  TypeOK'
  <2>1. pc' \in [Proc -> {"idle", "read", "open"} \cup Saving \cup Over]
    BY <1>3 DEF CheckServerKey, Verdict
  <2>2. shown' \in [Host -> SUBSET Key]
    BY <1>3 DEF CheckServerKey
  <2>3. sessions' \in 0..MaxSessions /\ before' \subseteq Proc /\ first' \subseteq Proc
    BY <1>3 DEF CheckServerKey
  <2>4. QED
    BY <1>3, <2>1, <2>2, <2>3 DEF CheckServerKey
<1>4. ASSUME NEW p \in Proc, Read(p) \/ ReadFails(p) PROVE TypeOK'
  <2>1. PICK e \in Entries, at \in Tick \cup {Unreadable} : Load(p, e, at)
    BY <1>1, <1>4 DEF Read, ReadFails
  <2>2. pc' \in [Proc -> {"idle", "read", "open"} \cup Saving \cup Over]
    BY <2>1 DEF Load, Verdict
  <2>3. cache' \in [Proc -> [modified : Tick \cup {NoTime}, entries : Entries]]
    BY <2>1 DEF Load
  <2>4. QED
    BY <2>1, <2>2, <2>3 DEF Load
<1>5. ASSUME NEW p \in Proc, Open(p) PROVE TypeOK'
  BY <1>5 DEF Open, OpenToAppend
<1>6. ASSUME NEW p \in Proc, Write(p) PROVE TypeOK'
  <2>1. pc' \in [Proc -> {"idle", "read", "open"} \cup Saving \cup Over]
    BY <1>6 DEF Write, After
  <2>2. CASE pc[p] = "end"
    BY <1>1, <1>6, <2>1, <2>2 DEF Write
  <2>3. CASE pc[p] # "end"
    <3>1. Piece(p) \in Pieces
      BY <1>6, <2>3 DEF Write, Piece, Pieces, Assigned
    <3>2. tail' \in Seq(Pieces)
      BY <1>6, <2>3, <3>1, ExtendType DEF Write, Pieces
    <3>3. QED
      BY <1>6, <2>1, <2>3, <3>2 DEF Write, Pieces
  <2>4. QED
    BY <2>2, <2>3
<1>7. ASSUME NEW p \in Proc, SaveFails(p) PROVE TypeOK'
  BY <1>7 DEF SaveFails
<1>8. ASSUME NEW p \in Proc, End(p) PROVE TypeOK'
  BY <1>1, <1>8 DEF End, Empty
<1>9. CASE UNCHANGED vars
  BY <1>9 DEF vars
<1>10. QED
  BY <1>2, <1>3, <1>4, <1>5, <1>6, <1>7, <1>8, <1>9 DEF Next

-----------------------------------------------------------------------------
\* The file changes by a write only, and a write takes no host from it.
LEMMA FileStep ==
  ASSUME [Next]_vars
  PROVE  \/ \E p \in Proc : Write(p)
         \/ \E p \in Proc : Open(p)
         \/ UNCHANGED fvars
  BY DEF Next, vars, fvars, TickOver, CheckServerKey, Read, ReadFails, Load, SaveFails, End

LEMMA RecordedStays ==
  ASSUME TypeOK, Assigned, [Next]_vars, NEW h \in Host, Known[h] # None
  PROVE  Known'[h] # None
<1>1. ASSUME NEW p \in Proc, Write(p) PROVE Known'[h] # None
  <2>1. CASE pc[p] = "end"
    <3>1. pinned' = Known /\ tail' = <<>>
      BY <1>1, <2>1 DEF Write
    <3>2. Known' = Known
      BY <3>1, EndedLine DEF Known
    <3>3. QED
      BY <3>2
  <2>2. CASE pc[p] # "end"
    <3>1. Piece(p) \in Pieces
      BY <1>1, <2>2 DEF Write, Saving, Piece, Pieces, Assigned
    <3>2. pinned' = pinned /\ tail' = Extend(tail, Piece(p))
      BY <1>1, <2>2 DEF Write
    <3>3. pinned \in Entries /\ tail \in Seq(Pieces)
      BY DEF TypeOK, Pieces
    <3>4. QED
      BY <3>1, <3>2, <3>3, ExtendKeeps DEF Known
  <2>3. QED
    BY <2>1, <2>2
<1>2. ASSUME NEW p \in Proc, Open(p) PROVE Known'[h] # None
  BY <1>2 DEF Open, OpenToAppend, Known
<1>3. CASE UNCHANGED fvars
  BY <1>3 DEF fvars, Known
<1>4. QED
  BY <1>1, <1>2, <1>3, FileStep

-----------------------------------------------------------------------------
LEMMA AssignedStep == ASSUME TypeOK, Assigned, [Next]_vars PROVE Assigned'
<1> USE DEF Assigned, TypeOK, Goto, hvars
<1>1. ASSUME NEW p \in Proc, NEW h \in Host, NEW k \in Key, CheckServerKey(p, h, k)
      PROVE  Assigned'
  BY <1>1 DEF CheckServerKey, Verdict
<1>2. ASSUME NEW p \in Proc, Read(p) \/ ReadFails(p) PROVE Assigned'
  BY <1>2 DEF Read, ReadFails, Load, Verdict
<1>3. ASSUME NEW p \in Proc, Open(p) \/ Write(p) \/ SaveFails(p) PROVE Assigned'
  BY <1>3 DEF Open, Write, SaveFails, Saving, After
<1>4. ASSUME NEW p \in Proc, End(p) PROVE Assigned'
  BY <1>4 DEF End
<1>5. CASE TickOver \/ UNCHANGED vars
  BY <1>5 DEF TickOver, vars
<1>6. QED
  BY <1>1, <1>2, <1>3, <1>4, <1>5 DEF Next

LEMMA TimesStep == ASSUME TypeOK, Times, [Next]_vars PROVE Times'
<1> USE DEF Times, TypeOK, Tick, NoTime, Unreadable, fvars, hvars
<1>1. ASSUME NEW p \in Proc, NEW h \in Host, NEW k \in Key, CheckServerKey(p, h, k)
      PROVE  Times'
  BY <1>1 DEF CheckServerKey
<1>2. ASSUME NEW p \in Proc, Read(p) \/ ReadFails(p) PROVE Times'
  <2>1. PICK e \in {Known, Nothing}, at \in {clock, Unreadable} : Load(p, e, at)
    BY <1>2 DEF Read, ReadFails
  <2>2. /\ cache'[p].modified = seen[p] /\ readAt'[p] = at
        /\ \A q \in Proc \ {p} : cache'[q] = cache[q] /\ readAt'[q] = readAt[q]
    BY <2>1 DEF Load
  <2>3. UNCHANGED <<fvars, clock, seen>>
    BY <2>1 DEF Load
  <2>4. QED
    BY <2>2, <2>3
<1>3. ASSUME NEW p \in Proc, Open(p) \/ Write(p) PROVE Times'
  BY <1>3 DEF Open, Write
<1>4. ASSUME NEW p \in Proc, SaveFails(p) PROVE Times'
  BY <1>4 DEF SaveFails
<1>5. ASSUME NEW p \in Proc, End(p) PROVE Times'
  BY <1>5 DEF End, Empty
<1>6. CASE TickOver \/ UNCHANGED vars
  BY <1>6 DEF TickOver, vars
<1>7. QED
  BY <1>1, <1>2, <1>3, <1>4, <1>5, <1>6 DEF Next

LEMMA OriginsStep == ASSUME TypeOK, Times, Origins, [Next]_vars PROVE Origins'
<1> USE DEF Origins, TypeOK, Tick, NoTime, Unreadable, hvars
<1>1. ASSUME NEW p \in Proc, NEW h \in Host, NEW k \in Key, CheckServerKey(p, h, k)
      PROVE  Origins'
  BY <1>1 DEF CheckServerKey, fvars, Known
<1>2. ASSUME NEW p \in Proc, Read(p) \/ ReadFails(p) PROVE Origins'
  <2>1. PICK e \in {Known, Nothing}, at \in {clock, Unreadable} : Load(p, e, at)
    BY <1>2 DEF Read, ReadFails
  <2>2. readAt'[p] # NoTime /\ \A q \in Proc \ {p} : cache'[q] = cache[q] /\ readAt'[q] = readAt[q]
    BY <2>1 DEF Load
  <2>3. UNCHANGED <<pinned, tail, modified>>
    BY <2>1 DEF Load, fvars
  <2>4. QED
    BY <2>2, <2>3 DEF Known
<1>3. ASSUME NEW p \in Proc, Open(p) \/ Write(p) PROVE Origins'
  <2>1. modified' # NoTime /\ UNCHANGED <<cache, readAt>>
    BY <1>3 DEF Open, Write
  <2>2. QED
    BY <2>1
<1>4. ASSUME NEW p \in Proc, SaveFails(p) PROVE Origins'
  BY <1>4 DEF SaveFails, fvars, Known
<1>5. ASSUME NEW p \in Proc, End(p) PROVE Origins'
  BY <1>5 DEF End, fvars, Known
<1>6. CASE TickOver \/ UNCHANGED vars
  BY <1>6 DEF TickOver, vars, fvars, Known
<1>7. QED
  BY <1>1, <1>2, <1>3, <1>4, <1>5, <1>6 DEF Next

LEMMA CachesStep == ASSUME TypeOK, Times, CachesComplete, [Next]_vars PROVE CachesComplete'
<1> USE DEF CachesComplete, TypeOK, Times, Tick, NoTime, Unreadable, hvars
<1>1. ASSUME NEW p \in Proc, NEW h \in Host, NEW k \in Key, CheckServerKey(p, h, k)
      PROVE  CachesComplete'
  BY <1>1 DEF CheckServerKey, fvars, Known
<1>2. ASSUME NEW p \in Proc, Read(p) \/ ReadFails(p) PROVE CachesComplete'
  <2>1. PICK e \in {Known, Nothing}, at \in {clock, Unreadable} :
          Load(p, e, at) /\ (at # Unreadable => e = Known)
    BY <1>2 DEF Read, ReadFails
  <2>2. /\ cache'[p].entries = e /\ readAt'[p] = at
        /\ \A q \in Proc \ {p} : cache'[q] = cache[q] /\ readAt'[q] = readAt[q]
    BY <2>1 DEF Load
  <2>3. UNCHANGED modified /\ Known' = Known
    BY <2>1 DEF Load, fvars, Known
  <2>4. QED
    BY <2>1, <2>2, <2>3
<1>3. ASSUME NEW p \in Proc, Open(p) PROVE CachesComplete'
  <2>1. Known' = Known /\ UNCHANGED <<cache, readAt>> /\ modified' \in {modified, clock}
    BY <1>3 DEF Open, OpenToAppend, Known
  <2>2. QED
    BY <2>1
<1>4. ASSUME NEW p \in Proc, Write(p) PROVE CachesComplete'
  <2>1. modified' = clock /\ UNCHANGED readAt
    BY <1>4 DEF Write
  <2>2. QED
    BY <2>1
<1>5. ASSUME NEW p \in Proc, SaveFails(p) PROVE CachesComplete'
  BY <1>5 DEF SaveFails, fvars, Known
<1>6. ASSUME NEW p \in Proc, End(p) PROVE CachesComplete'
  <2>1. /\ readAt'[p] = NoTime
        /\ \A q \in Proc \ {p} : cache'[q] = cache[q] /\ readAt'[q] = readAt[q]
    BY <1>6 DEF End
  <2>2. UNCHANGED modified /\ Known' = Known
    BY <1>6 DEF End, fvars, Known
  <2>3. QED
    BY <2>1, <2>2
<1>7. CASE TickOver \/ UNCHANGED vars
  BY <1>7 DEF TickOver, vars, fvars, Known
<1>8. QED
  BY <1>1, <1>2, <1>3, <1>4, <1>5, <1>6, <1>7 DEF Next

LEMMA StillRecordedStep ==
  ASSUME TypeOK, Assigned, StillRecorded, [Next]_vars PROVE StillRecorded'
<1>1. SUFFICES ASSUME NEW q \in Proc, q \in before' PROVE Known'[host'[q]] # None
  BY DEF StillRecorded
<1>2. CASE q \in before /\ host'[q] = host[q]
  <2>1. host[q] \in Host /\ Known[host[q]] # None
    BY <1>2 DEF Assigned, StillRecorded
  <2>2. QED
    BY <1>2, <2>1, RecordedStays
<1>3. ASSUME NEW h \in Host, NEW k \in Key, CheckServerKey(q, h, k) PROVE Known'[host'[q]] # None
  <2>1. host'[q] = h /\ Known[h] # None
    BY <1>1, <1>3 DEF CheckServerKey, TypeOK
  <2>2. QED
    BY <2>1, RecordedStays
<1>4. \/ q \in before /\ host'[q] = host[q]
      \/ \E h \in Host, k \in Key : CheckServerKey(q, h, k)
  BY <1>1 DEF Next, vars, hvars, TypeOK, TickOver, CheckServerKey, Read, ReadFails, Load, Open,
              Write, SaveFails, End
<1>5. QED
  BY <1>2, <1>3, <1>4

LEMMA NoSecondFirstUseStep == ASSUME IInv, [Next]_vars PROVE NoSecondFirstUse'
<1> USE DEF NoSecondFirstUse, IInv, TypeOK, Saving, Over, Goto, hvars
<1>1. ASSUME NEW p \in Proc, NEW h \in Host, NEW k \in Key, CheckServerKey(p, h, k)
      PROVE  NoSecondFirstUse'
  <2>1. SUFFICES ASSUME p \in before', pc'[p] = "open", readAt[p] # Unreadable
                 PROVE  p \notin first' /\ readAt[p] = seen'[p]
    BY <1>1 DEF CheckServerKey, Verdict
  <2>2. Known[h] # None /\ seen'[p] = modified
    BY <1>1, <2>1 DEF CheckServerKey
  <2>3. cache[p].modified = modified /\ cache[p].entries[h] = None
    BY <1>1, <2>1 DEF CheckServerKey, CacheHit, Verdict
  <2>4. modified # NoTime
    BY <2>2 DEF Origins, Nothing
  <2>5. readAt[p] # NoTime /\ pc[p] # "idle"
    BY <2>3, <2>4 DEF Origins, Empty, Assigned
  <2>6. readAt[p] = modified
    BY <2>1, <2>2, <2>3, <2>5 DEF Times, CachesComplete, Tick, NoTime, Unreadable
  <2>7. QED
    BY <1>1, <2>2, <2>5, <2>6 DEF CheckServerKey
<1>2. ASSUME NEW p \in Proc, Read(p) PROVE NoSecondFirstUse'
  <2>1. p \in before => pc'[p] # "open"
    BY <1>2 DEF Read, Load, Verdict, Assigned, StillRecorded
  <2>2. /\ pc'[p] \in {"open", "accepted", "refused"}
        /\ \A q \in Proc \ {p} : pc'[q] = pc[q] /\ readAt'[q] = readAt[q]
        /\ UNCHANGED <<seen, before, first>>
    BY <1>2 DEF Read, Load, Verdict
  <2>3. QED
    BY <2>1, <2>2
<1>3. ASSUME NEW p \in Proc, ReadFails(p) PROVE NoSecondFirstUse'
  <2>1. /\ readAt'[p] = Unreadable
        /\ \A q \in Proc \ {p} : pc'[q] = pc[q] /\ readAt'[q] = readAt[q]
        /\ UNCHANGED <<seen, before, first>>
    BY <1>3 DEF ReadFails, Load, Verdict
  <2>2. QED
    BY <2>1
<1>4. ASSUME NEW p \in Proc, Open(p) \/ Write(p) \/ SaveFails(p) PROVE NoSecondFirstUse'
  BY <1>4 DEF Open, Write, SaveFails, After
<1>5. ASSUME NEW p \in Proc, End(p) PROVE NoSecondFirstUse'
  BY <1>5 DEF End
<1>6. CASE TickOver \/ UNCHANGED vars
  BY <1>6 DEF TickOver, vars
<1>7. QED
  BY <1>1, <1>2, <1>3, <1>4, <1>5, <1>6 DEF Next

LEMMA Inductive == Spec => []IInv
<1>1. ASSUME IInv, [Next]_vars PROVE IInv'
  BY <1>1, TypeStep, AssignedStep, TimesStep, OriginsStep, CachesStep, StillRecordedStep,
     NoSecondFirstUseStep DEF IInv
<1>2. QED
  BY <1>1, InitInv, PTL DEF Spec

-----------------------------------------------------------------------------
\* Every variable keeps its type.
THEOREM HostTypes == Spec => []TypeOK
  BY Inductive, PTL DEF IInv

\* However many processes write at once, and wherever one is killed or fails, a host that
\* known_hosts records stays recorded (save_host_key, parse_known_hosts).
THEOREM RecordedForGood == Spec => StaysRecorded
<1>1. ASSUME TypeOK, Assigned, [Next]_vars
      PROVE  \A h \in Host : Known[h] # None => Known'[h] # None
  BY <1>1, RecordedStays
<1>2. IInv => TypeOK /\ Assigned
  BY DEF IInv
<1>3. QED
  BY <1>1, <1>2, Inductive, PTL DEF Spec, StaysRecorded

\* A recorded host is not trusted on first use again, but for the exceptions that
\* NoSecondFirstUse names (load_known_hosts, check_server_key).
THEOREM FirstUseOnce == Spec => []NoSecondFirstUse
  BY Inductive, PTL DEF IInv

-----------------------------------------------------------------------------
(***************************************************************************)
(* What is recorded.  The pieces of two saves that overlap may join into a *)
(* line of one host with the key of the other; without an overlap no kill  *)
(* and no failed write makes such a line.                                  *)
(***************************************************************************)
OneSaver == \A p, q \in Proc : pc[p] \in Saving /\ pc[q] \in Saving => p = q
RecordedWasShown == \A h \in Host : Known[h] \in Key => Known[h] \in shown[h]

\* What a process checks has been presented to it.
Presented == \A p \in Proc : pc[p] # "idle" => key[p] \in shown[host[p]]

\* What a line may say, and what it may be once its saver has written the host and the blank:
\* a line of its own, or the rest of one that an earlier save was cut short in.
Honest(l) == Gives(l) /\ Text(l) \in Key => Text(l) \in shown[l[1]]
AfterHost(l, h) ==
  Settled(l) \/ (Len(l) = 1 /\ l[1] = h) \/ (Len(l) = 3 /\ l[3] \in Host)
AfterBlank(l, h) ==
  Settled(l) \/ (Len(l) = 2 /\ l[1] = h) \/ (Len(l) = 4 /\ l[3] \in Host)
LineOf(p) ==
  /\ pc[p] = "blank" => AfterHost(tail, host[p])
  /\ pc[p] = "key" => AfterBlank(tail, host[p])

Recorded ==
  /\ \A h \in Host : pinned[h] \in Key => pinned[h] \in shown[h]
  /\ Honest(tail)
  /\ Presented
  /\ \A p \in Proc : LineOf(p)

LEMMA KnownShown ==
  ASSUME TypeOK, Recorded, NEW h \in Host, Known[h] \in Key PROVE Known[h] \in shown[h]
<1>1. CASE Gives(tail)
  BY <1>1 DEF Recorded, Honest, Known, WithLine, TypeOK, Entries
<1>2. CASE ~Gives(tail)
  BY <1>2 DEF Recorded, Known, WithLine
<1> QED
  BY <1>1, <1>2

\* A line that has its host's name in the place of the key says nothing.
LEMMA HostIsNoKey ==
  ASSUME NEW l \in Seq(Pieces), Len(l) >= 3, l[3] \in Host PROVE Text(l) \notin Key
BY SpaceAssumption, NoneAssumption DEF Text

LEMMA Appended ==
  ASSUME NEW l \in Seq(Pieces), NEW x \in Pieces, NEW m, m = Len(l)
  PROVE  /\ Append(l, x) \in Seq(Pieces) /\ Len(Append(l, x)) = m + 1 /\ m \in Nat
         /\ Append(l, x)[m + 1] = x
         /\ m >= 1 => Append(l, x)[1] = l[1]
         /\ m >= 3 => Append(l, x)[3] = l[3]
OBVIOUS

LEMMA HostWritten ==
  ASSUME NEW l \in Seq(Pieces), NEW h \in Host, Honest(l)
  PROVE  Honest(Extend(l, h)) /\ AfterHost(Extend(l, h), h)
<1> DEFINE n == Append(l, h)
           m == Len(l)
<1>1. CASE Settled(l)
  BY <1>1 DEF Extend, AfterHost
<1>2. CASE ~Settled(l)
  <2>1. Extend(l, h) = n /\ h \in Pieces /\ h # Space
    BY <1>2, SpaceAssumption DEF Extend, Pieces
  <2>2. n \in Seq(Pieces) /\ Len(n) = m + 1 /\ m \in Nat /\ n[m + 1] = h
    BY <2>1, Appended
  <2> HIDE DEF n, m
  <2>3. CASE m = 0
    <3>1. ~Gives(n) /\ Len(n) = 1 /\ n[1] = h
      BY <2>2, <2>3 DEF Gives
    <3> QED
      BY <2>1, <3>1 DEF Honest, AfterHost
  <2>4. CASE m = 1
    <3>1. ~Gives(n) /\ Settled(n)
      BY <2>1, <2>2, <2>4 DEF Gives, Settled
    <3> QED
      BY <2>1, <3>1 DEF Honest, AfterHost
  <2>5. CASE m = 2
    <3>1. Len(n) = 3 /\ n[3] \in Host
      BY <2>2, <2>5
    <3>2. Text(n) \notin Key
      BY <2>2, <3>1, HostIsNoKey
    <3> QED
      BY <2>1, <3>1, <3>2 DEF Honest, AfterHost
  <2>6. CASE m > 2
    <3>1. m + 1 \in 4..Len(n) /\ n[m + 1] # Space
      BY <2>1, <2>2, <2>6
    <3>2. Settled(n) /\ Text(n) = Garbled
      BY <3>1 DEF Settled, Text
    <3> QED
      BY <2>1, <3>2, NoneAssumption DEF Honest, AfterHost
  <2>7. m = 0 \/ m = 1 \/ m = 2 \/ m > 2
    BY <2>2
  <2> QED
    BY <2>3, <2>4, <2>5, <2>6, <2>7
<1> QED
  BY <1>1, <1>2

LEMMA BlankWritten ==
  ASSUME NEW l \in Seq(Pieces), NEW h \in Host, Honest(l), AfterHost(l, h)
  PROVE  Honest(Extend(l, Space)) /\ AfterBlank(Extend(l, Space), h)
<1> DEFINE n == Append(l, Space)
           m == Len(l)
<1>1. CASE Settled(l)
  BY <1>1 DEF Extend, AfterBlank
<1>2. CASE ~Settled(l) /\ m \in {1, 3}
  <2>1. /\ n \in Seq(Pieces) /\ Len(n) = m + 1 /\ n[1] = l[1] /\ (m = 3 => n[3] = l[3])
        /\ Extend(l, Space) = n
    <3>1. l # <<>> /\ Space \in Pieces
      BY <1>2 DEF Pieces
    <3> QED
      BY <1>2, <3>1, Appended DEF Extend
  <2> HIDE DEF n, m
  <2>2. CASE m = 1 /\ l[1] = h
    <3>1. ~Gives(n) /\ Len(n) = 2 /\ n[1] = h
      BY <2>1, <2>2 DEF Gives
    <3> QED
      BY <2>1, <3>1 DEF Honest, AfterBlank
  <2>3. CASE m = 3 /\ l[3] \in Host
    <3>1. Len(n) = 4 /\ n[3] \in Host
      BY <2>1, <2>3
    <3>2. Text(n) \notin Key
      BY <2>1, <3>1, HostIsNoKey
    <3> QED
      BY <2>1, <3>1, <3>2 DEF Honest, AfterBlank
  <2> QED
    BY <1>2, <2>2, <2>3 DEF AfterHost, m
<1> QED
  BY <1>1, <1>2 DEF AfterHost

LEMMA KeyWritten ==
  ASSUME NEW l \in Seq(Pieces), NEW h \in Host, NEW k \in Key, k \in shown[h],
         Honest(l), AfterBlank(l, h)
  PROVE  Honest(Extend(l, k))
<1> DEFINE n == Append(l, k)
           m == Len(l)
<1>1. CASE Extend(l, k) = l
  BY <1>1
<1>2. CASE Extend(l, k) = n /\ m \in {2, 4}
  <2>1. /\ n \in Seq(Pieces) /\ Len(n) = m + 1 /\ n[m + 1] = k
        /\ n[1] = l[1] /\ (m = 4 => n[3] = l[3])
    BY <1>2, Appended DEF Pieces
  <2> HIDE DEF n, m
  <2>2. CASE m = 2 /\ l[1] = h
    <3>1. n[3] = k /\ n[1] = h
      BY <2>1, <2>2
    <3>2. Text(n) \in {k, Garbled}
      BY <3>1 DEF Text
    <3> QED
      BY <1>2, <3>1, <3>2, NoneAssumption DEF Honest
  <2>3. CASE m = 4 /\ l[3] \in Host
    <3>1. Len(n) = 5 /\ n[3] \in Host
      BY <2>1, <2>3
    <3>2. Text(n) \notin Key
      BY <2>1, <3>1, HostIsNoKey
    <3> QED
      BY <1>2, <3>2 DEF Honest
  <2>4. Settled(l) => Extend(l, k) = l
    BY DEF Extend
  <2> QED
    BY <1>1, <1>2, <2>2, <2>3, <2>4 DEF AfterBlank, m
<1> QED
  BY <1>1, <1>2 DEF AfterBlank, Extend

LEMMA RecordedStep ==
  ASSUME TypeOK, Assigned, OneSaver, Recorded, [Next]_vars PROVE Recorded'
<1>1. ASSUME UNCHANGED <<pinned, tail, shown, host, key>>,
             \A p \in Proc : pc'[p] = pc[p] \/ (pc[p] # "idle" /\ pc'[p] \notin {"blank", "key"})
      PROVE  Recorded'
  <2>1. Presented'
    BY <1>1 DEF Recorded, Presented
  <2>2. \A p \in Proc : LineOf(p)'
    BY <1>1 DEF Recorded, LineOf, AfterHost, AfterBlank, Settled
  <2>3. Honest(tail)'
    BY <1>1 DEF Recorded, Honest, Gives, Text
  <2> QED
    BY <1>1, <2>1, <2>2, <2>3 DEF Recorded
<1>2. ASSUME NEW p \in Proc, NEW h \in Host, NEW k \in Key, CheckServerKey(p, h, k)
      PROVE  Recorded'
  <2>1. /\ UNCHANGED <<pinned, tail>>
        /\ shown'[h] = shown[h] \cup {k}
        /\ \A g \in Host : shown[g] \subseteq shown'[g]
        /\ host'[p] = h /\ key'[p] = k /\ pc'[p] \in {"read", "open"} \cup Over
        /\ \A q \in Proc \ {p} : pc'[q] = pc[q] /\ host'[q] = host[q] /\ key'[q] = key[q]
    BY <1>2 DEF CheckServerKey, Verdict, Goto, fvars, TypeOK, Over
  <2>2. Presented'
    BY <2>1 DEF Recorded, Presented, Assigned
  <2>3. \A q \in Proc : LineOf(q)'
    BY <2>1 DEF Recorded, LineOf, AfterHost, AfterBlank, Settled, Over
  <2>4. Honest(tail)'
    BY <2>1 DEF Recorded, Honest, Gives, Text
  <2> QED
    BY <2>1, <2>2, <2>3, <2>4 DEF Recorded
<1>3. ASSUME NEW p \in Proc, Read(p) \/ ReadFails(p) \/ Open(p) \/ SaveFails(p) PROVE Recorded'
  <2>1. pc[p] # "idle" /\ pc' = [pc EXCEPT ![p] = pc'[p]]
        /\ pc'[p] \notin {"blank", "key"}
    BY <1>3 DEF Read, ReadFails, Load, Verdict, Open, SaveFails, Goto, Saving, TypeOK
  <2>2. UNCHANGED <<pinned, tail, shown, host, key>>
    BY <1>3 DEF Read, ReadFails, Load, Open, OpenToAppend, SaveFails, fvars, hvars
  <2> QED
    BY <1>1, <2>1, <2>2 DEF TypeOK
<1>4. ASSUME NEW p \in Proc, End(p) PROVE Recorded'
  <2>1. /\ UNCHANGED <<pinned, tail, shown>> /\ pc'[p] = "idle"
        /\ \A q \in Proc \ {p} : pc'[q] = pc[q] /\ host'[q] = host[q] /\ key'[q] = key[q]
    BY <1>4 DEF End, Goto, fvars, TypeOK
  <2>2. Presented' /\ \A q \in Proc : LineOf(q)'
    BY <2>1 DEF Recorded, Presented, LineOf, AfterHost, AfterBlank, Settled
  <2>3. Honest(tail)'
    BY <2>1 DEF Recorded, Honest, Gives, Text
  <2> QED
    BY <2>1, <2>2, <2>3 DEF Recorded
<1>5. ASSUME NEW p \in Proc, Write(p) PROVE Recorded'
  <2>1. /\ pc[p] \in Saving /\ pc'[p] = After[pc[p]]
        /\ UNCHANGED <<host, key, shown>>
        /\ \A q \in Proc \ {p} : pc'[q] = pc[q] /\ pc[q] \notin Saving
    BY <1>5 DEF Write, Goto, hvars, TypeOK, OneSaver
  <2>2. Presented'
    BY <2>1 DEF Recorded, Presented, Saving, After
  <2>3. \A q \in Proc \ {p} : LineOf(q)'
    BY <2>1 DEF LineOf, Saving
  <2>4. CASE pc[p] = "end"
    <3>1. pinned' = Known /\ tail' = <<>> /\ pc'[p] = "accepted"
      BY <1>5, <2>1, <2>4 DEF Write, After
    <3>2. Honest(tail)'
      BY <3>1 DEF Honest, Gives
    <3>3. \A h \in Host : pinned'[h] \in Key => pinned'[h] \in shown'[h]
      BY <2>1, <3>1, KnownShown
    <3>4. LineOf(p)'
      BY <3>1 DEF LineOf
    <3> QED
      BY <2>2, <2>3, <3>2, <3>3, <3>4 DEF Recorded
  <2>5. CASE pc[p] # "end"
    <3>1. pc[p] \in {"host", "blank", "key"}
      BY <2>1, <2>5 DEF Saving
    <3>2. pinned' = pinned /\ tail' = Extend(tail, Piece(p))
      BY <1>5, <2>5 DEF Write
    <3>3. /\ host[p] \in Host /\ key[p] \in Key /\ key[p] \in shown[host[p]]
          /\ tail \in Seq(Pieces) /\ Honest(tail) /\ LineOf(p)
      BY <3>1 DEF Assigned, Recorded, Presented, TypeOK, Pieces
    <3>4. /\ Honest(tail')
          /\ pc[p] = "host" => AfterHost(tail', host[p])
          /\ pc[p] = "blank" => AfterBlank(tail', host[p])
      BY <3>1, <3>2, <3>3, HostWritten, BlankWritten, KeyWritten DEF Piece, LineOf
    <3>5. LineOf(p)'
      BY <2>1, <3>1, <3>4 DEF LineOf, AfterHost, AfterBlank, Settled, After
    <3>6. Honest(tail)'
      BY <2>1, <3>4 DEF Honest, Gives, Text
    <3> QED
      BY <2>1, <2>2, <2>3, <3>2, <3>5, <3>6 DEF Recorded
  <2> QED
    BY <2>4, <2>5
<1>6. CASE TickOver \/ UNCHANGED vars
  BY <1>1, <1>6 DEF TickOver, fvars, hvars, vars
<1> QED
  BY <1>2, <1>3, <1>4, <1>5, <1>6 DEF Next

\* While no two processes are within a save at once, known_hosts has for a host no key that
\* the host has not presented, wherever saves fail or are killed and whatever is appended to
\* what they left (save_host_key, parse_known_hosts).
THEOREM RecordsItsOwn == Spec /\ []OneSaver => []RecordedWasShown
<1>1. Init => Recorded
  <2> SUFFICES ASSUME Init PROVE Recorded
    OBVIOUS
  <2>1. \A h \in Host : pinned[h] = None
    BY DEF Init, Nothing
  <2> QED
    BY <2>1, NoneAssumption DEF Init, Recorded, Honest, Gives, Presented, LineOf
<1>2. IInv /\ OneSaver /\ Recorded /\ [Next]_vars => Recorded'
  BY RecordedStep DEF IInv
<1>3. IInv /\ Recorded => RecordedWasShown
  BY KnownShown DEF IInv, RecordedWasShown
<1> QED
  BY <1>1, <1>2, <1>3, Inductive, PTL DEF Spec

-----------------------------------------------------------------------------
(***************************************************************************)
(* Where the warning of a changed key is wrong: RefusedOnlyIfChanged fails *)
(* only after saves that overlapped, or one that was cut short.            *)
(***************************************************************************)
NoneCutShort == \A p \in Proc : pc[p] \in Saving => ~SaveFails(p) /\ ~End(p)

\* The line that a save has got to.
Begun(p, l) ==
  CASE pc[p] = "host" -> Len(l) = 0
    [] pc[p] = "blank" -> Len(l) = 1 /\ l[1] = host[p]
    [] pc[p] = "key" -> Len(l) = 2 /\ l[1] = host[p] /\ l[2] = Space
    [] pc[p] = "end" -> Len(l) = 3 /\ l[1] = host[p] /\ l[2] = Space /\ l[3] = key[p]
    [] OTHER -> TRUE

ShownOnly(entries) == \A h \in Host : entries[h] \in shown[h] \cup {None}

Clean ==
  /\ ShownOnly(pinned) /\ \A p \in Proc : ShownOnly(cache[p].entries)
  /\ Presented
  /\ \A p \in Proc : Begun(p, tail)
  /\ (\A p \in Proc : pc[p] \notin Saving) => tail = <<>>
  /\ RefusedOnlyIfChanged

LEMMA CleanKnown ==
  ASSUME TypeOK, Assigned, Clean PROVE ShownOnly(Known)
<1>1. CASE \A p \in Proc : pc[p] \notin Saving
  BY <1>1, EndedLine DEF Clean, Known
<1>2. CASE \E p \in Proc : pc[p] \in Saving
  <2>1. PICK p \in Proc : pc[p] \in Saving
    BY <1>2
  <2>2. Begun(p, tail) /\ host[p] \in Host /\ key[p] \in Key /\ key[p] \in shown[host[p]]
    BY <2>1 DEF Clean, Presented, Assigned, Saving
  <2>3. CASE pc[p] = "end"
    <3>1. Len(tail) = 3 /\ tail[1] = host[p] /\ tail[3] = key[p]
      BY <2>2, <2>3 DEF Begun
    <3>2. Text(tail) = key[p]
      BY <2>2, <3>1 DEF Text
    <3> QED
      BY <2>2, <3>1, <3>2 DEF Known, WithLine, ShownOnly, Clean, TypeOK, Entries
  <2>4. CASE pc[p] # "end"
    <3>1. ~Gives(tail)
      BY <2>1, <2>2, <2>4 DEF Begun, Saving, Gives
    <3> QED
      BY <3>1 DEF Known, WithLine, Clean
  <2> QED
    BY <2>3, <2>4
<1> QED
  BY <1>1, <1>2

\* One piece more of a line that was begun on an empty tail.
LEMMA NextPiece ==
  ASSUME TypeOK, Assigned, NEW p \in Proc, pc[p] \in {"host", "blank", "key"}, Begun(p, tail),
         Write(p)
  PROVE  Begun(p, tail)'
<1>1. /\ tail \in Seq(Pieces) /\ host[p] \in Host /\ key[p] \in Key /\ Piece(p) \in Pieces
      /\ host'[p] = host[p] /\ key'[p] = key[p] /\ pc'[p] = After[pc[p]]
  BY DEF TypeOK, Assigned, Pieces, Piece, Write, Goto
<1> DEFINE m == Len(tail)
           n == Append(tail, Piece(p))
<1>2. m = (IF pc[p] = "host" THEN 0 ELSE IF pc[p] = "blank" THEN 1 ELSE 2)
  BY DEF Begun
<1>3. ~Settled(tail)
  BY <1>1, <1>2, SpaceAssumption DEF Settled, Begun
<1>4. tail = <<>> => Piece(p) # Space
  BY <1>1, <1>2, SpaceAssumption DEF Piece
<1>5. tail' = n
  BY <1>3, <1>4 DEF Write, Extend
<1>6. Len(n) = m + 1 /\ n[m + 1] = Piece(p) /\ \A i \in 1..m : n[i] = tail[i]
  BY <1>1
<1> HIDE DEF n, m
<1>7. CASE pc[p] = "host"
  BY <1>1, <1>2, <1>5, <1>6, <1>7 DEF Begun, After, Piece
<1>8. CASE pc[p] = "blank"
  BY <1>1, <1>2, <1>5, <1>6, <1>8 DEF Begun, After, Piece, m
<1>9. CASE pc[p] = "key"
  BY <1>1, <1>2, <1>5, <1>6, <1>9 DEF Begun, After, Piece, m
<1> QED
  BY <1>7, <1>8, <1>9

LEMMA CleanStep ==
  ASSUME TypeOK, Assigned, OneSaver, OneSaver', NoneCutShort, Clean, [Next]_vars PROVE Clean'
<1>1. ASSUME NEW p \in Proc, NEW h \in Host, NEW k \in Key, CheckServerKey(p, h, k) PROVE Clean'
  <2>1. /\ UNCHANGED <<pinned, tail, cache>>
        /\ \A g \in Host : shown[g] \subseteq shown'[g]
        /\ k \in shown'[h] /\ host'[p] = h /\ key'[p] = k
        /\ pc[p] \notin Saving /\ pc'[p] \in {"read", "open"} \cup Over
        /\ \A q \in Proc \ {p} : pc'[q] = pc[q] /\ host'[q] = host[q] /\ key'[q] = key[q]
    BY <1>1 DEF CheckServerKey, Verdict, Goto, fvars, TypeOK, Over, Saving
  <2>2. pc'[p] = "refused" => cache[p].entries[h] \notin {None, k}
    BY <1>1 DEF CheckServerKey, Verdict, Goto, TypeOK
  <2>3. (ShownOnly(pinned) /\ \A q \in Proc : ShownOnly(cache[q].entries))'
    BY <2>1 DEF Clean, ShownOnly
  <2>4. Presented'
    BY <2>1 DEF Clean, Presented, Assigned
  <2>5. \A q \in Proc : Begun(q, tail)'
    BY <2>1 DEF Clean, Begun, Over
  <2>6. RefusedOnlyIfChanged'
    <3>1. ASSUME NEW q \in Proc \ {p}, pc'[q] = "refused" PROVE shown'[host'[q]] # {key'[q]}
      <4>1. shown[host[q]] # {key[q]} /\ key[q] \in shown[host[q]] /\ host[q] \in Host
        BY <2>1, <3>1 DEF Clean, RefusedOnlyIfChanged, Presented, Assigned
      <4> QED
        BY <2>1, <4>1
    <3>2. ASSUME pc'[p] = "refused" PROVE shown'[host'[p]] # {key'[p]}
      <4>1. cache[p].entries[h] \in shown'[h]
        BY <2>1, <2>2, <3>2 DEF Clean, ShownOnly
      <4> QED
        BY <2>1, <2>2, <3>2, <4>1
    <3> QED
      BY <3>1, <3>2 DEF RefusedOnlyIfChanged
  <2>7. (\A q \in Proc : pc'[q] \notin Saving) => tail' = <<>>
    BY <2>1 DEF Clean
  <2> QED
    BY <2>3, <2>4, <2>5, <2>6, <2>7 DEF Clean
<1>2. ASSUME NEW p \in Proc, Read(p) \/ ReadFails(p) PROVE Clean'
  <2>1. PICK e \in {Known, Nothing}, at \in Tick \cup {Unreadable} : Load(p, e, at)
    BY <1>2 DEF Read, ReadFails, TypeOK
  <2>2. ShownOnly(e)
    BY <2>1, CleanKnown DEF ShownOnly, Nothing
  <2>3. /\ UNCHANGED <<pinned, tail, shown, host, key>>
        /\ pc[p] = "read" /\ pc'[p] \in {"open"} \cup Over
        /\ pc'[p] = "refused" => e[host[p]] \notin {None, key[p]}
        /\ \A q \in Proc \ {p} : pc'[q] = pc[q]
        /\ \A q \in Proc : cache'[q].entries \in {e, cache[q].entries}
    BY <2>1 DEF Load, Verdict, Goto, fvars, TypeOK, Over
  <2>4. (ShownOnly(pinned) /\ \A q \in Proc : ShownOnly(cache[q].entries))'
    BY <2>2, <2>3 DEF Clean, ShownOnly
  <2>5. Presented' /\ \A q \in Proc : Begun(q, tail)'
    BY <2>3 DEF Clean, Presented, Begun, Over
  <2>6. RefusedOnlyIfChanged'
    BY <2>2, <2>3 DEF Clean, RefusedOnlyIfChanged, ShownOnly, Assigned
  <2>7. (\A q \in Proc : pc'[q] \notin Saving) => tail' = <<>>
    BY <2>3 DEF Clean, Saving
  <2> QED
    BY <2>4, <2>5, <2>6, <2>7 DEF Clean
<1>3. ASSUME NEW p \in Proc, Open(p) PROVE Clean'
  <2>1. /\ UNCHANGED <<pinned, tail, shown, host, key, cache>>
        /\ pc[p] = "open" /\ pc'[p] = "host"
        /\ \A q \in Proc \ {p} : pc'[q] = pc[q]
    BY <1>3 DEF Open, OpenToAppend, Goto, hvars, TypeOK
  <2>2. \A q \in Proc : pc[q] \notin Saving
    BY <2>1 DEF OneSaver, Saving
  <2>3. tail = <<>>
    BY <2>2 DEF Clean
  <2>4. \A q \in Proc : Begun(q, tail)'
    BY <2>1, <2>2, <2>3 DEF Begun, Saving
  <2>5. (ShownOnly(pinned) /\ \A q \in Proc : ShownOnly(cache[q].entries))'
    BY <2>1 DEF Clean, ShownOnly
  <2>6. Presented' /\ RefusedOnlyIfChanged'
    BY <2>1 DEF Clean, Presented, RefusedOnlyIfChanged
  <2> QED
    BY <2>1, <2>3, <2>4, <2>5, <2>6 DEF Clean
<1>4. ASSUME NEW p \in Proc, Write(p) PROVE Clean'
  <2>1. /\ pc[p] \in Saving /\ pc'[p] = After[pc[p]]
        /\ UNCHANGED <<shown, host, key, cache>>
        /\ \A q \in Proc \ {p} : pc'[q] = pc[q] /\ pc[q] \notin Saving
    BY <1>4 DEF Write, Goto, hvars, TypeOK, OneSaver
  <2>2. Presented' /\ RefusedOnlyIfChanged'
    BY <2>1 DEF Clean, Presented, RefusedOnlyIfChanged, Saving, After
  <2>3. \A q \in Proc \ {p} : Begun(q, tail)'
    BY <2>1 DEF Begun, Saving
  <2>4. \A q \in Proc : ShownOnly(cache[q].entries)'
    BY <2>1 DEF Clean, ShownOnly
  <2>5. CASE pc[p] = "end"
    <3>1. pinned' = Known /\ tail' = <<>> /\ pc'[p] = "accepted"
      BY <1>4, <2>1, <2>5 DEF Write, After
    <3>2. ShownOnly(pinned)'
      BY <2>1, <3>1, CleanKnown DEF ShownOnly
    <3>3. Begun(p, tail)'
      BY <3>1 DEF Begun
    <3> QED
      BY <2>2, <2>3, <2>4, <3>1, <3>2, <3>3 DEF Clean
  <2>6. CASE pc[p] # "end"
    <3>1. pc[p] \in {"host", "blank", "key"} /\ pc'[p] \in Saving /\ pinned' = pinned
      BY <1>4, <2>1, <2>6 DEF Saving, After, Write
    <3>2. Begun(p, tail)'
      BY <1>4, <3>1, NextPiece DEF Clean
    <3>3. ShownOnly(pinned)'
      BY <2>1, <3>1 DEF Clean, ShownOnly
    <3> QED
      BY <2>2, <2>3, <2>4, <3>1, <3>2, <3>3 DEF Clean
  <2> QED
    BY <2>5, <2>6
<1>5. ASSUME NEW p \in Proc, SaveFails(p) \/ End(p) PROVE Clean'
  <2>1. /\ pc[p] \notin Saving /\ pc'[p] \in {"idle", "accepted"}
        /\ UNCHANGED <<pinned, tail, shown>>
        /\ \A q \in Proc \ {p} : pc'[q] = pc[q] /\ host'[q] = host[q] /\ key'[q] = key[q]
        /\ \A q \in Proc : cache'[q] \in {Empty, cache[q]}
        /\ pc'[p] # "idle" => pc[p] # "idle" /\ host'[p] = host[p] /\ key'[p] = key[p]
    BY <1>5 DEF SaveFails, End, Goto, fvars, hvars, TypeOK, NoneCutShort
  <2>2. (ShownOnly(pinned) /\ \A q \in Proc : ShownOnly(cache[q].entries))'
    BY <2>1 DEF Clean, ShownOnly, Empty, Nothing
  <2>3. Presented' /\ \A q \in Proc : Begun(q, tail)'
    BY <2>1 DEF Clean, Presented, Begun
  <2>4. RefusedOnlyIfChanged'
    BY <2>1 DEF Clean, RefusedOnlyIfChanged
  <2>5. (\A q \in Proc : pc'[q] \notin Saving) => tail' = <<>>
    BY <2>1 DEF Clean
  <2> QED
    BY <2>1, <2>2, <2>3, <2>4, <2>5 DEF Clean
<1>6. CASE TickOver \/ UNCHANGED vars
  <2>1. UNCHANGED <<pinned, tail, shown, host, key, cache, pc>>
    BY <1>6 DEF TickOver, fvars, hvars, vars
  <2> QED
    BY <2>1 DEF Clean, ShownOnly, Presented, Begun, RefusedOnlyIfChanged
<1> QED
  BY <1>1, <1>2, <1>3, <1>4, <1>5, <1>6 DEF Next

\* While saves neither overlap nor are cut short, a host is refused only if it has presented
\* another key before: what the warning says is false after one of the two, and only then.
THEOREM RefusedRightly ==
  Spec /\ []OneSaver /\ [][NoneCutShort]_vars => []RefusedOnlyIfChanged
<1>1. Init => Clean
  <2> SUFFICES ASSUME Init PROVE Clean
    OBVIOUS
  <2> QED
    BY DEF Init, Clean, ShownOnly, Nothing, Empty, Presented, Begun, RefusedOnlyIfChanged
<1>2. IInv /\ OneSaver /\ OneSaver' /\ Clean /\ [NoneCutShort]_vars /\ [Next]_vars => Clean'
  <2>1. ASSUME IInv, OneSaver, OneSaver', Clean, NoneCutShort, [Next]_vars PROVE Clean'
    BY <2>1, CleanStep DEF IInv
  <2>2. ASSUME Clean, UNCHANGED vars PROVE Clean'
    BY <2>2 DEF vars, Clean, ShownOnly, Presented, Begun, RefusedOnlyIfChanged
  <2> QED
    BY <2>1, <2>2
<1>3. Clean => RefusedOnlyIfChanged
  BY DEF Clean
<1> QED
  BY <1>1, <1>2, <1>3, Inductive, PTL DEF Spec
=============================================================================
