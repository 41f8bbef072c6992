------------------------ MODULE LandingZone_proofs ------------------------
(***************************************************************************)
(* Machine-checked facts about LandingZone, for any number of instances,   *)
(* uploads, names and rows: types, no file lost, and the bounds on         *)
(* plaintext copies and on rows published again.                           *)
(***************************************************************************)
EXTENDS LandingZone, FiniteSetTheorems, TLAPS

Busy == Phase \ {"asleep", "walking"}

\* An instance in the middle of a blob has one, and one that has downloaded
\* has its content and a temporary file.
Sound(i) ==
    /\ monitor[i].phase \in Busy => monitor[i].blob \in Uploads
    /\ monitor[i].phase \in {"read", "vault", "publish", "delete"}
          => monitor[i].content \in Uploads
    /\ monitor[i].phase \in {"read", "vault", "publish"} => temp[i] > 0

TypeInv == TypeOK /\ \A i \in Instances : Sound(i)

LEMMA Numbers == MaxFaults \in Nat
BY LandingAssumption

LEMMA FaultType ==
    ASSUME TypeOK, NEW k, Fault(k)
    PROVE  faults' \in 0..MaxFaults
BY Numbers DEF TypeOK, Fault

LEMMA AsleepType == Asleep \in MonitorState
BY DEF Asleep, MonitorState, Phase

\* A step of one instance leaves the others sound.
LEMMA OneMoves ==
    ASSUME TypeInv, NEW i \in Instances, NEW s \in MonitorState, Becomes(i, s),
           temp' \in [Instances -> Nat], \A j \in Instances \ {i} : temp'[j] = temp[j],
           s.phase \in Busy => s.blob \in Uploads,
           s.phase \in {"read", "vault", "publish", "delete"} => s.content \in Uploads,
           s.phase \in {"read", "vault", "publish"} => temp'[i] > 0
    PROVE  monitor' \in [Instances -> MonitorState] /\ \A j \in Instances : Sound(j)'
<1>1. monitor' = [monitor EXCEPT ![i] = s] /\ monitor \in [Instances -> MonitorState]
  BY DEF Becomes, TypeInv, TypeOK
<1>2. ASSUME NEW j \in Instances PROVE Sound(j)'
  BY <1>1, <1>2 DEF Sound, TypeInv
<1> QED BY <1>1, <1>2

LEMMA EscapesType ==
    ASSUME TypeInv, NEW i \in Instances, Escapes(i), temp' \in [Instances -> Nat],
           \A j \in Instances \ {i} : temp'[j] = temp[j]
    PROVE  monitor' \in [Instances -> MonitorState] /\ \A j \in Instances : Sound(j)'
BY AsleepType, OneMoves DEF Escapes, Asleep, Busy

LEMMA GoesOnType ==
    ASSUME TypeInv, NEW i \in Instances, GoesOn(i), UNCHANGED temp
    PROVE  monitor' \in [Instances -> MonitorState] /\ \A j \in Instances : Sound(j)'
<1> DEFINE s == [Asleep EXCEPT !.phase = "walking", !.listed = monitor[i].listed]
<1>1. s.phase = "walking" BY DEF Asleep
<1>2. s \in MonitorState BY DEF Asleep, MonitorState, Phase, TypeInv, TypeOK
<1>3. Becomes(i, s) BY DEF GoesOn
<1> HIDE DEF s
<1> QED BY <1>1, <1>2, <1>3, OneMoves DEF Busy, TypeInv, TypeOK

LEMMA GoesToType ==
    ASSUME TypeInv, NEW i \in Instances, NEW p \in Busy, GoesTo(i, p),
           monitor[i].phase \in Busy,
           temp' \in [Instances -> Nat], \A j \in Instances \ {i} : temp'[j] = temp[j],
           p \in {"vault", "publish", "delete"} => monitor[i].content \in Uploads,
           p # "read", p \in {"vault", "publish"} => temp'[i] > 0
    PROVE  monitor' \in [Instances -> MonitorState] /\ \A j \in Instances : Sound(j)'
<1> DEFINE s == [monitor[i] EXCEPT !.phase = p]
<1>1. monitor[i] \in MonitorState /\ monitor[i].blob \in Uploads
  BY DEF TypeInv, TypeOK, Sound
<1>2. s.phase = p /\ s.blob = monitor[i].blob /\ s.content = monitor[i].content /\ s \in MonitorState
  BY <1>1 DEF MonitorState, Busy
<1>3. Becomes(i, s) BY DEF GoesTo
<1> HIDE DEF s
<1> QED BY <1>1, <1>2, <1>3, OneMoves

\* What the loop reads of the bucket and of its own state.
LEMMA Facts ==
    ASSUME TypeInv, NEW i \in Instances, monitor[i].phase \in Busy
    PROVE  /\ monitor[i] \in MonitorState /\ monitor[i].blob \in Uploads
           /\ NameOf[monitor[i].blob] \in Names
           /\ Current(i) \in Uploads \cup {NoUpload}
           /\ Removed(i) \in [Names -> Uploads \cup {NoUpload}]
           /\ monitor[i].phase \in {"read", "vault", "publish"} => temp[i] \in Nat \ {0}
<1>1. monitor[i] \in MonitorState /\ monitor[i].blob \in Uploads
  BY DEF TypeInv, TypeOK, Sound
<1>2. NameOf[monitor[i].blob] \in Names BY <1>1, LandingAssumption
<1>3. monitor[i].phase \in {"read", "vault", "publish"} => temp[i] \in Nat \ {0}
  BY DEF TypeInv, TypeOK, Sound
<1> QED BY <1>1, <1>2, <1>3 DEF Current, Removed, TypeInv, TypeOK

-----------------------------------------------------------------------------
(* Types, phase by phase                                                   *)

LEMMA UploadType ==
    ASSUME TypeInv, NEW u \in Uploads, Upload(u)
    PROVE  TypeInv'
<1>1. NameOf[u] \in Names BY LandingAssumption
<1>2. inbound[NameOf[u]] \in Uploads \cup {NoUpload} BY <1>1 DEF TypeInv, TypeOK
<1>3. TypeOK' BY <1>1, <1>2 DEF Upload, TypeInv, TypeOK
<1>4. \A j \in Instances : Sound(j)' BY DEF Upload, TypeInv, Sound
<1> QED BY <1>3, <1>4 DEF TypeInv

LEMMA PollType ==
    ASSUME TypeInv, NEW i \in Instances, Poll(i) \/ Sleep(i) \/ \E u \in Uploads : Take(i, u)
    PROVE  TypeInv'
<1>t. TypeOK /\ monitor[i] \in MonitorState BY DEF TypeInv, TypeOK
<1>1. CASE Poll(i)
  <2> DEFINE s == [Asleep EXCEPT !.phase = "walking", !.listed = {u \in Uploads : inbound[NameOf[u]] = u}]
  <2>1. s \in MonitorState BY DEF Asleep, MonitorState, Phase
  <2>2. s.phase = "walking" BY DEF Asleep
  <2>3. Becomes(i, s) /\ UNCHANGED temp BY <1>1 DEF Poll
  <2> HIDE DEF s
  <2>4. monitor' \in [Instances -> MonitorState] /\ \A j \in Instances : Sound(j)'
    BY <1>t, <2>1, <2>2, <2>3, OneMoves DEF Busy, TypeOK
  <2> QED BY <1>1, <1>t, <2>4 DEF Poll, bucket, TypeInv, TypeOK
<1>2. CASE Sleep(i)
  <2>1. monitor' \in [Instances -> MonitorState] /\ \A j \in Instances : Sound(j)'
    BY <1>2, <1>t, EscapesType DEF Sleep, Escapes, TypeOK
  <2> QED BY <1>2, <1>t, <2>1 DEF Sleep, bucket, TypeInv, TypeOK
<1>3. ASSUME NEW u \in Uploads, Take(i, u)
      PROVE  TypeInv'
  <2>1. PICK fields \in {Registered, {Email}} :
           /\ Becomes(i, [Asleep EXCEPT !.phase = "download",
                             !.listed = monitor[i].listed \ {u}, !.blob = u, !.fields = fields])
           /\ IF fields = Registered THEN UNCHANGED faults ELSE Fault("registry")
    BY <1>3 DEF Take
  <2> DEFINE s == [Asleep EXCEPT !.phase = "download",
                             !.listed = monitor[i].listed \ {u}, !.blob = u, !.fields = fields]
  <2>2. fields \subseteq Fields BY LandingAssumption
  <2>3. s \in MonitorState
    BY <1>t, <2>2 DEF Asleep, MonitorState, Phase
  <2>4. s.phase = "download" /\ s.blob = u BY DEF Asleep
  <2>5. Becomes(i, s) BY <2>1
  <2> HIDE DEF s
  <2>6. monitor' \in [Instances -> MonitorState] /\ \A j \in Instances : Sound(j)'
    BY <1>3, <1>t, <2>3, <2>4, <2>5, OneMoves DEF Take, TypeOK
  <2>7. faults' \in 0..MaxFaults BY <1>t, <2>1, FaultType DEF TypeOK
  <2> QED BY <1>3, <1>t, <2>6, <2>7 DEF Take, bucket, TypeInv, TypeOK
<1> QED BY <1>1, <1>2, <1>3

LEMMA DownloadType ==
    ASSUME TypeInv, NEW i \in Instances, Download(i) \/ DownloadFails(i)
    PROVE  TypeInv'
<1>t. TypeOK /\ monitor[i] \in MonitorState BY DEF TypeInv, TypeOK
<1>b. monitor[i].phase = "download" /\ monitor[i].phase \in Busy
  BY DEF Download, DownloadFails, Busy, Phase
<1>f. /\ monitor[i].blob \in Uploads /\ Current(i) \in Uploads \cup {NoUpload}
  BY <1>b, Facts
<1>1. CASE Download(i)
  <2> DEFINE s == [monitor[i] EXCEPT !.phase = "read", !.content = Current(i)]
  <2>1. Current(i) \in Uploads BY <1>1, <1>f DEF Download
  <2>2. s \in MonitorState BY <1>t, <2>1 DEF MonitorState, Phase
  <2>3. s.phase = "read" /\ s.blob = monitor[i].blob /\ s.content = Current(i)
    BY <1>t DEF MonitorState
  <2>4. Becomes(i, s) BY <1>1 DEF Download
  <2> HIDE DEF s
  <2>5. /\ temp' \in [Instances -> Nat] /\ temp'[i] > 0
        /\ \A j \in Instances \ {i} : temp'[j] = temp[j]
    BY <1>1, <1>t DEF Download, TypeOK
  <2>6. monitor' \in [Instances -> MonitorState] /\ \A j \in Instances : Sound(j)'
    BY <1>f, <2>1, <2>2, <2>3, <2>4, <2>5, OneMoves
  <2> QED BY <1>1, <1>t, <2>5, <2>6 DEF Download, bucket, TypeInv, TypeOK
<1>2. CASE DownloadFails(i)
  <2>1. /\ temp' \in [Instances -> Nat]
        /\ \A j \in Instances \ {i} : temp'[j] = temp[j]
    BY <1>2, <1>t DEF DownloadFails, TypeOK
  <2>2. monitor' \in [Instances -> MonitorState] /\ \A j \in Instances : Sound(j)'
    BY <1>2, <1>b, <2>1, GoesToType DEF DownloadFails, Busy, Phase
  <2>3. faults' \in 0..MaxFaults BY <1>2, <1>t, FaultType DEF DownloadFails, TypeOK
  <2> QED BY <1>2, <1>t, <2>1, <2>2, <2>3 DEF DownloadFails, bucket, TypeInv, TypeOK
<1> QED BY <1>1, <1>2

LEMMA ReadType ==
    ASSUME TypeInv, NEW i \in Instances, Read(i) \/ Rejected(i)
    PROVE  TypeInv'
<1>t. TypeOK /\ monitor[i] \in MonitorState BY DEF TypeInv, TypeOK
<1>b. /\ monitor[i].phase = "read" /\ monitor[i].phase \in Busy
      /\ monitor[i].content \in Uploads /\ temp[i] \in Nat \ {0}
  BY Facts DEF Read, Rejected, Busy, Phase, TypeInv, Sound
<1>r. recorded' \subseteq Uploads BY <1>b, <1>t DEF Read, Rejected, MayRecord, TypeOK
<1>1. CASE Read(i)
  <2>1. monitor' \in [Instances -> MonitorState] /\ \A j \in Instances : Sound(j)'
    BY <1>1, <1>b, <1>t, GoesToType DEF Read, Busy, Phase, TypeOK
  <2> QED BY <1>1, <1>t, <1>r, <2>1 DEF Read, bucket, TypeInv, TypeOK
<1>2. CASE Rejected(i)
  <2>1. /\ temp' \in [Instances -> Nat]
        /\ \A j \in Instances \ {i} : temp'[j] = temp[j]
    BY <1>2, <1>b, <1>t DEF Rejected, Cleanup, TypeOK
  <2>2. monitor' \in [Instances -> MonitorState] /\ \A j \in Instances : Sound(j)'
    BY <1>2, <1>b, <2>1, GoesToType DEF Rejected, Busy, Phase
  <2> QED BY <1>2, <1>t, <1>r, <2>1, <2>2 DEF Rejected, bucket, TypeInv, TypeOK
<1> QED BY <1>1, <1>2

LEMMA VaultType ==
    ASSUME TypeInv, NEW i \in Instances,
           VaultFails(i) \/ \E kept \in SUBSET Rows : ProcessRows(i, kept)
    PROVE  TypeInv'
<1>t. TypeOK /\ monitor[i] \in MonitorState BY DEF TypeInv, TypeOK
<1>b. /\ monitor[i].phase = "vault" /\ monitor[i].phase \in Busy
      /\ monitor[i].content \in Uploads /\ monitor[i].blob \in Uploads /\ temp[i] > 0
  BY DEF VaultFails, ProcessRows, Busy, Phase, TypeInv, Sound
<1>1. CASE VaultFails(i)
  <2>1. monitor' \in [Instances -> MonitorState] /\ \A j \in Instances : Sound(j)'
    BY <1>1, <1>b, <1>t, GoesToType DEF VaultFails, Busy, Phase, TypeOK
  <2>2. faults' \in 0..MaxFaults BY <1>1, <1>t, FaultType DEF VaultFails
  <2> QED BY <1>1, <1>t, <2>1, <2>2 DEF VaultFails, bucket, TypeInv, TypeOK
<1>2. ASSUME NEW kept \in SUBSET Rows, ProcessRows(i, kept)
      PROVE  TypeInv'
  <2> DEFINE s == [monitor[i] EXCEPT !.phase = "publish", !.left = kept]
  <2>1. s \in MonitorState BY <1>t DEF MonitorState, Phase
  <2>2. s.phase = "publish" /\ s.blob = monitor[i].blob /\ s.content = monitor[i].content
    BY <1>t DEF MonitorState
  <2>3. Becomes(i, s) BY <1>2 DEF ProcessRows
  <2> HIDE DEF s
  <2>4. monitor' \in [Instances -> MonitorState] /\ \A j \in Instances : Sound(j)'
    BY <1>2, <1>t, <1>b, <2>1, <2>2, <2>3, OneMoves DEF ProcessRows, TypeOK
  <2>5. faults' \in 0..MaxFaults BY <1>2, <1>t, FaultType DEF ProcessRows, TypeOK
  <2>6. skipped' \subseteq Rows BY <1>2, <1>t DEF ProcessRows, RowsIn, TypeOK
  <2>7. {<<i, row>> : row \in kept} \subseteq Instances \X Rows OBVIOUS
  <2>8. reports' \subseteq Instances \X Rows BY <1>2, <1>t, <2>7 DEF ProcessRows, TypeOK
  <2> QED BY <1>2, <1>t, <2>4, <2>5, <2>6, <2>8 DEF ProcessRows, bucket, TypeInv, TypeOK
<1> QED BY <1>1, <1>2

LEMMA PublishType ==
    ASSUME TypeInv, NEW i \in Instances,
           \/ \E row \in Rows : PublishRow(i, row)
           \/ Published(i)
           \/ \E landed \in SUBSET Rows : PublishFails(i, landed)
    PROVE  TypeInv'
<1>t. TypeOK /\ monitor[i] \in MonitorState BY DEF TypeInv, TypeOK
<1>b. /\ monitor[i].phase = "publish" /\ monitor[i].phase \in Busy
      /\ monitor[i].content \in Uploads /\ monitor[i].blob \in Uploads
      /\ temp[i] \in Nat /\ temp[i] > 0
  BY DEF PublishRow, Published, PublishFails, Busy, Phase, TypeInv, TypeOK, Sound
<1>1. ASSUME NEW row \in Rows, PublishRow(i, row)
      PROVE  TypeInv'
  <2> DEFINE s == [monitor[i] EXCEPT !.left = monitor[i].left \ {row}]
  <2>1. s \in MonitorState BY <1>t DEF MonitorState
  <2>2. s.phase = "publish" /\ s.blob = monitor[i].blob /\ s.content = monitor[i].content
    BY <1>t, <1>b DEF MonitorState
  <2>3. Becomes(i, s) BY <1>1 DEF PublishRow
  <2> HIDE DEF s
  <2>4. monitor' \in [Instances -> MonitorState] /\ \A j \in Instances : Sound(j)'
    BY <1>1, <1>t, <1>b, <2>1, <2>2, <2>3, OneMoves DEF PublishRow, TypeOK
  <2> QED BY <1>1, <1>t, <2>4 DEF PublishRow, bucket, TypeInv, TypeOK
<1>2. CASE Published(i)
  <2>1. /\ temp' \in [Instances -> Nat]
        /\ \A j \in Instances \ {i} : temp'[j] = temp[j]
    BY <1>2, <1>b, <1>t DEF Published, Cleanup, TypeOK
  <2>2. monitor' \in [Instances -> MonitorState] /\ \A j \in Instances : Sound(j)'
    BY <1>2, <1>b, <2>1, GoesToType DEF Published, Busy, Phase
  <2> QED BY <1>2, <1>t, <1>b, <2>1, <2>2 DEF Published, bucket, TypeInv, TypeOK
<1>3. ASSUME NEW landed \in SUBSET Rows, PublishFails(i, landed)
      PROVE  TypeInv'
  <2>1. monitor' \in [Instances -> MonitorState] /\ \A j \in Instances : Sound(j)'
    BY <1>3, <1>b, <1>t, GoesToType DEF PublishFails, Busy, Phase, TypeOK
  <2>2. faults' \in 0..MaxFaults BY <1>3, <1>t, FaultType DEF PublishFails
  <2>3. times' \in [Rows -> Nat] BY <1>3, <1>t DEF PublishFails, TypeOK
  <2>4. recorded' \subseteq Uploads BY <1>3, <1>t, <1>b DEF PublishFails, MayRecord, TypeOK
  <2> QED BY <1>3, <1>t, <2>1, <2>2, <2>3, <2>4 DEF PublishFails, bucket, TypeInv, TypeOK
<1> QED BY <1>1, <1>2, <1>3

LEMMA EndType ==
    ASSUME TypeInv, NEW i \in Instances,
           Delete(i) \/ DeleteFails(i) \/ MoveCopies(i) \/ MoveDeletes(i) \/ MoveFails(i)
    PROVE  TypeInv'
<1>t. TypeOK BY DEF TypeInv
<1>b. monitor[i].phase \in Busy
  BY DEF Delete, DeleteFails, MoveCopies, MoveDeletes, MoveFails, Busy, Phase
<1>f. /\ NameOf[monitor[i].blob] \in Names /\ Current(i) \in Uploads \cup {NoUpload}
      /\ Removed(i) \in [Names -> Uploads \cup {NoUpload}]
  BY <1>b, Facts
<1>1. CASE Delete(i) \/ MoveDeletes(i)
  <2>1. monitor' \in [Instances -> MonitorState] /\ \A j \in Instances : Sound(j)'
    BY <1>1, GoesOnType DEF Delete, MoveDeletes
  <2> QED BY <1>1, <1>t, <1>f, <2>1 DEF Delete, MoveDeletes, TypeInv, TypeOK
<1>2. CASE DeleteFails(i)
  <2>1. monitor' \in [Instances -> MonitorState] /\ \A j \in Instances : Sound(j)'
    BY <1>2, <1>b, <1>t, GoesToType DEF DeleteFails, Busy, Phase, TypeOK
  <2>2. faults' \in 0..MaxFaults BY <1>2, <1>t, FaultType DEF DeleteFails, TypeOK
  <2> QED BY <1>2, <1>t, <1>f, <2>1, <2>2 DEF DeleteFails, TypeInv, TypeOK
<1>3. ASSUME CopyTo(i), Current(i) # NoUpload
      PROVE  failed' \in [Names -> Uploads \cup {NoUpload}] /\ moved' \subseteq Uploads
  BY <1>3, <1>t, <1>f DEF CopyTo, TypeOK
<1>4. CASE MoveCopies(i)
  <2>1. monitor' \in [Instances -> MonitorState] /\ \A j \in Instances : Sound(j)'
    BY <1>4, <1>b, <1>t, GoesToType DEF MoveCopies, Busy, Phase, TypeOK
  <2> QED BY <1>3, <1>4, <1>t, <2>1 DEF MoveCopies, TypeInv, TypeOK
<1>5. CASE MoveFails(i)
  <2>1. monitor' \in [Instances -> MonitorState] /\ \A j \in Instances : Sound(j)'
    BY <1>5, <1>t, EscapesType DEF MoveFails, TypeOK
  <2>2. faults' \in 0..MaxFaults BY <1>5, <1>t, FaultType DEF MoveFails, TypeOK
  <2>3. /\ failed' \in [Names -> Uploads \cup {NoUpload}] /\ moved' \subseteq Uploads
        /\ inbound' \in [Names -> Uploads \cup {NoUpload}]
    BY <1>3, <1>5, <1>t, <1>f DEF MoveFails, TypeOK
  <2> QED BY <1>5, <1>t, <2>1, <2>2, <2>3 DEF MoveFails, TypeInv, TypeOK
<1> QED BY <1>1, <1>2, <1>4, <1>5

LEMMA OutsideType ==
    ASSUME TypeInv, NEW i \in Instances,
           \/ InstanceDies(i)
           \/ \E row \in Rows : ReportSink(i, row) \/ ReportSinkFails(i, row)
    PROVE  TypeInv'
<1>t. TypeOK BY DEF TypeInv
<1>1. CASE InstanceDies(i)
  <2>1. /\ temp' \in [Instances -> Nat]
        /\ \A j \in Instances \ {i} : temp'[j] = temp[j]
    BY <1>1, <1>t DEF InstanceDies, TypeOK
  <2>2. monitor' \in [Instances -> MonitorState] /\ \A j \in Instances : Sound(j)'
    BY <1>1, <2>1, EscapesType DEF InstanceDies, Escapes
  <2>3. faults' \in 0..MaxFaults BY <1>1, <1>t, FaultType DEF InstanceDies
  <2> QED BY <1>1, <1>t, <2>1, <2>2, <2>3 DEF InstanceDies, bucket, TypeInv, TypeOK
<1>2. ASSUME NEW row \in Rows, ReportSink(i, row) \/ ReportSinkFails(i, row)
      PROVE  TypeInv'
  <2>1. faults' \in 0..MaxFaults
    BY <1>2, <1>t, FaultType DEF ReportSink, ReportSinkFails, TypeOK
  <2>2. \A j \in Instances : Sound(j)'
    BY <1>2 DEF ReportSink, ReportSinkFails, Sound, TypeInv
  <2> QED BY <1>2, <1>t, <2>1, <2>2 DEF ReportSink, ReportSinkFails, bucket, TypeInv, TypeOK
<1> QED BY <1>1, <1>2

LEMMA NextType ==
    ASSUME TypeInv, [Next]_vars
    PROVE  TypeInv'
<1>1. CASE UNCHANGED vars BY <1>1 DEF vars, TypeInv, TypeOK, Sound
<1>2. ASSUME NEW i \in Instances, Step(i)
      PROVE  TypeInv'
  BY <1>2, PollType, DownloadType, ReadType, VaultType, PublishType, EndType DEF Step
<1> QED BY <1>1, <1>2, UploadType, OutsideType DEF Next

LEMMA InitType == Init => TypeInv
BY AsleepType, Numbers DEF Init, TypeInv, TypeOK, Sound, Asleep, Busy

\* Buckets, monitors, temporary files and reports keep their types; in
\* particular no cleanup removes a file that is not there.
THEOREM TypeCorrect == Spec => []TypeOK
<1>1. Init => TypeInv BY InitType
<1>2. TypeInv /\ [Next]_vars => TypeInv' BY NextType
<1>3. TypeInv => TypeOK BY DEF TypeInv
<1> QED BY <1>1, <1>2, <1>3, PTL DEF Spec

-----------------------------------------------------------------------------
(* Nothing is lost                                                         *)

\* u is not in inbound/ (any more).
Gone(u) == inbound[NameOf[u]] # u

BucketSound ==
    \A n \in Names : inbound[n] # NoUpload => inbound[n] \in uploaded /\ NameOf[inbound[n]] = n

\* An instance works on a blob that was uploaded.  What it downloaded is that
\* blob, unless the blob is gone; before it deletes the blob it has ingested what
\* it downloaded or copied the blob to failed/.
Tracks(i) ==
    /\ monitor[i].listed \subseteq uploaded
    /\ monitor[i].phase \in Busy => monitor[i].blob \in uploaded
    /\ monitor[i].phase \in {"read", "vault", "publish", "delete"}
          => monitor[i].content = monitor[i].blob \/ Gone(monitor[i].blob)
    /\ monitor[i].phase = "publish"
          => \A row \in RowsIn(monitor[i].content) :
                times[row] > 0 \/ row \in skipped \/ row \in monitor[i].left
    /\ monitor[i].phase = "delete" => Ingested(monitor[i].content)
    /\ monitor[i].phase = "moved" => monitor[i].blob \in moved \/ Gone(monitor[i].blob)

LossInv ==
    /\ BucketSound
    /\ \A i \in Instances : Tracks(i)
    /\ FilesKept

\* An uploaded object that is gone does not come back, and the histories grow.
HistoryGrows ==
    /\ uploaded \subseteq uploaded' /\ replaced \subseteq replaced' /\ moved \subseteq moved'
    /\ recorded \subseteq recorded' /\ skipped \subseteq skipped'
    /\ \A row \in Rows : times[row] > 0 => times'[row] > 0
    /\ \A u \in uploaded : Gone(u) => Gone(u)'

LEMMA TracksStays ==
    ASSUME TypeInv, HistoryGrows, NEW j \in Instances, Tracks(j), UNCHANGED monitor[j]
    PROVE  Tracks(j)'
BY DEF Tracks, HistoryGrows, Ingested, RowsIn, TypeInv, TypeOK, Sound, Busy, Phase

\* A step that takes nothing out of inbound/ loses nothing.
LEMMA KeepsInbound ==
    ASSUME TypeInv, LossInv, NEW i \in Instances, HistoryGrows, UNCHANGED <<inbound, uploaded>>,
           \A j \in Instances \ {i} : monitor'[j] = monitor[j], Tracks(i)'
    PROVE  LossInv'
<1>1. BucketSound' BY DEF LossInv, BucketSound
<1>2. \A j \in Instances : Tracks(j)' BY TracksStays DEF LossInv
<1>3. FilesKept' BY DEF LossInv, FilesKept, HistoryGrows, Ingested, RowsIn
<1> QED BY <1>1, <1>2, <1>3 DEF LossInv

\* Inbound/ and the rest of the bucket apart, most steps leave the histories
\* alone but for these.
LEMMA Quiet ==
    ASSUME TypeInv, UNCHANGED <<inbound, uploaded, replaced>>,
           moved \subseteq moved', recorded \subseteq recorded', skipped \subseteq skipped',
           \A row \in Rows : times[row] > 0 => times'[row] > 0
    PROVE  HistoryGrows
BY DEF HistoryGrows, Gone

\* The loop goes on with another blob, or ends.
LEMMA RestsTracked ==
    ASSUME TypeInv, LossInv, NEW i \in Instances, Escapes(i) \/ GoesOn(i), uploaded \subseteq uploaded'
    PROVE  Tracks(i)' /\ \A j \in Instances \ {i} : monitor'[j] = monitor[j]
<1>1. monitor \in [Instances -> MonitorState] BY DEF TypeInv, TypeOK
<1>2. CASE Escapes(i)
  BY <1>1, <1>2 DEF Escapes, Becomes, Asleep, Tracks, Busy
<1>3. CASE GoesOn(i)
  <2> DEFINE s == [Asleep EXCEPT !.phase = "walking", !.listed = monitor[i].listed]
  <2>1. s.phase = "walking" /\ s.listed = monitor[i].listed BY DEF Asleep
  <2>2. Becomes(i, s) BY <1>3 DEF GoesOn
  <2> HIDE DEF s
  <2> QED BY <1>1, <2>1, <2>2 DEF Becomes, Tracks, Busy, LossInv
<1> QED BY <1>2, <1>3

LEMMA GoesToFields ==
    ASSUME TypeInv, NEW i \in Instances, NEW p, GoesTo(i, p)
    PROVE  /\ monitor'[i].phase = p /\ monitor'[i].blob = monitor[i].blob
           /\ monitor'[i].content = monitor[i].content /\ monitor'[i].listed = monitor[i].listed
           /\ monitor'[i].left = monitor[i].left
           /\ \A j \in Instances \ {i} : monitor'[j] = monitor[j]
<1> DEFINE s == [monitor[i] EXCEPT !.phase = p]
<1>1. monitor \in [Instances -> MonitorState] /\ monitor[i] \in MonitorState BY DEF TypeInv, TypeOK
<1>2. /\ s.phase = p /\ s.blob = monitor[i].blob /\ s.content = monitor[i].content
      /\ s.listed = monitor[i].listed /\ s.left = monitor[i].left
  BY <1>1 DEF MonitorState
<1>3. monitor' = [monitor EXCEPT ![i] = s] BY DEF GoesTo, Becomes
<1> HIDE DEF s
<1> QED BY <1>1, <1>2, <1>3

LEMMA UploadLoses ==
    ASSUME TypeInv, LossInv, NEW u \in Uploads, Upload(u)
    PROVE  LossInv'
<1>1. NameOf[u] \in Names /\ u # NoUpload BY LandingAssumption
<1>2. /\ u \notin uploaded /\ uploaded' = uploaded \cup {u}
      /\ inbound' = [inbound EXCEPT ![NameOf[u]] = u] /\ inbound \in [Names -> Uploads \cup {NoUpload}]
      /\ replaced' = replaced \cup ({inbound[NameOf[u]]} \ {NoUpload})
      /\ UNCHANGED <<monitor, times, recorded, moved, skipped>>
  BY DEF Upload, TypeInv, TypeOK
<1>3. uploaded \subseteq Uploads BY DEF TypeInv, TypeOK
<1>4. \A v \in Uploads : NameOf[v] \in Names BY LandingAssumption
<1>5. HistoryGrows BY <1>1, <1>2, <1>3, <1>4 DEF HistoryGrows, Gone
<1>6. BucketSound' BY <1>1, <1>2 DEF LossInv, BucketSound
<1>7. \A j \in Instances : Tracks(j)' BY <1>2, <1>5, TracksStays DEF LossInv
<1>8. FilesKept'
  <2> SUFFICES ASSUME NEW v \in uploaded' \ replaced'
               PROVE  inbound'[NameOf[v]] = v \/ v \in moved' \/ Ingested(v)'
    BY DEF FilesKept
  <2>1. CASE v = u BY <1>1, <1>2, <2>1
  <2>2. CASE v # u
    <3>1. v \in uploaded \ replaced /\ v \in Uploads /\ v # NoUpload
      BY <1>2, <1>3, <2>2, LandingAssumption
    <3>2. inbound[NameOf[v]] = v \/ v \in moved \/ Ingested(v) BY <3>1 DEF LossInv, FilesKept
    <3>3. inbound[NameOf[v]] = v => inbound'[NameOf[v]] = v
      BY <1>2, <1>4, <3>1
    <3>4. Ingested(v) => Ingested(v)' BY <1>2 DEF Ingested
    <3> QED BY <1>2, <3>2, <3>3, <3>4
  <2> QED BY <2>1, <2>2
<1> QED BY <1>6, <1>7, <1>8 DEF LossInv

LEMMA PollLoses ==
    ASSUME TypeInv, LossInv, NEW i \in Instances,
           Poll(i) \/ Sleep(i) \/ \E u \in Uploads : Take(i, u)
    PROVE  LossInv'
<1>t. monitor \in [Instances -> MonitorState] /\ Tracks(i) BY DEF TypeInv, TypeOK, LossInv
<1>q. HistoryGrows /\ UNCHANGED <<inbound, uploaded>>
  BY Quiet DEF Poll, Sleep, Take, bucket
<1>1. CASE Poll(i)
  <2> DEFINE s == [Asleep EXCEPT !.phase = "walking", !.listed = {u \in Uploads : inbound[NameOf[u]] = u}]
  <2>1. \A u \in Uploads : inbound[NameOf[u]] = u => u \in uploaded
    BY LandingAssumption DEF LossInv, BucketSound
  <2>2. s.phase = "walking" /\ s.listed \subseteq uploaded BY <2>1 DEF Asleep
  <2>3. Becomes(i, s) BY <1>1 DEF Poll
  <2> HIDE DEF s
  <2>4. Tracks(i)' /\ \A j \in Instances \ {i} : monitor'[j] = monitor[j]
    BY <1>t, <1>q, <2>2, <2>3 DEF Becomes, Tracks, Busy
  <2> QED BY <1>q, <2>4, KeepsInbound
<1>2. CASE Sleep(i)
  BY <1>q, <1>2, RestsTracked, KeepsInbound DEF Sleep, Escapes
<1>3. ASSUME NEW u \in Uploads, Take(i, u)
      PROVE  LossInv'
  <2>1. PICK fields : Becomes(i, [Asleep EXCEPT !.phase = "download",
                             !.listed = monitor[i].listed \ {u}, !.blob = u, !.fields = fields])
    BY <1>3 DEF Take
  <2> DEFINE s == [Asleep EXCEPT !.phase = "download",
                             !.listed = monitor[i].listed \ {u}, !.blob = u, !.fields = fields]
  <2>2. s.phase = "download" /\ s.blob = u /\ s.listed = monitor[i].listed \ {u} BY DEF Asleep
  <2>3. u \in uploaded /\ monitor[i].listed \subseteq uploaded BY <1>3, <1>t DEF Take, Tracks
  <2>4. Becomes(i, s) BY <2>1
  <2> HIDE DEF s
  <2>5. Tracks(i)' /\ \A j \in Instances \ {i} : monitor'[j] = monitor[j]
    BY <1>t, <1>q, <2>2, <2>3, <2>4 DEF Becomes, Tracks
  <2> QED BY <1>q, <2>5, KeepsInbound
<1> QED BY <1>1, <1>2, <1>3

LEMMA DownloadLoses ==
    ASSUME TypeInv, LossInv, NEW i \in Instances, Download(i) \/ DownloadFails(i)
    PROVE  LossInv'
<1>t. monitor \in [Instances -> MonitorState] /\ monitor[i] \in MonitorState /\ Tracks(i)
  BY DEF TypeInv, TypeOK, LossInv
<1>q. HistoryGrows /\ UNCHANGED <<inbound, uploaded>>
  BY Quiet DEF Download, DownloadFails, bucket
<1>b. monitor[i].phase = "download" /\ monitor[i].blob \in uploaded
  BY <1>t DEF Download, DownloadFails, Tracks, Busy, Phase
<1>1. CASE Download(i)
  <2> DEFINE s == [monitor[i] EXCEPT !.phase = "read", !.content = Current(i)]
  <2>1. /\ s.phase = "read" /\ s.blob = monitor[i].blob /\ s.content = Current(i)
        /\ s.listed = monitor[i].listed
    BY <1>t DEF MonitorState
  <2>2. Becomes(i, s) BY <1>1 DEF Download
  <2> HIDE DEF s
  <2>3. Current(i) = monitor[i].blob \/ Gone(monitor[i].blob) BY DEF Current, Gone
  <2>4. Gone(monitor[i].blob) => inbound'[NameOf[s.blob]] # s.blob BY <1>q, <2>1 DEF Gone
  <2>5. Tracks(i)' /\ \A j \in Instances \ {i} : monitor'[j] = monitor[j]
    BY <1>t, <1>b, <1>q, <2>1, <2>2, <2>3, <2>4 DEF Becomes, Tracks, Gone
  <2> QED BY <1>q, <2>5, KeepsInbound
<1>2. CASE DownloadFails(i)
  <2>1. GoesTo(i, "move") BY <1>2 DEF DownloadFails
  <2>2. Tracks(i)' BY <1>t, <1>b, <1>q, <2>1, GoesToFields DEF Tracks
  <2> QED BY <1>q, <2>1, <2>2, GoesToFields, KeepsInbound
<1> QED BY <1>1, <1>2

LEMMA ReadLoses ==
    ASSUME TypeInv, LossInv, NEW i \in Instances, Read(i) \/ Rejected(i) \/ VaultFails(i)
    PROVE  LossInv'
<1>t. Tracks(i) /\ recorded \subseteq recorded' BY DEF LossInv, Read, Rejected, VaultFails, MayRecord
<1>q. HistoryGrows /\ UNCHANGED <<inbound, uploaded>>
  BY <1>t, Quiet DEF Read, Rejected, VaultFails, bucket
<1>b. /\ monitor[i].phase \in {"read", "vault"} /\ monitor[i].blob \in uploaded
      /\ monitor[i].content = monitor[i].blob \/ Gone(monitor[i].blob)
  BY <1>t DEF Read, Rejected, VaultFails, Tracks, Busy, Phase
<1>1. PICK p \in {"vault", "move"} : GoesTo(i, p) BY DEF Read, Rejected, VaultFails
<1>2. Gone(monitor[i].blob)  => inbound'[NameOf[monitor[i].blob]] # monitor[i].blob
  BY <1>q DEF Gone
<1>3. Tracks(i)' BY <1>t, <1>b, <1>q, <1>1, <1>2, GoesToFields DEF Tracks, Gone
<1> QED BY <1>q, <1>1, <1>3, GoesToFields, KeepsInbound

LEMMA RowsLose ==
    ASSUME TypeInv, LossInv, NEW i \in Instances, NEW kept \in SUBSET Rows, ProcessRows(i, kept)
    PROVE  LossInv'
<1>t. monitor \in [Instances -> MonitorState] /\ monitor[i] \in MonitorState /\ Tracks(i)
  BY DEF TypeInv, TypeOK, LossInv
<1>q. HistoryGrows /\ UNCHANGED <<inbound, uploaded, times>>
  BY Quiet DEF ProcessRows, bucket
<1>b. /\ monitor[i].phase = "vault" /\ monitor[i].blob \in uploaded
      /\ monitor[i].content = monitor[i].blob \/ Gone(monitor[i].blob)
      /\ skipped' = skipped \cup (RowsIn(monitor[i].content) \ kept)
  BY <1>t DEF ProcessRows, Tracks, Busy, Phase
<1> DEFINE s == [monitor[i] EXCEPT !.phase = "publish", !.left = kept]
<1>1. /\ s.phase = "publish" /\ s.blob = monitor[i].blob /\ s.content = monitor[i].content
      /\ s.listed = monitor[i].listed /\ s.left = kept
  BY <1>t DEF MonitorState
<1>2. Becomes(i, s) BY DEF ProcessRows
<1> HIDE DEF s
<1>3. monitor' = [monitor EXCEPT ![i] = s] BY <1>2 DEF Becomes
<1>4. monitor'[i] = s BY <1>3, <1>t
<1>5. \A row \in RowsIn(s.content) : row \in skipped' \/ row \in s.left BY <1>b, <1>1
<1>6. s.content = s.blob \/ inbound'[NameOf[s.blob]] # s.blob BY <1>b, <1>q, <1>1 DEF Gone
<1>7. s.listed \subseteq uploaded' /\ s.blob \in uploaded' BY <1>t, <1>b, <1>q, <1>1 DEF Tracks
<1>8. Tracks(i)' BY <1>1, <1>4, <1>5, <1>6, <1>7 DEF Tracks, Gone, RowsIn
<1> QED BY <1>t, <1>q, <1>3, <1>8, KeepsInbound

LEMMA PublishLoses ==
    ASSUME TypeInv, LossInv, NEW i \in Instances,
           \/ \E row \in Rows : PublishRow(i, row)
           \/ Published(i)
           \/ \E landed \in SUBSET Rows : PublishFails(i, landed)
    PROVE  LossInv'
<1>t. /\ monitor \in [Instances -> MonitorState] /\ monitor[i] \in MonitorState /\ Tracks(i)
      /\ times \in [Rows -> Nat] /\ monitor[i].content \in Uploads
  BY DEF TypeInv, TypeOK, LossInv, Sound, PublishRow, Published, PublishFails
<1>b. /\ monitor[i].phase = "publish" /\ monitor[i].blob \in uploaded
      /\ monitor[i].content = monitor[i].blob \/ Gone(monitor[i].blob)
      /\ \A row \in RowsIn(monitor[i].content) :
            times[row] > 0 \/ row \in skipped \/ row \in monitor[i].left
  BY <1>t DEF PublishRow, Published, PublishFails, Tracks, Busy, Phase
<1>q. HistoryGrows /\ UNCHANGED <<inbound, uploaded, skipped>>
  <2>1. \A row \in Rows : times[row] > 0 => times'[row] > 0
    <3>1. ASSUME NEW x \in Rows, PublishRow(i, x)
          PROVE  \A row \in Rows : times[row] > 0 => times'[row] > 0
      BY <1>t, <3>1 DEF PublishRow
    <3>2. ASSUME NEW landed, PublishFails(i, landed)
          PROVE  \A row \in Rows : times[row] > 0 => times'[row] > 0
      BY <1>t, <3>2 DEF PublishFails
    <3> QED BY <3>1, <3>2 DEF Published
  <2>2. recorded \subseteq recorded' BY DEF PublishRow, Published, PublishFails, MayRecord
  <2> QED BY <2>1, <2>2, Quiet DEF PublishRow, Published, PublishFails, bucket
<1>g. Gone(monitor[i].blob) => inbound'[NameOf[monitor[i].blob]] # monitor[i].blob
  BY <1>q DEF Gone
<1>1. ASSUME NEW row \in Rows, PublishRow(i, row)
      PROVE  LossInv'
  <2> DEFINE s == [monitor[i] EXCEPT !.left = monitor[i].left \ {row}]
  <2>1. /\ s.phase = "publish" /\ s.blob = monitor[i].blob /\ s.content = monitor[i].content
        /\ s.listed = monitor[i].listed /\ s.left = monitor[i].left \ {row}
    BY <1>t, <1>b DEF MonitorState
  <2>2. monitor' = [monitor EXCEPT ![i] = s] /\ times' = [times EXCEPT ![row] = times[row] + 1]
    BY <1>1 DEF PublishRow, Becomes
  <2> HIDE DEF s
  <2>3. monitor'[i] = s BY <1>t, <2>2
  <2>4. \A x \in RowsIn(s.content) : times'[x] > 0 \/ x \in skipped' \/ x \in s.left
    BY <1>t, <1>b, <1>q, <2>1, <2>2 DEF RowsIn
  <2>5. Tracks(i)' BY <1>t, <1>b, <1>q, <1>g, <2>1, <2>3, <2>4 DEF Tracks, Gone, RowsIn
  <2> QED BY <1>t, <1>q, <2>2, <2>5, KeepsInbound
<1>2. CASE Published(i)
  <2>1. GoesTo(i, "delete") /\ times' = times /\ recorded' = recorded \cup {monitor[i].content}
        /\ monitor[i].left = {}
    BY <1>2 DEF Published
  <2>2. /\ monitor[i].content \in recorded'
        /\ \A row \in RowsIn(monitor[i].content) : times'[row] > 0 \/ row \in skipped'
    BY <1>b, <1>q, <2>1
  <2>3. Tracks(i)' BY <1>t, <1>b, <1>q, <1>g, <2>1, <2>2, GoesToFields DEF Tracks, Gone, Ingested, RowsIn
  <2> QED BY <1>q, <2>1, <2>3, GoesToFields, KeepsInbound
<1>3. ASSUME NEW landed \in SUBSET Rows, PublishFails(i, landed)
      PROVE  LossInv'
  <2>1. GoesTo(i, "move") BY <1>3 DEF PublishFails
  <2>2. Tracks(i)' BY <1>t, <1>b, <1>q, <2>1, GoesToFields DEF Tracks
  <2> QED BY <1>q, <2>1, <2>2, GoesToFields, KeepsInbound
<1> QED BY <1>1, <1>2, <1>3

\* A blob is taken out of inbound/ when it is kept elsewhere.
LEMMA RemovesKept ==
    ASSUME TypeInv, LossInv, NEW i \in Instances, monitor[i].phase \in Busy, Listed(i),
           inbound' = Removed(i), UNCHANGED <<uploaded, replaced, moved, times, recorded, skipped>>,
           \A j \in Instances \ {i} : monitor'[j] = monitor[j],
           monitor[i].blob \in moved \/ Ingested(monitor[i].blob), Tracks(i)'
    PROVE  LossInv'
<1> DEFINE b == monitor[i].blob
<1>1. b \in Uploads /\ b # NoUpload /\ NameOf[b] \in Names
  BY LandingAssumption DEF TypeInv, Sound
<1>2. inbound' = [inbound EXCEPT ![NameOf[b]] = NoUpload] /\ inbound[NameOf[b]] = b
      /\ inbound \in [Names -> Uploads \cup {NoUpload}]
  BY DEF Removed, Listed, Current, TypeInv, TypeOK
<1>3. \A u \in Uploads : NameOf[u] \in Names /\ u # NoUpload BY LandingAssumption
<1>4. uploaded \subseteq Uploads BY DEF TypeInv, TypeOK
<1>5. HistoryGrows BY <1>2, <1>3, <1>4 DEF HistoryGrows, Gone
<1>6. BucketSound' BY <1>2 DEF LossInv, BucketSound
<1>7. \A j \in Instances : Tracks(j)' BY <1>5, TracksStays DEF LossInv
<1>8. FilesKept'
  <2> SUFFICES ASSUME NEW v \in uploaded \ replaced
               PROVE  inbound'[NameOf[v]] = v \/ v \in moved' \/ Ingested(v)'
    BY DEF FilesKept
  <2>1. inbound[NameOf[v]] = v \/ v \in moved \/ Ingested(v) BY DEF LossInv, FilesKept
  <2>2. Ingested(v) => Ingested(v)' BY DEF Ingested
  <2>3. CASE v = b BY <2>2, <2>3
  <2>4. CASE v # b
    <3>1. inbound[NameOf[v]] = v => inbound'[NameOf[v]] = v BY <1>2, <1>3, <1>4, <2>4
    <3> QED BY <2>1, <2>2, <3>1
  <2> QED BY <2>3, <2>4
<1> QED BY <1>6, <1>7, <1>8 DEF LossInv

LEMMA DeleteLoses ==
    ASSUME TypeInv, LossInv, NEW i \in Instances, Delete(i) \/ DeleteFails(i)
    PROVE  LossInv'
<1>t. Tracks(i) /\ monitor[i].phase = "delete" /\ monitor[i].phase \in Busy
  BY DEF LossInv, Delete, DeleteFails, Busy, Phase
<1>h. UNCHANGED <<uploaded, replaced, moved, times, recorded, skipped>> BY DEF Delete, DeleteFails
<1>k. Listed(i) => Ingested(monitor[i].blob)
  BY <1>t DEF Tracks, Listed, Current, Gone
<1>1. Tracks(i)' /\ \A j \in Instances \ {i} : monitor'[j] = monitor[j]
  <2>1. CASE Delete(i) BY <1>h, <2>1, RestsTracked DEF Delete
  <2>2. CASE DeleteFails(i)
    <3>1. GoesTo(i, "move") BY <2>2 DEF DeleteFails
    <3> QED BY <1>t, <1>h, <3>1, GoesToFields DEF Tracks
  <2> QED BY <2>1, <2>2
<1>2. CASE UNCHANGED inbound BY <1>h, <1>1, <1>2, Quiet, KeepsInbound
<1>3. CASE Listed(i) /\ inbound' = Removed(i)
  BY <1>t, <1>h, <1>k, <1>1, <1>3, RemovesKept
<1> QED BY <1>2, <1>3 DEF Delete, DeleteFails

LEMMA MoveLoses ==
    ASSUME TypeInv, LossInv, NEW i \in Instances, MoveCopies(i) \/ MoveDeletes(i) \/ MoveFails(i)
    PROVE  LossInv'
<1>t. Tracks(i) /\ monitor[i].phase \in {"move", "moved"} /\ monitor[i].phase \in Busy
      /\ monitor[i].blob \in uploaded
  BY DEF LossInv, MoveCopies, MoveDeletes, MoveFails, Busy, Phase, Tracks
<1>h. UNCHANGED <<uploaded, replaced, times, recorded, skipped>> /\ moved \subseteq moved'
  BY DEF MoveCopies, MoveDeletes, MoveFails, CopyTo
<1>1. CASE MoveCopies(i)
  <2>1. GoesTo(i, "moved") /\ UNCHANGED inbound /\ moved' = moved \cup {Current(i)}
    BY <1>1 DEF MoveCopies, CopyTo
  <2>2. monitor[i].blob \in moved' \/ inbound'[NameOf[monitor[i].blob]] # monitor[i].blob
    BY <2>1 DEF Current
  <2>3. Tracks(i)' BY <1>t, <1>h, <2>1, <2>2, GoesToFields DEF Tracks, Gone
  <2> QED BY <1>h, <2>1, <2>3, GoesToFields, Quiet, KeepsInbound
<1>2. CASE MoveDeletes(i) \/ MoveFails(i)
  <2>1. Tracks(i)' /\ \A j \in Instances \ {i} : monitor'[j] = monitor[j]
    BY <1>2, <1>h, RestsTracked DEF MoveDeletes, MoveFails
  <2>2. CASE UNCHANGED inbound BY <1>h, <2>1, <2>2, Quiet, KeepsInbound
  <2>3. CASE monitor[i].phase = "moved" /\ Listed(i) /\ inbound' = Removed(i) /\ UNCHANGED moved
    <3>1. monitor[i].blob \in moved BY <1>t, <2>3 DEF Tracks, Listed, Current, Gone
    <3> QED BY <1>t, <1>h, <2>1, <2>3, <3>1, RemovesKept
  <2> QED BY <1>2, <2>2, <2>3 DEF MoveDeletes, MoveFails
<1> QED BY <1>1, <1>2

LEMMA OutsideLoses ==
    ASSUME TypeInv, LossInv, NEW i \in Instances,
           \/ InstanceDies(i)
           \/ \E row \in Rows : ReportSink(i, row) \/ ReportSinkFails(i, row)
    PROVE  LossInv'
<1>q. HistoryGrows /\ UNCHANGED <<inbound, uploaded>>
  BY Quiet DEF InstanceDies, ReportSink, ReportSinkFails, bucket
<1>1. CASE InstanceDies(i)
  BY <1>q, <1>1, RestsTracked, KeepsInbound DEF InstanceDies, Escapes
<1>2. CASE UNCHANGED monitor
  BY <1>q, <1>2, TracksStays, KeepsInbound DEF LossInv
<1> QED BY <1>1, <1>2 DEF ReportSink, ReportSinkFails

LEMMA NextLoses ==
    ASSUME TypeInv, LossInv, [Next]_vars
    PROVE  LossInv'
<1>1. CASE UNCHANGED vars
  BY <1>1 DEF vars, LossInv, BucketSound, Tracks, Gone, FilesKept, Ingested
<1>2. ASSUME NEW i \in Instances, Step(i)
      PROVE  LossInv'
  BY <1>2, PollLoses, DownloadLoses, ReadLoses, RowsLose, PublishLoses, DeleteLoses, MoveLoses DEF Step
<1> QED BY <1>1, <1>2, UploadLoses, OutsideLoses DEF Next

LEMMA StepFaults ==
    ASSUME NEW i \in Instances, Step(i) \/ InstanceDies(i)
    PROVE  /\ faults' = faults \/ faults' = faults + 1
           /\ \E s : Becomes(i, s)
BY DEF Step, InstanceDies, Fault, GoesTo, GoesOn, Escapes, Poll, Sleep, Take, Download, DownloadFails,
   Read, Rejected, VaultFails, ProcessRows, PublishRow, Published, PublishFails, Delete, DeleteFails,
   MoveCopies, MoveDeletes, MoveFails

\* The columns that an instance protects are those of the registry, or the
\* address alone.
FieldsKnown == \A i \in Instances : monitor[i].fields \subseteq Registered \cup {Email}

KeptInv == FieldsKnown /\ FailedKept /\ RowsKept

LEMMA StepFields ==
    ASSUME TypeInv, FieldsKnown, NEW i \in Instances, Step(i) \/ InstanceDies(i)
    PROVE  FieldsKnown'
<1>t. monitor \in [Instances -> MonitorState] /\ monitor[i] \in MonitorState
      /\ monitor[i].fields \subseteq Registered \cup {Email}
  BY DEF TypeInv, TypeOK, FieldsKnown
<1>1. ASSUME NEW s, Becomes(i, s), s.fields \subseteq Registered \cup {Email}
      PROVE  FieldsKnown'
  BY <1>t, <1>1 DEF Becomes, FieldsKnown
<1>2. ASSUME Escapes(i) \/ GoesOn(i) \/ Poll(i)
      PROVE  FieldsKnown'
  <2>1. \/ Becomes(i, Asleep)
        \/ \E l : Becomes(i, [Asleep EXCEPT !.phase = "walking", !.listed = l])
    BY <1>2 DEF Escapes, GoesOn, Poll
  <2>2. Asleep.fields = {} /\ \A l : [Asleep EXCEPT !.phase = "walking", !.listed = l].fields = {}
    BY DEF Asleep
  <2> QED BY <1>1, <2>1, <2>2
<1>3. ASSUME NEW p, GoesTo(i, p)
      PROVE  FieldsKnown'
  <2> DEFINE s == [monitor[i] EXCEPT !.phase = p]
  <2>1. s.fields = monitor[i].fields BY <1>t DEF MonitorState
  <2>2. Becomes(i, s) BY <1>3 DEF GoesTo
  <2> HIDE DEF s
  <2> QED BY <1>1, <1>t, <2>1, <2>2
<1>4. ASSUME NEW u \in Uploads, Take(i, u)
      PROVE  FieldsKnown'
  <2>1. PICK fields \in {Registered, {Email}} :
            Becomes(i, [Asleep EXCEPT !.phase = "download",
                            !.listed = monitor[i].listed \ {u}, !.blob = u, !.fields = fields])
    BY <1>4 DEF Take
  <2> DEFINE s == [Asleep EXCEPT !.phase = "download",
                            !.listed = monitor[i].listed \ {u}, !.blob = u, !.fields = fields]
  <2>2. s.fields = fields BY DEF Asleep
  <2>3. Becomes(i, s) BY <2>1
  <2> HIDE DEF s
  <2> QED BY <1>1, <2>2, <2>3
<1>5. CASE Download(i)
  <2> DEFINE s == [monitor[i] EXCEPT !.phase = "read", !.content = Current(i)]
  <2>1. s.fields = monitor[i].fields BY <1>t DEF MonitorState
  <2>2. Becomes(i, s) BY <1>5 DEF Download
  <2> HIDE DEF s
  <2> QED BY <1>1, <1>t, <2>1, <2>2
<1>6. ASSUME NEW kept, ProcessRows(i, kept)
      PROVE  FieldsKnown'
  <2> DEFINE s == [monitor[i] EXCEPT !.phase = "publish", !.left = kept]
  <2>1. s.fields = monitor[i].fields BY <1>t DEF MonitorState
  <2>2. Becomes(i, s) BY <1>6 DEF ProcessRows
  <2> HIDE DEF s
  <2> QED BY <1>1, <1>t, <2>1, <2>2
<1>7. ASSUME NEW row \in Rows, PublishRow(i, row)
      PROVE  FieldsKnown'
  <2> DEFINE s == [monitor[i] EXCEPT !.left = monitor[i].left \ {row}]
  <2>1. s.fields = monitor[i].fields BY <1>t DEF MonitorState
  <2>2. Becomes(i, s) BY <1>7 DEF PublishRow
  <2> HIDE DEF s
  <2> QED BY <1>1, <1>t, <2>1, <2>2
<1>8. ASSUME Sleep(i) \/ Delete(i) \/ MoveDeletes(i) \/ MoveFails(i) \/ InstanceDies(i)
      PROVE  FieldsKnown'
  BY <1>2, <1>8 DEF Sleep, Delete, MoveDeletes, MoveFails, InstanceDies, Escapes
<1>9. ASSUME DownloadFails(i) \/ Read(i) \/ Rejected(i) \/ VaultFails(i) \/ Published(i)
                 \/ (\E landed \in SUBSET Rows : PublishFails(i, landed))
                 \/ DeleteFails(i) \/ MoveCopies(i)
      PROVE  FieldsKnown'
  <2>1. \E p : GoesTo(i, p)
    BY <1>9 DEF DownloadFails, Read, Rejected, VaultFails, Published, PublishFails, DeleteFails,
                MoveCopies
  <2> QED BY <1>3, <2>1
<1> QED BY <1>2, <1>4, <1>5, <1>6, <1>7, <1>8, <1>9 DEF Step

\* A copy to failed/ replaces a file of the same name.
LEMMA CopyKeeps ==
    ASSUME TypeInv, LossInv, FailedKept, NEW i \in Instances, monitor[i].phase \in Busy,
           Current(i) # NoUpload, CopyTo(i)
    PROVE  FailedKept'
<1> DEFINE n == NameOf[monitor[i].blob]
           u == Current(i)
<1>1. n \in Names /\ u \in Uploads /\ NameOf[u] = n
  BY LandingAssumption DEF TypeInv, TypeOK, Sound, Current, LossInv, BucketSound
<1>2. /\ failed \in [Names -> Uploads \cup {NoUpload}] /\ moved \subseteq Uploads
      /\ failed' = [failed EXCEPT ![n] = u] /\ moved' = moved \cup {u}
  BY DEF TypeInv, TypeOK, CopyTo
<1> HIDE DEF n, u
<1>3. ASSUME NEW v \in moved'
      PROVE  failed'[NameOf[v]] \in moved' \cap SameName(v)
  <2>1. v \in Uploads /\ NameOf[v] \in Names BY <1>1, <1>2, LandingAssumption
  <2>2. CASE NameOf[v] = n BY <1>1, <1>2, <2>1, <2>2 DEF SameName
  <2>3. CASE NameOf[v] # n
    <3>1. v \in moved BY <1>1, <1>2, <2>3
    <3> QED BY <1>2, <2>1, <2>3, <3>1 DEF FailedKept
  <2> QED BY <2>2, <2>3
<1> QED BY <1>3 DEF FailedKept, SameName

LEMMA RowsJustified ==
    ASSUME TypeInv, TypeInv', FieldsKnown, RowsKept, NEW i \in Instances, NEW kept, ProcessRows(i, kept)
    PROVE  RowsKept'
<1>1. faults \in Nat /\ faults' \in Nat BY Numbers DEF TypeInv, TypeOK
<1>2. faults' = faults \/ (faults' > 0) BY <1>1 DEF ProcessRows, Fault
<1>3. ASSUME NEW row \in skipped', Registered \cup {Email} \subseteq Cells[row]
      PROVE  faults' > 0
  <2>1. CASE row \in skipped BY <1>1, <1>2, <1>3, <2>1 DEF RowsKept
  <2>2. CASE row \in RowsIn(monitor[i].content) \ kept
    <3>1. row \in Acceptable(i) BY <1>3, <2>2 DEF Acceptable, FieldsKnown
    <3>2. Fault("row") BY <2>2, <3>1 DEF ProcessRows
    <3> QED BY <1>1, <3>2 DEF Fault
  <2> QED BY <1>3, <2>1, <2>2 DEF ProcessRows
<1> QED BY <1>3 DEF RowsKept

LEMMA NextKept ==
    ASSUME TypeInv, TypeInv', LossInv, KeptInv, [Next]_vars
    PROVE  KeptInv'
<1>1. CASE UNCHANGED vars
  BY <1>1 DEF vars, KeptInv, FieldsKnown, FailedKept, RowsKept, SameName
<1>f. faults \in Nat /\ faults' \in Nat BY Numbers DEF TypeInv, TypeOK
<1>r. faults' >= faults /\ UNCHANGED skipped => RowsKept'
  BY <1>f DEF KeptInv, RowsKept
<1>m. UNCHANGED <<failed, moved>> => FailedKept' BY DEF KeptInv, FailedKept, SameName
<1>2. ASSUME NEW u \in Uploads, Upload(u)
      PROVE  KeptInv'
  BY <1>f, <1>r, <1>m, <1>2 DEF Upload, KeptInv, FieldsKnown
<1>3. ASSUME NEW i \in Instances, NEW row \in Rows, ReportSink(i, row) \/ ReportSinkFails(i, row)
      PROVE  KeptInv'
  BY <1>f, <1>r, <1>m, <1>3 DEF ReportSink, ReportSinkFails, Fault, bucket, KeptInv, FieldsKnown
<1>4. ASSUME NEW i \in Instances, Step(i) \/ InstanceDies(i)
      PROVE  KeptInv'
  <2>1. FieldsKnown' BY <1>4, StepFields DEF KeptInv
  <2>2. RowsKept'
    <3>1. faults' >= faults BY <1>f, <1>4, StepFaults
    <3>2. UNCHANGED skipped \/ \E kept : ProcessRows(i, kept)
      BY <1>4 DEF Step, InstanceDies, Poll, Sleep, Take, Download, DownloadFails, Read, Rejected,
         VaultFails, PublishRow, Published, PublishFails, Delete, DeleteFails, MoveCopies,
         MoveDeletes, MoveFails
    <3> QED BY <1>r, <3>1, <3>2, RowsJustified DEF KeptInv
  <2>3. FailedKept'
    <3>1. \/ UNCHANGED <<failed, moved>>
          \/ monitor[i].phase = "move" /\ Current(i) # NoUpload /\ CopyTo(i)
      BY <1>4 DEF Step, InstanceDies, Poll, Sleep, Take, Download, DownloadFails, Read, Rejected,
         VaultFails, ProcessRows, PublishRow, Published, PublishFails, Delete, DeleteFails,
         MoveCopies, MoveDeletes, MoveFails, bucket
    <3> QED BY <1>m, <3>1, CopyKeeps DEF KeptInv, Busy, Phase
  <2> QED BY <2>1, <2>2, <2>3 DEF KeptInv
<1> QED BY <1>1, <1>2, <1>3, <1>4 DEF Next

LEMMA InitLoses == Init => LossInv /\ KeptInv
BY DEF Init, LossInv, BucketSound, Tracks, FilesKept, Asleep, Busy, KeptInv, FieldsKnown, FailedKept,
       RowsKept

\* Whatever instances, failures and later uploads of the same name do, a file
\* that the customer did not replace leaves inbound/ only ingested or copied to
\* failed/; one that was copied there gives way only to another of its name; and
\* no good row is given up without a failure.
THEOREM LosesNothing == Spec => []NothingLost
<1>1. Init => TypeInv /\ LossInv /\ KeptInv BY InitType, InitLoses
<1>2. TypeInv /\ LossInv /\ KeptInv /\ [Next]_vars => (TypeInv /\ LossInv /\ KeptInv)'
  BY NextType, NextLoses, NextKept
<1>3. LossInv /\ KeptInv => NothingLost BY DEF LossInv, KeptInv, NothingLost
<1> QED BY <1>1, <1>2, <1>3, PTL DEF Spec

-----------------------------------------------------------------------------
(* Plaintext copies in /tmp                                                *)

Reading(i) == monitor[i].phase \in {"read", "vault", "publish"}

\* The bound, instance by instance.
Leaks(i) == temp[i] <= faults + (IF Reading(i) THEN 1 ELSE 0)

\* An instance may use the failure of its step to leave one file more, and a
\* file that it no longer reads is cleaned up or was left by a failure.
LEMMA OneLeaks ==
    ASSUME TypeInv, TypeInv', LeaksBounded, NEW i \in Instances,
           faults' = faults \/ faults' = faults + 1,
           \A j \in Instances \ {i} : temp'[j] = temp[j] /\ monitor'[j] = monitor[j],
           Leaks(i)'
    PROVE  LeaksBounded'
<1>1. faults \in Nat BY Numbers DEF TypeInv, TypeOK
<1>2. ASSUME NEW j \in Instances \ {i} PROVE Leaks(j)'
  <2>1. temp[j] \in Nat BY DEF TypeInv, TypeOK
  <2>2. Leaks(j) BY DEF LeaksBounded, Leaks, Reading
  <2> QED BY <1>1, <2>1, <2>2 DEF Leaks, Reading
<1>3. \A j \in Instances : Leaks(j)' BY <1>2
<1> QED BY <1>3 DEF LeaksBounded, Leaks, Reading

LEMMA KeepsLeaks ==
    ASSUME TypeInv, TypeInv', LeaksBounded, UNCHANGED temp,
           faults' = faults \/ faults' = faults + 1,
           NEW i \in Instances,
           \A j \in Instances \ {i} : monitor'[j] = monitor[j],
           ~Reading(i) \/ Reading(i)' \/ faults' = faults + 1
    PROVE  LeaksBounded'
<1>1. faults \in Nat /\ temp[i] \in Nat BY Numbers DEF TypeInv, TypeOK
<1>2. Leaks(i) BY DEF LeaksBounded, Leaks, Reading
<1>3. Leaks(i)' BY <1>1, <1>2 DEF Leaks
<1> QED BY <1>3, OneLeaks

LEMMA StepLeaks ==
    ASSUME TypeInv, TypeInv', LeaksBounded, NEW i \in Instances, Step(i) \/ InstanceDies(i)
    PROVE  LeaksBounded'
<1>t. /\ monitor \in [Instances -> MonitorState] /\ monitor[i] \in MonitorState
      /\ temp \in [Instances -> Nat] /\ faults \in Nat
  BY Numbers DEF TypeInv, TypeOK
<1>s. /\ faults' = faults \/ faults' = faults + 1
      /\ \A j \in Instances \ {i} : monitor'[j] = monitor[j]
  BY <1>t, StepFaults DEF Becomes
<1>l. temp[i] <= faults + (IF Reading(i) THEN 1 ELSE 0) BY DEF LeaksBounded, Reading
<1>1. CASE UNCHANGED temp /\ ~Reading(i) BY <1>1, <1>s, KeepsLeaks
<1>2. CASE Download(i)
  <2>1. /\ monitor[i].phase = "download" /\ temp' = [temp EXCEPT ![i] = temp[i] + 1]
        /\ faults' = faults
        /\ Becomes(i, [monitor[i] EXCEPT !.phase = "read", !.content = Current(i)])
    BY <1>2 DEF Download
  <2> DEFINE s == [monitor[i] EXCEPT !.phase = "read", !.content = Current(i)]
  <2>2. s.phase = "read" BY <1>t DEF MonitorState
  <2>3. monitor' = [monitor EXCEPT ![i] = s] BY <2>1 DEF Becomes
  <2> HIDE DEF s
  <2>4. Reading(i)' BY <1>t, <2>2, <2>3 DEF Reading
  <2>5. temp'[i] = temp[i] + 1 /\ temp[i] <= faults BY <1>t, <1>l, <2>1 DEF Reading
  <2>6. Leaks(i)' BY <1>t, <2>1, <2>4, <2>5 DEF Leaks
  <2> QED BY <1>t, <1>s, <2>1, <2>6, OneLeaks
<1>3. CASE DownloadFails(i)
  <2>1. /\ monitor[i].phase = "download"
        /\ \/ UNCHANGED <<temp, faults>>
           \/ faults' = faults + 1 /\ temp' \in {temp, [temp EXCEPT ![i] = temp[i] + 1]}
    BY <1>3 DEF DownloadFails, Fault
  <2>2. temp[i] <= faults BY <1>t, <1>l, <2>1 DEF Reading
  <2>3. temp'[i] <= faults' /\ temp'[i] \in Nat /\ faults' \in Nat BY <1>t, <2>1, <2>2
  <2>4. Leaks(i)' BY <2>3 DEF Leaks
  <2> QED BY <1>t, <1>s, <2>1, <2>4, OneLeaks
<1>4. CASE Rejected(i) \/ Published(i)
  <2>1. Reading(i) /\ temp' = [temp EXCEPT ![i] = temp[i] - 1] /\ faults' = faults
    BY <1>4 DEF Rejected, Published, Cleanup, Reading
  <2>2. temp'[i] = temp[i] - 1 /\ temp[i] <= faults + 1 BY <1>t, <1>l, <2>1
  <2>3. temp'[i] <= faults' BY <1>t, <2>1, <2>2
  <2>4. temp'[i] \in Nat BY DEF TypeInv, TypeOK
  <2>5. Leaks(i)' BY <1>t, <2>1, <2>3, <2>4 DEF Leaks
  <2> QED BY <1>t, <1>s, <2>1, <2>5, OneLeaks
<1>5. CASE UNCHANGED temp /\ faults' = faults + 1 BY <1>5, <1>s, KeepsLeaks
<1>6. CASE Read(i)
  <2>1. GoesTo(i, "vault") /\ UNCHANGED temp BY <1>6 DEF Read
  <2>2. Reading(i)' BY <2>1, GoesToFields DEF Reading
  <2> QED BY <1>s, <2>1, <2>2, KeepsLeaks
<1>7. ASSUME NEW kept, ProcessRows(i, kept)
      PROVE  LeaksBounded'
  <2> DEFINE s == [monitor[i] EXCEPT !.phase = "publish", !.left = kept]
  <2>1. s.phase = "publish" BY <1>t DEF MonitorState
  <2>2. monitor' = [monitor EXCEPT ![i] = s] /\ UNCHANGED temp BY <1>7 DEF ProcessRows, Becomes
  <2> HIDE DEF s
  <2>3. Reading(i)' BY <1>t, <2>1, <2>2 DEF Reading
  <2> QED BY <1>s, <2>2, <2>3, KeepsLeaks
<1>8. ASSUME NEW row, PublishRow(i, row)
      PROVE  LeaksBounded'
  <2> DEFINE s == [monitor[i] EXCEPT !.left = monitor[i].left \ {row}]
  <2>1. s.phase = "publish" BY <1>t, <1>8 DEF MonitorState, PublishRow
  <2>2. monitor' = [monitor EXCEPT ![i] = s] /\ UNCHANGED temp BY <1>8 DEF PublishRow, Becomes
  <2> HIDE DEF s
  <2>3. Reading(i)' BY <1>t, <2>1, <2>2 DEF Reading
  <2> QED BY <1>s, <2>2, <2>3, KeepsLeaks
<1>9. CASE InstanceDies(i)
  <2>1. temp' = [temp EXCEPT ![i] = 0] BY <1>9 DEF InstanceDies
  <2>2. Leaks(i)' BY <1>t, <1>s, <2>1 DEF Leaks
  <2> QED BY <1>t, <1>s, <2>1, <2>2, OneLeaks
<1>10. Poll(i) \/ Sleep(i) \/ (\E u \in Uploads : Take(i, u)) \/ Delete(i) \/ DeleteFails(i)
          \/ MoveCopies(i) \/ MoveDeletes(i) \/ MoveFails(i)
       => UNCHANGED temp /\ ~Reading(i)
  BY DEF Poll, Sleep, Take, Delete, DeleteFails, MoveCopies, MoveDeletes, MoveFails, Reading
<1>11. VaultFails(i) \/ (\E landed \in SUBSET Rows : PublishFails(i, landed))
       => UNCHANGED temp /\ faults' = faults + 1
  BY DEF VaultFails, PublishFails, Fault
<1> QED
  BY <1>1, <1>2, <1>3, <1>4, <1>5, <1>6, <1>7, <1>8, <1>9, <1>10, <1>11 DEF Step

LEMMA NextLeaks ==
    ASSUME TypeInv, TypeInv', LeaksBounded, [Next]_vars
    PROVE  LeaksBounded'
<1>1. CASE UNCHANGED <<temp, monitor, faults>> BY <1>1 DEF LeaksBounded
<1>2. (UNCHANGED vars) \/ (\E u \in Uploads : Upload(u)) => UNCHANGED <<temp, monitor, faults>>
  BY DEF vars, Upload
<1>3. ASSUME NEW i \in Instances, NEW row \in Rows, ReportSink(i, row) \/ ReportSinkFails(i, row)
      PROVE  LeaksBounded'
  <2>1. UNCHANGED <<temp, monitor>> /\ (faults' = faults \/ faults' = faults + 1)
    BY <1>3 DEF ReportSink, ReportSinkFails, Fault
  <2>2. ~Reading(i) \/ Reading(i)' BY <2>1 DEF Reading
  <2> QED BY <2>1, <2>2, KeepsLeaks
<1> QED BY <1>1, <1>2, <1>3, StepLeaks DEF Next

\* Beside the file it reads, an instance keeps at most one plaintext copy for
\* each failure.
THEOREM LeaksPaidFor == Spec => []LeaksBounded
<1>1. Init => TypeInv /\ LeaksBounded
  <2>1. Init => LeaksBounded BY DEF Init, LeaksBounded, Asleep
  <2> QED BY <2>1, InitType
<1>2. TypeInv /\ LeaksBounded /\ [Next]_vars => (TypeInv /\ LeaksBounded)'
  BY NextType, NextLeaks
<1> QED BY <1>1, <1>2, PTL DEF Spec

-----------------------------------------------------------------------------
(* Rows published again                                                    *)

\* Instance i will not publish a row again on account of blob b: it has
\* published it, or the blob is gone and no longer listed.
SpentBy(i, b, row) ==
    IF monitor[i].phase \in Busy /\ monitor[i].blob = b
    THEN \/ monitor[i].phase \in {"delete", "move", "moved"}
         \/ monitor[i].phase = "publish" /\ row \notin monitor[i].left
    ELSE Gone(b) /\ b \notin monitor[i].listed

Pool(row) == Instances \X (SameName(UploadOf[row]) \cap uploaded)

Spent(row) == {p \in Pool(row) : SpentBy(p[1], p[2], row)}

\* What an instance has read has the name of its blob, which it will not look
\* at again in this loop.
Careful(i) ==
    /\ monitor[i].phase \in Busy => monitor[i].blob \notin monitor[i].listed
    /\ monitor[i].phase \in {"read", "vault", "publish"}
          => NameOf[monitor[i].content] = NameOf[monitor[i].blob]
    /\ monitor[i].phase = "publish" => monitor[i].left \subseteq RowsIn(monitor[i].content)

TimesPaid(row) == times[row] <= faults + Cardinality(Spent(row))

RepublishInv ==
    /\ \A i \in Instances : Careful(i)
    /\ \A row \in Rows : TimesPaid(row)

LEMMA PoolFinite ==
    ASSUME NEW row \in Rows
    PROVE  /\ IsFiniteSet(Pool(row))
           /\ Cardinality(Pool(row)) = Cardinality(Instances)
                                        * Cardinality(SameName(UploadOf[row]) \cap uploaded)
<1>1. IsFiniteSet(Uploads) /\ IsFiniteSet(Instances) BY LandingAssumption
<1>2. SameName(UploadOf[row]) \cap uploaded \subseteq Uploads BY DEF SameName
<1>3. IsFiniteSet(SameName(UploadOf[row]) \cap uploaded) BY <1>1, <1>2, FS_Subset
<1> QED BY <1>1, <1>3, FS_Product DEF Pool

LEMMA SpentFinite ==
    ASSUME NEW row \in Rows
    PROVE  /\ IsFiniteSet(Spent(row)) /\ Cardinality(Spent(row)) \in Nat
           /\ IsFiniteSet(Spent(row)') /\ Cardinality(Spent(row)') \in Nat
<1>1. IsFiniteSet(Uploads) /\ IsFiniteSet(Instances) BY LandingAssumption
<1>2. IsFiniteSet(Instances \X Uploads) BY <1>1, FS_Product
<1>3. Spent(row) \subseteq Instances \X Uploads /\ Spent(row)' \subseteq Instances \X Uploads
  BY DEF Spent, Pool, SameName
<1> QED BY <1>2, <1>3, FS_Subset, FS_CardinalityType

\* A step that spends nothing back and publishes nothing.
LEMMA KeepsPaid ==
    ASSUME TypeInv, TypeInv', NEW row \in Rows, TimesPaid(row), times'[row] = times[row],
           faults' = faults \/ faults' = faults + 1, Spent(row) \subseteq Spent(row)'
    PROVE  TimesPaid(row)'
<1>1. Cardinality(Spent(row)) <= Cardinality(Spent(row)') BY SpentFinite, FS_Subset
<1>2. faults \in Nat /\ times[row] \in Nat BY Numbers DEF TypeInv, TypeOK
<1>3. times'[row] <= faults' + Cardinality(Spent(row)')
  BY <1>1, <1>2, SpentFinite DEF TimesPaid
<1> QED BY <1>3 DEF TimesPaid

\* A step that publishes the row and spends for it.
LEMMA PaysOnce ==
    ASSUME TypeInv, TypeInv', NEW row \in Rows, TimesPaid(row), times'[row] = times[row] + 1,
           faults' = faults \/ faults' = faults + 1, NEW p \in Spent(row)', p \notin Spent(row),
           Spent(row) \subseteq Spent(row)'
    PROVE  TimesPaid(row)'
<1>1. Cardinality(Spent(row) \cup {p}) = Cardinality(Spent(row)) + 1
  BY SpentFinite, FS_AddElement
<1>2. Cardinality(Spent(row) \cup {p}) <= Cardinality(Spent(row)')
  BY SpentFinite, FS_Subset
<1>3. faults \in Nat /\ times[row] \in Nat BY Numbers DEF TypeInv, TypeOK
<1>4. times'[row] <= faults' + Cardinality(Spent(row)')
  BY <1>1, <1>2, <1>3, SpentFinite DEF TimesPaid
<1> QED BY <1>4 DEF TimesPaid

\* A failure may give one back.
LEMMA GivesBack ==
    ASSUME TypeInv, TypeInv', NEW row \in Rows, TimesPaid(row), times'[row] = times[row],
           faults' = faults + 1, NEW p, Spent(row) \subseteq Spent(row)' \cup {p}
    PROVE  TimesPaid(row)'
<1> DEFINE T == Spent(row)'
<1>f. IsFiniteSet(T) /\ Cardinality(T) \in Nat BY SpentFinite
<1>s. Spent(row) \subseteq T \cup {p} OBVIOUS
<1>q. TimesPaid(row)' <=> times'[row] <= faults' + Cardinality(T) BY DEF TimesPaid
<1> HIDE DEF T
<1>1. /\ IsFiniteSet(T \cup {p})
      /\ Cardinality(T \cup {p}) = Cardinality(T) \/ Cardinality(T \cup {p}) = Cardinality(T) + 1
  BY <1>f, FS_AddElement
<1>2. Cardinality(Spent(row)) <= Cardinality(T \cup {p}) BY <1>1, <1>s, FS_Subset
<1>3. faults \in Nat /\ times[row] \in Nat BY Numbers DEF TypeInv, TypeOK
<1>4. times[row] <= faults + Cardinality(Spent(row)) /\ Cardinality(Spent(row)) \in Nat
  BY SpentFinite DEF TimesPaid
<1>5. times'[row] <= faults' + Cardinality(T) BY <1>f, <1>1, <1>2, <1>3, <1>4
<1> QED BY <1>5, <1>q

GoneStays == uploaded \subseteq uploaded' /\ \A u \in uploaded : Gone(u) => Gone(u)'

LEMMA StepGone ==
    ASSUME TypeInv, NEW i \in Instances, Step(i) \/ InstanceDies(i)
    PROVE  GoneStays
<1>1. UNCHANGED uploaded /\ (UNCHANGED inbound \/ (monitor[i].phase \in Busy /\ inbound' = Removed(i)))
  BY DEF Step, InstanceDies, Poll, Sleep, Take, Download, DownloadFails, Read, Rejected, VaultFails,
     ProcessRows, PublishRow, Published, PublishFails, Delete, DeleteFails, MoveCopies, MoveDeletes,
     MoveFails, bucket, Busy, Phase
<1>2. CASE UNCHANGED inbound BY <1>1, <1>2 DEF GoneStays, Gone
<1>3. CASE monitor[i].phase \in Busy /\ inbound' = Removed(i)
  <2>1. NameOf[monitor[i].blob] \in Names BY <1>3, Facts
  <2>2. \A u \in uploaded : NameOf[u] \in Names /\ u # NoUpload
    BY LandingAssumption DEF TypeInv, TypeOK
  <2>3. inbound' = [inbound EXCEPT ![NameOf[monitor[i].blob]] = NoUpload]
        /\ inbound \in [Names -> Uploads \cup {NoUpload}]
    BY <1>3 DEF Removed, TypeInv, TypeOK
  <2> QED BY <1>1, <2>1, <2>2, <2>3 DEF GoneStays, Gone
<1> QED BY <1>1, <1>2, <1>3

LEMMA UploadGone ==
    ASSUME TypeInv, NEW u \in Uploads, Upload(u)
    PROVE  GoneStays
<1>1. \A v \in Uploads : NameOf[v] \in Names BY LandingAssumption
<1>2. uploaded \subseteq Uploads /\ inbound \in [Names -> Uploads \cup {NoUpload}]
  BY DEF TypeInv, TypeOK
<1> QED BY <1>1, <1>2 DEF Upload, GoneStays, Gone

\* What one instance does spends nothing of the others.
LEMMA OneSpends ==
    ASSUME GoneStays, NEW i \in Instances, NEW row \in Rows,
           \A j \in Instances \ {i} : monitor'[j] = monitor[j],
           \A b \in uploaded : SpentBy(i, b, row) => SpentBy(i, b, row)'
    PROVE  Spent(row) \subseteq Spent(row)'
<1>1. ASSUME NEW j \in Instances, NEW b \in uploaded, SpentBy(j, b, row) PROVE SpentBy(j, b, row)'
  <2>1. CASE j = i BY <1>1, <2>1
  <2>2. CASE j # i BY <1>1, <2>2 DEF SpentBy, GoneStays
  <2> QED BY <2>1, <2>2
<1>2. ASSUME NEW p \in Spent(row) PROVE p \in Spent(row)'
  <2>1. PICK j \in Instances, b \in SameName(UploadOf[row]) \cap uploaded : p = <<j, b>>
    BY <1>2 DEF Spent, Pool
  <2>2. SpentBy(j, b, row)' BY <1>1, <1>2, <2>1 DEF Spent
  <2>3. <<j, b>> \in Pool(row)' BY <2>1 DEF Pool, GoneStays, SameName
  <2> QED BY <2>1, <2>2, <2>3 DEF Spent
<1> QED BY <1>2

LEMMA StaysCareful ==
    ASSUME RepublishInv, NEW i \in Instances, Careful(i)',
           \A j \in Instances \ {i} : monitor'[j] = monitor[j]
    PROVE  \A j \in Instances : Careful(j)'
BY DEF RepublishInv, Careful, RowsIn

\* The loop goes on with another blob, or ends.
LEMMA RestsSpent ==
    ASSUME TypeInv, RepublishInv, GoneStays, NEW i \in Instances, Escapes(i) \/ GoesOn(i)
    PROVE  /\ Careful(i)'
           /\ \A b \in uploaded, row \in Rows :
                 SpentBy(i, b, row) /\ (monitor[i].phase \in Busy /\ b = monitor[i].blob => Gone(b)')
                    => SpentBy(i, b, row)'
<1>1. monitor \in [Instances -> MonitorState] /\ Careful(i) BY DEF TypeInv, TypeOK, RepublishInv
<1>2. monitor'[i].phase \notin Busy /\ monitor'[i].listed \subseteq monitor[i].listed
  <2>1. CASE Escapes(i) BY <1>1, <2>1 DEF Escapes, Becomes, Asleep, Busy
  <2>2. CASE GoesOn(i)
    <3> DEFINE s == [Asleep EXCEPT !.phase = "walking", !.listed = monitor[i].listed]
    <3>1. s.phase = "walking" /\ s.listed = monitor[i].listed BY DEF Asleep
    <3>2. monitor' = [monitor EXCEPT ![i] = s] BY <2>2 DEF GoesOn, Becomes
    <3> HIDE DEF s
    <3> QED BY <1>1, <3>1, <3>2 DEF Busy
  <2> QED BY <2>1, <2>2
<1>3. Careful(i)' BY <1>2 DEF Careful, Busy, Phase
<1> QED BY <1>1, <1>2, <1>3 DEF SpentBy, Careful, GoneStays

\* A session goes from one phase to another and spends nothing back.
LEMMA GoesToSpent ==
    ASSUME TypeInv, RepublishInv, GoneStays, NEW i \in Instances, NEW p \in Busy, GoesTo(i, p),
           monitor[i].phase \in Busy,
           p \in {"delete", "move", "moved"} \/ (p = "vault" /\ monitor[i].phase = "read")
    PROVE  /\ Careful(i)'
           /\ \A b \in uploaded, row \in Rows : SpentBy(i, b, row) => SpentBy(i, b, row)'
<1>1. Careful(i) BY DEF RepublishInv
<1>2. Careful(i)' BY <1>1, GoesToFields DEF Careful
<1> QED BY <1>2, GoesToFields DEF SpentBy, GoneStays, Busy, Phase

LEMMA StepCareful ==
    ASSUME TypeInv, LossInv, RepublishInv, NEW i \in Instances, Step(i) \/ InstanceDies(i)
    PROVE  Careful(i)'
<1>t. monitor \in [Instances -> MonitorState] /\ monitor[i] \in MonitorState /\ Careful(i)
  BY DEF TypeInv, TypeOK, RepublishInv
<1>g. GoneStays BY StepGone
<1>1. CASE Escapes(i) \/ GoesOn(i) BY <1>1, <1>g, RestsSpent
<1>2. CASE Poll(i)
  <2> DEFINE s == [Asleep EXCEPT !.phase = "walking", !.listed = {u \in Uploads : inbound[NameOf[u]] = u}]
  <2>1. s.phase = "walking" BY DEF Asleep
  <2>2. monitor' = [monitor EXCEPT ![i] = s] BY <1>2 DEF Poll, Becomes
  <2> HIDE DEF s
  <2> QED BY <1>t, <2>1, <2>2 DEF Careful, Busy
<1>3. ASSUME NEW u \in Uploads, Take(i, u)
      PROVE  Careful(i)'
  <2>1. PICK fields : Becomes(i, [Asleep EXCEPT !.phase = "download",
                             !.listed = monitor[i].listed \ {u}, !.blob = u, !.fields = fields])
    BY <1>3 DEF Take
  <2> DEFINE s == [Asleep EXCEPT !.phase = "download",
                             !.listed = monitor[i].listed \ {u}, !.blob = u, !.fields = fields]
  <2>2. s.phase = "download" /\ s.blob = u /\ s.listed = monitor[i].listed \ {u} BY DEF Asleep
  <2>3. monitor' = [monitor EXCEPT ![i] = s] BY <2>1 DEF Becomes
  <2> HIDE DEF s
  <2> QED BY <1>t, <2>2, <2>3 DEF Careful
<1>4. CASE Download(i)
  <2> DEFINE s == [monitor[i] EXCEPT !.phase = "read", !.content = Current(i)]
  <2>1. /\ s.phase = "read" /\ s.blob = monitor[i].blob /\ s.content = Current(i)
        /\ s.listed = monitor[i].listed
    BY <1>t DEF MonitorState
  <2>2. monitor' = [monitor EXCEPT ![i] = s] BY <1>4 DEF Download, Becomes
  <2>3. monitor[i].phase \in Busy /\ Current(i) # NoUpload BY <1>4 DEF Download, Busy, Phase
  <2>4. NameOf[Current(i)] = NameOf[monitor[i].blob]
    BY <2>3, Facts DEF LossInv, BucketSound, Current
  <2> HIDE DEF s
  <2> QED BY <1>t, <2>1, <2>2, <2>3, <2>4 DEF Careful
<1>5. ASSUME monitor[i].phase \in Busy, NEW p \in {"vault", "delete", "move", "moved"}, GoesTo(i, p),
             p = "vault" => monitor[i].phase = "read"
      PROVE  Careful(i)'
  BY <1>g, <1>5, GoesToSpent DEF Busy, Phase
<1>6. ASSUME NEW kept, ProcessRows(i, kept)
      PROVE  Careful(i)'
  <2> DEFINE s == [monitor[i] EXCEPT !.phase = "publish", !.left = kept]
  <2>1. /\ s.phase = "publish" /\ s.blob = monitor[i].blob /\ s.content = monitor[i].content
        /\ s.listed = monitor[i].listed /\ s.left = kept
    BY <1>t DEF MonitorState
  <2>2. monitor' = [monitor EXCEPT ![i] = s] BY <1>6 DEF ProcessRows, Becomes
  <2>3. monitor[i].phase = "vault" /\ monitor[i].phase \in Busy /\ kept \subseteq RowsIn(monitor[i].content)
    BY <1>6 DEF ProcessRows, Acceptable, Busy, Phase
  <2> HIDE DEF s
  <2> QED BY <1>t, <2>1, <2>2, <2>3 DEF Careful, RowsIn
<1>7. ASSUME NEW row, PublishRow(i, row)
      PROVE  Careful(i)'
  <2> DEFINE s == [monitor[i] EXCEPT !.left = monitor[i].left \ {row}]
  <2>1. /\ s.phase = monitor[i].phase /\ s.blob = monitor[i].blob /\ s.content = monitor[i].content
        /\ s.listed = monitor[i].listed /\ s.left = monitor[i].left \ {row}
    BY <1>t DEF MonitorState
  <2>2. monitor' = [monitor EXCEPT ![i] = s] BY <1>7 DEF PublishRow, Becomes
  <2> HIDE DEF s
  <2> QED BY <1>t, <2>1, <2>2 DEF Careful, RowsIn
<1>8. ASSUME \/ DownloadFails(i) \/ Read(i) \/ Rejected(i) \/ VaultFails(i) \/ Published(i)
             \/ DeleteFails(i) \/ MoveCopies(i) \/ \E landed \in SUBSET Rows : PublishFails(i, landed)
      PROVE  Careful(i)'
  <2>1. /\ monitor[i].phase \in Busy
        /\ \E p \in {"vault", "delete", "move", "moved"} :
              GoesTo(i, p) /\ (p = "vault" => monitor[i].phase = "read")
    BY <1>8 DEF DownloadFails, Read, Rejected, VaultFails, Published, DeleteFails, MoveCopies,
       PublishFails, Busy, Phase
  <2> QED BY <1>5, <2>1
<1>9. Sleep(i) \/ Delete(i) \/ MoveDeletes(i) \/ MoveFails(i) \/ InstanceDies(i)
         => Escapes(i) \/ GoesOn(i)
  BY DEF Sleep, Delete, MoveDeletes, MoveFails, InstanceDies, Escapes
<1> QED BY <1>1, <1>2, <1>3, <1>4, <1>6, <1>7, <1>8, <1>9 DEF Step

\* A step of one instance that publishes nothing and spends nothing back.
LEMMA KeepsAllPaid ==
    ASSUME TypeInv, TypeInv', RepublishInv, NEW i \in Instances, Step(i) \/ InstanceDies(i),
           UNCHANGED times,
           \A b \in uploaded, row \in Rows : SpentBy(i, b, row) => SpentBy(i, b, row)'
    PROVE  \A row \in Rows : TimesPaid(row)'
<1>1. GoneStays BY StepGone
<1>2. \A j \in Instances \ {i} : monitor'[j] = monitor[j]
  BY StepFaults DEF Becomes, TypeInv, TypeOK
<1>3. faults' = faults \/ faults' = faults + 1 BY StepFaults
<1>4. ASSUME NEW row \in Rows PROVE TimesPaid(row)'
  <2>1. Spent(row) \subseteq Spent(row)' BY <1>1, <1>2, OneSpends
  <2> QED BY <1>3, <2>1, KeepsPaid DEF RepublishInv
<1> QED BY <1>4

LEMMA WalkPaid ==
    ASSUME TypeInv, TypeInv', RepublishInv, NEW i \in Instances, Step(i),
           Poll(i) \/ Sleep(i) \/ \E u \in Uploads : Take(i, u)
    PROVE  \A row \in Rows : TimesPaid(row)'
<1>t. monitor \in [Instances -> MonitorState] BY DEF TypeInv, TypeOK
<1>g. GoneStays BY StepGone
<1>1. CASE Poll(i)
  <2> DEFINE s == [Asleep EXCEPT !.phase = "walking", !.listed = {u \in Uploads : inbound[NameOf[u]] = u}]
  <2>1. s.phase = "walking" /\ s.listed = {u \in Uploads : inbound[NameOf[u]] = u} BY DEF Asleep
  <2>2. monitor' = [monitor EXCEPT ![i] = s] /\ monitor[i].phase = "asleep" BY <1>1 DEF Poll, Becomes
  <2> HIDE DEF s
  <2>3. \A b \in uploaded, row \in Rows : SpentBy(i, b, row) => SpentBy(i, b, row)'
    BY <1>t, <1>g, <2>1, <2>2 DEF SpentBy, GoneStays, Gone, Busy
  <2> QED BY <1>1, <2>3, KeepsAllPaid DEF Poll
<1>2. CASE Sleep(i)
  <2>1. Escapes(i) /\ monitor[i].phase \notin Busy BY <1>2 DEF Sleep, Escapes, Busy
  <2>2. \A b \in uploaded, row \in Rows : SpentBy(i, b, row) => SpentBy(i, b, row)'
    BY <1>g, <2>1, RestsSpent
  <2> QED BY <1>2, <2>2, KeepsAllPaid DEF Sleep
<1>3. ASSUME NEW u \in Uploads, Take(i, u)
      PROVE  \A row \in Rows : TimesPaid(row)'
  <2>1. PICK fields : Becomes(i, [Asleep EXCEPT !.phase = "download",
                             !.listed = monitor[i].listed \ {u}, !.blob = u, !.fields = fields])
    BY <1>3 DEF Take
  <2> DEFINE s == [Asleep EXCEPT !.phase = "download",
                             !.listed = monitor[i].listed \ {u}, !.blob = u, !.fields = fields]
  <2>2. s.phase = "download" /\ s.blob = u /\ s.listed = monitor[i].listed \ {u} BY DEF Asleep
  <2>3. monitor' = [monitor EXCEPT ![i] = s] BY <2>1 DEF Becomes
  <2>4. monitor[i].phase = "walking" /\ u \in monitor[i].listed BY <1>3 DEF Take
  <2> HIDE DEF s
  <2>5. \A b \in uploaded, row \in Rows : SpentBy(i, b, row) => SpentBy(i, b, row)'
    BY <1>t, <1>g, <2>2, <2>3, <2>4 DEF SpentBy, GoneStays, Busy
  <2> QED BY <1>3, <2>5, KeepsAllPaid DEF Take
<1> QED BY <1>1, <1>2, <1>3

LEMMA ReadPaid ==
    ASSUME TypeInv, TypeInv', RepublishInv, NEW i \in Instances, Step(i),
           Download(i) \/ \E kept \in SUBSET Rows : ProcessRows(i, kept)
    PROVE  \A row \in Rows : TimesPaid(row)'
<1>t. monitor \in [Instances -> MonitorState] /\ monitor[i] \in MonitorState BY DEF TypeInv, TypeOK
<1>g. GoneStays BY StepGone
<1>1. CASE Download(i)
  <2> DEFINE s == [monitor[i] EXCEPT !.phase = "read", !.content = Current(i)]
  <2>1. s.phase = "read" /\ s.blob = monitor[i].blob /\ s.listed = monitor[i].listed
    BY <1>t DEF MonitorState
  <2>2. monitor' = [monitor EXCEPT ![i] = s] /\ monitor[i].phase = "download"
    BY <1>1 DEF Download, Becomes
  <2> HIDE DEF s
  <2>3. \A b \in uploaded, row \in Rows : SpentBy(i, b, row) => SpentBy(i, b, row)'
    BY <1>t, <1>g, <2>1, <2>2 DEF SpentBy, GoneStays, Busy, Phase
  <2> QED BY <1>1, <2>3, KeepsAllPaid DEF Download
<1>2. ASSUME NEW kept, ProcessRows(i, kept)
      PROVE  \A row \in Rows : TimesPaid(row)'
  <2> DEFINE s == [monitor[i] EXCEPT !.phase = "publish", !.left = kept]
  <2>1. s.phase = "publish" /\ s.blob = monitor[i].blob /\ s.listed = monitor[i].listed
    BY <1>t DEF MonitorState
  <2>2. monitor' = [monitor EXCEPT ![i] = s] /\ monitor[i].phase = "vault"
    BY <1>2 DEF ProcessRows, Becomes
  <2> HIDE DEF s
  <2>3. \A b \in uploaded, row \in Rows : SpentBy(i, b, row) => SpentBy(i, b, row)'
    BY <1>t, <1>g, <2>1, <2>2 DEF SpentBy, GoneStays, Busy, Phase
  <2> QED BY <1>2, <2>3, KeepsAllPaid DEF ProcessRows
<1> QED BY <1>1, <1>2

\* What an instance does for a row it has not published yet is not spent.
LEMMA OwesRow ==
    ASSUME TypeInv, LossInv, RepublishInv, NEW i \in Instances, GoneStays,
           monitor[i].phase = "publish", NEW row \in monitor[i].left
    PROVE  /\ <<i, monitor[i].blob>> \notin Spent(row)
           /\ <<i, monitor[i].blob>> \in Pool(row)'
           /\ row \in Rows
<1>1. monitor[i].phase \in Busy BY DEF Busy, Phase
<1>2. Careful(i) /\ Tracks(i) BY DEF RepublishInv, LossInv
<1>3. monitor[i].blob \in uploaded /\ monitor[i].blob \in Uploads BY <1>1, <1>2, Facts DEF Tracks
<1>4. row \in Rows /\ NameOf[UploadOf[row]] = NameOf[monitor[i].blob]
  BY <1>2 DEF Careful, RowsIn
<1>5. <<i, monitor[i].blob>> \in Pool(row)' BY <1>3, <1>4 DEF Pool, SameName, GoneStays
<1>6. ~SpentBy(i, monitor[i].blob, row) BY <1>1 DEF SpentBy
<1> QED BY <1>4, <1>5, <1>6 DEF Spent

LEMMA PublishPaid ==
    ASSUME TypeInv, TypeInv', LossInv, RepublishInv, NEW i \in Instances, Step(i),
           \/ \E row \in Rows : PublishRow(i, row)
           \/ \E landed \in SUBSET Rows : PublishFails(i, landed)
    PROVE  \A row \in Rows : TimesPaid(row)'
<1>t. /\ monitor \in [Instances -> MonitorState] /\ monitor[i] \in MonitorState
      /\ times \in [Rows -> Nat]
  BY DEF TypeInv, TypeOK
<1>g. GoneStays BY StepGone
<1>o. \A j \in Instances \ {i} : monitor'[j] = monitor[j]
  BY StepFaults DEF Becomes, TypeInv, TypeOK
<1>f. faults' = faults \/ faults' = faults + 1 BY StepFaults
<1>b. PICK b : b = monitor[i].blob OBVIOUS
<1> DEFINE p == <<i, b>>
<1>1. ASSUME NEW row \in Rows, PublishRow(i, row), NEW r \in Rows
      PROVE  TimesPaid(r)'
  <2> DEFINE s == [monitor[i] EXCEPT !.left = monitor[i].left \ {row}]
  <2>1. /\ s.phase = monitor[i].phase /\ s.blob = monitor[i].blob
        /\ s.listed = monitor[i].listed /\ s.left = monitor[i].left \ {row}
    BY <1>t DEF MonitorState
  <2>2. /\ monitor' = [monitor EXCEPT ![i] = s] /\ monitor[i].phase = "publish"
        /\ row \in monitor[i].left /\ times' = [times EXCEPT ![row] = times[row] + 1]
    BY <1>1 DEF PublishRow, Becomes
  <2> HIDE DEF s
  <2>3. \A c \in uploaded : SpentBy(i, c, r) => SpentBy(i, c, r)'
    BY <1>t, <1>g, <2>1, <2>2 DEF SpentBy, GoneStays, Busy, Phase
  <2>4. Spent(r) \subseteq Spent(r)' BY <1>g, <1>o, <2>3, OneSpends
  <2>5. CASE r # row
    <3>1. times'[r] = times[r] BY <1>t, <2>2, <2>5
    <3> QED BY <1>f, <2>4, <3>1, KeepsPaid DEF RepublishInv
  <2>6. CASE r = row
    <3>1. times'[r] = times[r] + 1 BY <1>t, <2>2, <2>6
    <3>2. p \notin Spent(r) /\ p \in Pool(r)' BY <1>b, <1>g, <2>2, <2>6, OwesRow
    <3>3. SpentBy(i, b, r)' BY <1>b, <1>t, <2>1, <2>2, <2>6 DEF SpentBy, Busy, Phase
    <3>4. p \in Spent(r)' BY <3>2, <3>3 DEF Spent
    <3> QED BY <1>f, <2>4, <3>1, <3>2, <3>4, PaysOnce DEF RepublishInv
  <2> QED BY <2>5, <2>6
<1>2. ASSUME NEW landed \in SUBSET Rows, PublishFails(i, landed), NEW r \in Rows
      PROVE  TimesPaid(r)'
  <2>1. /\ GoesTo(i, "move") /\ monitor[i].phase = "publish" /\ landed \subseteq monitor[i].left
        /\ times' = [row \in Rows |-> times[row] + (IF row \in landed THEN 1 ELSE 0)]
    BY <1>2 DEF PublishFails
  <2>2. monitor[i].phase \in Busy BY <2>1 DEF Busy, Phase
  <2>3. \A c \in uploaded : SpentBy(i, c, r) => SpentBy(i, c, r)'
    BY <1>g, <2>1, <2>2, GoesToSpent DEF Busy, Phase
  <2>4. Spent(r) \subseteq Spent(r)' BY <1>g, <1>o, <2>3, OneSpends
  <2>5. CASE r \notin landed
    <3>1. times'[r] = times[r] BY <1>t, <2>1, <2>5
    <3> QED BY <1>f, <2>4, <3>1, KeepsPaid DEF RepublishInv
  <2>6. CASE r \in landed
    <3>1. times'[r] = times[r] + 1 BY <1>t, <2>1, <2>6
    <3>2. p \notin Spent(r) /\ p \in Pool(r)' BY <1>b, <1>g, <2>1, <2>6, OwesRow
    <3>3. SpentBy(i, b, r)'
      BY <1>b, <2>1, <2>2, GoesToFields DEF SpentBy, Busy, Phase
    <3>4. p \in Spent(r)' BY <3>2, <3>3 DEF Spent
    <3> QED BY <1>f, <2>4, <3>1, <3>2, <3>4, PaysOnce DEF RepublishInv
  <2> QED BY <2>5, <2>6
<1> QED BY <1>1, <1>2

LEMMA MovePaid ==
    ASSUME TypeInv, TypeInv', RepublishInv, NEW i \in Instances, Step(i),
           \/ DownloadFails(i) \/ Read(i) \/ Rejected(i) \/ VaultFails(i) \/ Published(i)
           \/ DeleteFails(i) \/ MoveCopies(i)
    PROVE  \A row \in Rows : TimesPaid(row)'
<1>g. GoneStays BY StepGone
<1>1. /\ monitor[i].phase \in Busy /\ UNCHANGED times
      /\ \E p \in {"vault", "delete", "move", "moved"} :
            GoesTo(i, p) /\ (p = "vault" => monitor[i].phase = "read")
  BY DEF DownloadFails, Read, Rejected, VaultFails, Published, DeleteFails, MoveCopies, Busy, Phase
<1>2. \A b \in uploaded, row \in Rows : SpentBy(i, b, row) => SpentBy(i, b, row)'
  BY <1>g, <1>1, GoesToSpent DEF Busy, Phase
<1> QED BY <1>1, <1>2, KeepsAllPaid

\* An instance that ends its work on a blob has either seen the blob gone or
\* failed, and then one failure pays for all its rows.
LEMMA EndPaid ==
    ASSUME TypeInv, TypeInv', LossInv, RepublishInv, NEW i \in Instances, Step(i) \/ InstanceDies(i),
           Delete(i) \/ MoveDeletes(i) \/ MoveFails(i) \/ InstanceDies(i)
    PROVE  \A row \in Rows : TimesPaid(row)'
<1>g. GoneStays BY StepGone
<1>o. \A j \in Instances \ {i} : monitor'[j] = monitor[j]
  BY StepFaults DEF Becomes, TypeInv, TypeOK
<1>t. UNCHANGED times /\ (Escapes(i) \/ GoesOn(i))
  BY DEF Delete, MoveDeletes, MoveFails, InstanceDies, Escapes
<1>b. PICK blob : blob = monitor[i].blob OBVIOUS
<1>1. CASE monitor[i].phase \in Busy => Gone(blob)'
  <2>1. \A b \in uploaded, row \in Rows : SpentBy(i, b, row) => SpentBy(i, b, row)'
    BY <1>b, <1>g, <1>t, <1>1, RestsSpent
  <2> QED BY <1>t, <2>1, KeepsAllPaid
<1>2. CASE faults' = faults + 1
  <2>1. ASSUME NEW row \in Rows PROVE TimesPaid(row)'
    <3> DEFINE p == <<i, blob>>
    <3>1. \A b \in uploaded : b # blob => (SpentBy(i, b, row) => SpentBy(i, b, row)')
      BY <1>b, <1>g, <1>t, RestsSpent
    <3>2. ASSUME NEW q \in Spent(row), q # p PROVE q \in Spent(row)'
      <4>1. PICK j \in Instances, b \in SameName(UploadOf[row]) \cap uploaded : q = <<j, b>>
        BY <3>2 DEF Spent, Pool
      <4>2. SpentBy(j, b, row) BY <3>2, <4>1 DEF Spent
      <4>3. SpentBy(j, b, row)'
        <5>1. CASE j = i BY <3>1, <3>2, <4>1, <4>2, <5>1
        <5>2. CASE j # i BY <1>g, <1>o, <4>2, <5>2 DEF SpentBy, GoneStays
        <5> QED BY <5>1, <5>2
      <4>4. q \in Pool(row)' BY <1>g, <4>1 DEF Pool, GoneStays, SameName
      <4> QED BY <4>1, <4>3, <4>4 DEF Spent
    <3>3. Spent(row) \subseteq Spent(row)' \cup {p} BY <3>2
    <3> HIDE DEF p
    <3> QED BY <1>t, <1>2, <3>3, GivesBack DEF RepublishInv
  <2> QED BY <2>1
<1>3. (monitor[i].phase \in Busy => Gone(blob)') \/ faults' = faults + 1
  <2>1. CASE Delete(i) \/ MoveDeletes(i)
    <3>1. inbound' = Removed(i) /\ monitor[i].phase \in Busy
      BY <2>1 DEF Delete, MoveDeletes, Busy, Phase
    <3>2. monitor[i].blob \in Uploads /\ NameOf[monitor[i].blob] \in Names BY <3>1, Facts
    <3>3. monitor[i].blob # NoUpload /\ inbound \in [Names -> Uploads \cup {NoUpload}]
      BY <3>2, LandingAssumption DEF TypeInv, TypeOK
    <3>4. inbound'[NameOf[monitor[i].blob]] = NoUpload BY <3>1, <3>2, <3>3 DEF Removed
    <3> QED BY <1>b, <3>3, <3>4 DEF Gone
  <2>2. CASE MoveFails(i) /\ UNCHANGED inbound /\ Current(i) # monitor[i].blob
    BY <1>b, <2>2 DEF Gone, Current
  <2>3. CASE MoveFails(i) /\ ~(UNCHANGED inbound /\ Current(i) # monitor[i].blob)
    <3>1. monitor[i].phase \in Busy BY <2>3 DEF MoveFails, Busy, Phase
    <3>2. monitor[i].blob # NoUpload BY <3>1, Facts, LandingAssumption
    <3> QED BY <2>3, <3>2 DEF MoveFails, Fault, Listed
  <2>4. CASE InstanceDies(i) BY <2>4 DEF InstanceDies, Fault
  <2> QED BY <2>1, <2>2, <2>3, <2>4
<1> QED BY <1>1, <1>2, <1>3

LEMMA StepRepublish ==
    ASSUME TypeInv, TypeInv', LossInv, RepublishInv, NEW i \in Instances, Step(i) \/ InstanceDies(i)
    PROVE  RepublishInv'
<1>1. \A j \in Instances \ {i} : monitor'[j] = monitor[j]
  BY StepFaults DEF Becomes, TypeInv, TypeOK
<1>2. \A j \in Instances : Careful(j)' BY <1>1, StepCareful, StaysCareful
<1>3. \A row \in Rows : TimesPaid(row)'
  BY WalkPaid, ReadPaid, PublishPaid, MovePaid, EndPaid DEF Step
<1> QED BY <1>2, <1>3 DEF RepublishInv

LEMMA NextRepublish ==
    ASSUME TypeInv, TypeInv', LossInv, RepublishInv, [Next]_vars
    PROVE  RepublishInv'
<1>1. ASSUME GoneStays, UNCHANGED <<monitor, times>>, faults' = faults \/ faults' = faults + 1
      PROVE  RepublishInv'
  <2>1. \A i \in Instances : Careful(i)' BY <1>1 DEF RepublishInv, Careful, RowsIn
  <2>2. ASSUME NEW row \in Rows PROVE TimesPaid(row)'
    <3>1. ASSUME NEW q \in Spent(row) PROVE q \in Spent(row)'
      <4>1. PICK j \in Instances, b \in SameName(UploadOf[row]) \cap uploaded : q = <<j, b>>
        BY <3>1 DEF Spent, Pool
      <4>2. SpentBy(j, b, row)' BY <1>1, <3>1, <4>1 DEF Spent, SpentBy, GoneStays
      <4>3. q \in Pool(row)' BY <1>1, <4>1 DEF Pool, GoneStays, SameName
      <4> QED BY <4>1, <4>2, <4>3 DEF Spent
    <3> QED BY <1>1, <3>1, KeepsPaid DEF RepublishInv
  <2> QED BY <2>1, <2>2 DEF RepublishInv
<1>2. ASSUME NEW u \in Uploads, Upload(u) PROVE RepublishInv'
  <2>1. UNCHANGED <<monitor, times, faults>> BY <1>2 DEF Upload
  <2> QED BY <1>1, <1>2, <2>1, UploadGone
<1>3. ASSUME NEW i \in Instances, NEW row \in Rows, ReportSink(i, row) \/ ReportSinkFails(i, row)
      PROVE  RepublishInv'
  <2>1. /\ UNCHANGED <<monitor, times, inbound, uploaded>>
        /\ faults' = faults \/ faults' = faults + 1
    BY <1>3 DEF ReportSink, ReportSinkFails, Fault, bucket
  <2> QED BY <1>1, <2>1 DEF GoneStays, Gone
<1>4. CASE UNCHANGED vars
  <2>1. UNCHANGED <<monitor, times, inbound, uploaded, faults>> BY <1>4 DEF vars
  <2> QED BY <1>1, <2>1 DEF GoneStays, Gone
<1> QED BY <1>2, <1>3, <1>4, StepRepublish DEF Next

LEMMA InitRepublish == Init => RepublishInv
<1> SUFFICES ASSUME Init PROVE RepublishInv OBVIOUS
<1>1. \A i \in Instances : Careful(i) BY DEF Init, Careful, Asleep, Busy
<1>2. ASSUME NEW row \in Rows PROVE TimesPaid(row)
  <2>1. times[row] = 0 /\ faults = 0 BY DEF Init
  <2> QED BY <2>1, SpentFinite DEF TimesPaid
<1> QED BY <1>1, <1>2 DEF RepublishInv

LEMMA BoundFollows ==
    ASSUME TypeInv, RepublishInv
    PROVE  RepublishBounded
<1>1. ASSUME NEW row \in Rows
      PROVE  times[row] <= faults + Cardinality(Instances)
                                    * Cardinality(SameName(UploadOf[row]) \cap uploaded)
  <2> DEFINE bound == Cardinality(Instances) * Cardinality(SameName(UploadOf[row]) \cap uploaded)
  <2>1. Spent(row) \subseteq Pool(row) BY DEF Spent
  <2>2. Cardinality(Spent(row)) <= Cardinality(Pool(row)) BY <2>1, PoolFinite, FS_Subset
  <2>3. Cardinality(Pool(row)) = bound BY PoolFinite
  <2>4. Cardinality(Pool(row)) \in Nat BY PoolFinite, FS_CardinalityType
  <2>5. faults \in Nat /\ times[row] \in Nat BY Numbers DEF TypeInv, TypeOK
  <2>6. times[row] <= faults + Cardinality(Spent(row)) BY DEF RepublishInv, TimesPaid
  <2> HIDE DEF bound
  <2>7. times[row] <= faults + bound BY <2>2, <2>3, <2>4, <2>5, <2>6, SpentFinite
  <2> QED BY <2>7 DEF bound
<1> QED BY <1>1 DEF RepublishBounded

\* A row is on the PII topic at most once for each instance and upload of the
\* same name, and once for each failure.
THEOREM RepublishPaidFor == Spec => []RepublishBounded
<1>1. Init => TypeInv /\ LossInv /\ RepublishInv BY InitType, InitLoses, InitRepublish
<1>2. TypeInv /\ LossInv /\ RepublishInv /\ [Next]_vars => (TypeInv /\ LossInv /\ RepublishInv)'
  BY NextType, NextLoses, NextRepublish
<1>3. TypeInv /\ RepublishInv => RepublishBounded BY BoundFollows
<1> QED BY <1>1, <1>2, <1>3, PTL DEF Spec
=============================================================================
