--------------------------- MODULE DownloadProofs ---------------------------
(***************************************************************************)
(* Proofs about Download for any artifact sizes, any server behaviour and  *)
(* any number of faults.  The invariant says what each stage of a call     *)
(* knows of the .part file.                                                *)
(***************************************************************************)
EXTENDS Download, TLAPS

Chunk == Release \X Nat

Aligned(f) == \A i \in 1..Len(f) : f[i][2] = i

(* A call is about a published release. *)
WantedInv == wanted <= latest

(* The length a range request is about is that of the part file. *)
OpenInv ==
    pc = "open" /\ existing > 0 =>
        part # NoFile /\ part \in Seq(Chunk) /\ existing = Len(part)

(* While the body is read, the next chunk goes to the end of the file,     *)
(* unless a write has failed.                                              *)
BodyInv ==
    pc = "body" => part \in Seq(Chunk) /\ (~failbit => sent = Len(part))

(* The part file that replaces the destination is the one that was         *)
(* verified.                                                               *)
VerifiedInv == pc \in {"replace", "rename"} => part = Content(wanted)

AlignedInv == part # NoFile \/ pc = "body" => Aligned(part)

Inv ==
    /\ TypeOK
    /\ WantedInv
    /\ OpenInv
    /\ BodyInv
    /\ VerifiedInv
    /\ AlignedInv
    /\ DestinationWhole
    /\ CredentialsStayAtOrigin

(* Releases are numbered from 1. *)
LEMMA ReleaseFacts ==
  /\ Len(Size) \in Nat \ {0}
  /\ Release = 1..Len(Size)
  /\ \A r \in Release : Size[r] \in Nat \ {0}
  BY DownloadAssumption DEF Release

(* The initial state satisfies the invariant. *)
LEMMA InitInv == Init => Inv
<1> SUFFICES ASSUME Init PROVE Inv  OBVIOUS
<1> USE DownloadAssumption, ReleaseFacts DEF Init
<1>1. TypeOK
  <2>1. part \in File /\ dest \in File  BY DEF File
  <2>2. 1 \in Release /\ 0 \in 0..(MaxRedirects - 1) /\ 0 \in 0..MaxFaults  OBVIOUS
  <2> QED  BY <2>1, <2>2 DEF TypeOK
<1> QED
  BY <1>1 DEF Inv, WantedInv, OpenInv, BodyInv, VerifiedInv, AlignedInv,
              DestinationWhole, CredentialsStayAtOrigin

(* A call that ends without touching the destination, and leaves the part  *)
(* file as it was, deletes it or truncates it.                             *)
LEMMA ReturnInv ==
  ASSUME Inv, Return, UNCHANGED <<dest, app>>, faults' \in 0..MaxFaults,
         \/ part' = part
         \/ part' = NoFile
         \/ pc = "body" /\ \E n \in 0..Len(part) : part' = SubSeq(part, 1, n)
  PROVE  Inv'
<1> USE DownloadAssumption, ReleaseFacts DEF Inv, Return, app
<1>1. (part' = NoFile \/ part' \in File) /\ (part' # NoFile => Aligned(part'))
  <2>1. CASE part' = part  BY <2>1 DEF TypeOK, AlignedInv
  <2>2. CASE part' = NoFile  BY <2>2
  <2>3. ASSUME pc = "body", NEW n \in 0..Len(part), part' = SubSeq(part, 1, n)
        PROVE  part' \in File /\ Aligned(part')
    <3>1. part \in Seq(Chunk) /\ Aligned(part)  BY <2>3 DEF BodyInv, AlignedInv
    <3>2. /\ SubSeq(part, 1, n) \in Seq(Chunk)
          /\ Len(SubSeq(part, 1, n)) = n
          /\ \A i \in 1..n : SubSeq(part, 1, n)[i] = part[i]
      BY <3>1
    <3>3. Aligned(SubSeq(part, 1, n))  BY <3>1, <3>2 DEF Aligned
    <3> QED  BY <2>3, <3>2, <3>3 DEF File, Chunk
  <2> QED  BY <2>1, <2>2, <2>3
<1>2. TypeOK'
  <2>1. part' \in File /\ dest' \in File  BY <1>1 DEF TypeOK, File
  <2>2. 1 \in Release /\ 0 \in 0..(MaxRedirects - 1)  OBVIOUS
  <2> QED  BY <2>1, <2>2 DEF TypeOK
<1>3. AlignedInv'  BY <1>1 DEF AlignedInv
<1>4. DestinationWhole'  BY DEF DestinationWhole, Content
<1> QED
  BY <1>2, <1>3, <1>4 DEF WantedInv, OpenInv, BodyInv, VerifiedInv, CredentialsStayAtOrigin

(* The answer whose body is written: trunc starts the file at 0, appending *)
(* continues it at its length.                                             *)
LEMMA OpenOutputInv ==
  ASSUME Inv, NEW s \in Release, NEW appending \in BOOLEAN, NEW start \in Nat,
         pc = "open", OpenOutput(appending, start), body' = s,
         appending => part \in Seq(Chunk) /\ start = Len(part) /\ part # NoFile,
         ~appending => start = 0,
         existing' \in Nat, expected' \in Nat, faults' \in 0..MaxFaults,
         UNCHANGED <<dest, app, wanted, attempt, target>>
  PROVE  Inv'
<1> USE DEF Inv, OpenOutput, app, target
<1>1. /\ part' \in Seq(Chunk) /\ sent' = Len(part') /\ Aligned(part')
  <2>1. CASE appending  BY <2>1 DEF AlignedInv
  <2>2. CASE ~appending
    <3>1. part' = <<>> /\ sent' = 0  BY <2>2
    <3>2. Aligned(<<>>) /\ <<>> \in Seq(Chunk) /\ Len(<<>>) = 0  BY DEF Aligned
    <3> QED  BY <3>1, <3>2
  <2> QED  BY <2>1, <2>2
<1>2. TypeOK'
  <2>1. part' \in File /\ dest' \in File  BY <1>1 DEF TypeOK, File, Chunk
  <2> QED  BY <2>1 DEF TypeOK
<1>3. BodyInv' /\ AlignedInv'  BY <1>1 DEF BodyInv, AlignedInv
<1>4. DestinationWhole'  BY DEF DestinationWhole, Content
<1>5. WantedInv' /\ OpenInv' /\ VerifiedInv' /\ CredentialsStayAtOrigin'
  BY DEF WantedInv, OpenInv, VerifiedInv, CredentialsStayAtOrigin
<1> QED  BY <1>2, <1>3, <1>4, <1>5

(* The fault counter stays within its bound. *)
LEMMA FaultFacts ==
  ASSUME TypeOK, UNCHANGED faults \/ Fault PROVE faults' \in 0..MaxFaults
<1>1. MaxFaults \in Nat /\ faults \in 0..MaxFaults  BY DownloadAssumption DEF TypeOK
<1> QED  BY <1>1 DEF Fault

(* The answers to a request. *)
LEMMA AnswerInv == ASSUME Inv, Answer PROVE Inv'
<1> USE DownloadAssumption, ReleaseFacts
<1>1. ASSUME NEW s \in Release, NEW known \in BOOLEAN, FullContent(s, known) PROVE Inv'
  <2>1. /\ pc = "open" /\ OpenOutput(FALSE, 0) /\ body' = s
        /\ existing' \in Nat /\ expected' \in Nat
        /\ UNCHANGED <<dest, app, wanted, attempt, target>>
    BY <1>1 DEF FullContent
  <2>2. faults' \in 0..MaxFaults
    <3>1. UNCHANGED faults \/ Fault  BY <1>1 DEF FullContent
    <3> QED  BY <3>1, FaultFacts DEF Inv
  <2> QED  BY <2>1, <2>2, OpenOutputInv
<1>2. ASSUME NEW s \in Release, NEW known \in BOOLEAN, NEW start \in 0..(Size[s] - 1),
             PartialContent(s, start, known)
      PROVE  Inv'
  <2>0. pc = "open" /\ UNCHANGED <<dest, app>>  BY <1>2 DEF PartialContent
  <2>1. faults' \in 0..MaxFaults
    <3>1. UNCHANGED faults \/ Fault  BY <1>2 DEF PartialContent
    <3> QED  BY <3>1, FaultFacts DEF Inv
  <2>2. CASE start = existing /\ OpenOutput(existing > 0, existing)
             /\ expected' = (IF known THEN Size[s] ELSE existing)
             /\ body' = s /\ UNCHANGED <<existing, attempt, target, wanted>>
    <3>1. existing \in Nat /\ existing' \in Nat /\ expected' \in Nat /\ (existing > 0) \in BOOLEAN
      BY <2>2 DEF Inv, TypeOK
    <3>2. existing > 0 => part \in Seq(Chunk) /\ existing = Len(part)
      BY <2>0 DEF Inv, OpenInv
    <3>3. CASE existing > 0 /\ part # NoFile
      <4>1. OpenOutput(TRUE, existing)  BY <2>2, <3>3
      <4> QED  BY <2>0, <2>1, <2>2, <3>1, <3>2, <3>3, <4>1, OpenOutputInv
    <3>4. CASE ~(existing > 0)
      <4>1. existing = 0 /\ (existing > 0) = FALSE  BY <3>1, <3>4
      <4>2. OpenOutput(FALSE, 0)
        <5>1. OpenOutput(existing > 0, existing)  BY <2>2
        <5> QED  BY <4>1, <5>1, Zenon
      <4> QED  BY <2>0, <2>1, <2>2, <3>1, <4>2, OpenOutputInv
    <3>5. existing > 0 => part # NoFile  BY <2>0 DEF Inv, OpenInv
    <3> QED  BY <3>3, <3>4, <3>5
  <2>3. CASE /\ existing' = 0 /\ attempt' = 1
             /\ UNCHANGED <<part, pc, wanted, append, expected, written, target, stream>>
    BY <2>0, <2>1, <2>3
    DEF Inv, app, target, stream, TypeOK, WantedInv, OpenInv, BodyInv, VerifiedInv,
        AlignedInv, DestinationWhole, Content, CredentialsStayAtOrigin
  <2>4. CASE Return /\ UNCHANGED part  BY <2>0, <2>1, <2>4, ReturnInv
  <2> QED  BY <1>2, <2>2, <2>3, <2>4 DEF PartialContent
<1>3. CASE RangeNotSatisfiable
  <2>1. Return /\ UNCHANGED <<part, dest, app>> /\ faults' \in 0..MaxFaults
    BY <1>3 DEF RangeNotSatisfiable, files, Inv, TypeOK
  <2> QED  BY <2>1, ReturnInv
<1> QED  BY <1>1, <1>2, <1>3 DEF Answer, RangeStarts

(* Reading the body. *)
LEMMA BodyStepInv ==
  ASSUME Inv, ReadChunk \/ WriteFails \/ StreamEnds PROVE Inv'
<1> USE DownloadAssumption, ReleaseFacts DEF Inv
<1>1. CASE ReadChunk
  <2>1. /\ pc = "body" /\ part \in Seq(Chunk) /\ Aligned(part)
        /\ body \in Release /\ sent \in Nat
        /\ sent' = sent + 1 /\ written' \in Nat
        /\ UNCHANGED <<dest, app, pc, wanted, existing, append, expected, attempt,
                       target, body, failbit, faults>>
    BY <1>1 DEF ReadChunk, BodyInv, AlignedInv, TypeOK
  <2>2. CASE failbit
    <3>1. part' = part  BY <1>1, <2>2 DEF ReadChunk
    <3> QED  BY <2>1, <2>2, <3>1
      DEF app, target, TypeOK, WantedInv, OpenInv, BodyInv, VerifiedInv,
          AlignedInv, DestinationWhole, Content, CredentialsStayAtOrigin
  <2>3. CASE ~failbit
    <3>1. part' = Append(part, <<body, sent + 1>>) /\ sent = Len(part)
      BY <1>1, <2>3 DEF ReadChunk, BodyInv
    <3>2. <<body, sent + 1>> \in Chunk  BY <2>1 DEF Chunk
    <3>3. /\ part' \in Seq(Chunk) /\ Len(part') = Len(part) + 1
          /\ \A i \in 1..Len(part) : part'[i] = part[i]
          /\ part'[Len(part) + 1] = <<body, sent + 1>>
      BY <2>1, <3>1, <3>2
    <3>4. Aligned(part')
      <4>1. \A i \in 1..Len(part) : part'[i][2] = i  BY <2>1, <3>3 DEF Aligned
      <4>2. part'[Len(part) + 1][2] = Len(part) + 1  BY <3>1, <3>3
      <4>3. Len(part) \in Nat  BY <2>1
      <4> QED  BY <3>3, <4>1, <4>2, <4>3 DEF Aligned
    <3>5. part' \in File /\ dest' \in File  BY <2>1, <3>3 DEF TypeOK, File, Chunk
    <3>6. TypeOK'  BY <2>1, <3>5 DEF TypeOK, app, target
    <3>7. BodyInv' /\ AlignedInv'  BY <2>1, <3>1, <3>3, <3>4 DEF BodyInv, AlignedInv
    <3>8. DestinationWhole'  BY <2>1 DEF DestinationWhole, Content, app
    <3> QED  BY <2>1, <3>6, <3>7, <3>8
      DEF WantedInv, OpenInv, VerifiedInv, CredentialsStayAtOrigin, app, target
  <2> QED  BY <2>2, <2>3
<1>2. CASE WriteFails
  BY <1>2
  DEF WriteFails, Fault, files, app, target, lengths, TypeOK, WantedInv, OpenInv, BodyInv,
      VerifiedInv, AlignedInv, DestinationWhole, Content, CredentialsStayAtOrigin
<1>3. CASE StreamEnds
  <2>1. faults' \in 0..MaxFaults
    <3>1. UNCHANGED faults \/ Fault  BY <1>3 DEF StreamEnds
    <3> QED  BY <3>1, FaultFacts
  <2>2. /\ pc = "body" /\ pc' = "check"
        /\ UNCHANGED <<files, app, wanted, lengths, target, stream>>
    BY <1>3 DEF StreamEnds
  <2> QED  BY <2>1, <2>2
    DEF files, app, target, lengths, stream, TypeOK, WantedInv, OpenInv, BodyInv,
        VerifiedInv, AlignedInv, DestinationWhole, Content, CredentialsStayAtOrigin
<1> QED  BY <1>1, <1>2, <1>3

(* From the end of the body to the destination. *)
LEMMA ReplaceInv ==
  ASSUME Inv, CheckLength \/ VerifyDownload \/ RemoveDestination \/ RenamePart
  PROVE  Inv'
<1> USE DownloadAssumption, ReleaseFacts
<1>1. CASE CheckLength
  <2>1. UNCHANGED <<dest, app, faults>> /\ pc = "check" /\ faults' \in 0..MaxFaults
    BY <1>1 DEF CheckLength, Inv, TypeOK
  <2>2. CASE part' = NoFile /\ Return  BY <2>1, <2>2, ReturnInv
  <2>3. CASE pc' = "verify" /\ UNCHANGED <<part, wanted, lengths, target, stream>>
    <3>1. DestinationWhole'  BY <2>1 DEF Inv, app, DestinationWhole, Content
    <3>2. TypeOK'
      BY <2>1, <2>3 DEF Inv, app, target, lengths, stream, TypeOK
    <3> QED  BY <2>1, <2>3, <3>1, <3>2
      DEF Inv, app, target, lengths, stream, WantedInv, OpenInv, BodyInv, VerifiedInv,
          AlignedInv, Content, CredentialsStayAtOrigin
  <2> QED  BY <1>1, <2>2, <2>3 DEF CheckLength
<1>2. CASE VerifyDownload
  <2>1. UNCHANGED <<dest, app, faults>> /\ pc = "verify" /\ faults' \in 0..MaxFaults
    BY <1>2 DEF VerifyDownload, Inv, TypeOK
  <2>2. CASE part' = NoFile /\ Return  BY <2>1, <2>2, ReturnInv
  <2>3. CASE /\ part = Content(wanted) /\ pc' = "replace"
             /\ UNCHANGED <<part, wanted, lengths, target, stream>>
    <3>1. DestinationWhole'  BY <2>1 DEF Inv, app, DestinationWhole, Content
    <3>2. TypeOK'
      BY <2>1, <2>3 DEF Inv, app, target, lengths, stream, TypeOK
    <3> QED  BY <2>1, <2>3, <3>1, <3>2
      DEF Inv, app, target, lengths, stream, WantedInv, OpenInv, BodyInv, VerifiedInv,
          AlignedInv, Content, CredentialsStayAtOrigin
  <2> QED  BY <1>2, <2>2, <2>3 DEF VerifyDownload
<1>3. CASE RemoveDestination
  <2>1. dest' \in {NoFile, dest} /\ faults' \in 0..MaxFaults
    <3>1. dest' \in {NoFile, dest} /\ (UNCHANGED faults \/ Fault)
      BY <1>3 DEF RemoveDestination
    <3> QED  BY <3>1, FaultFacts DEF Inv
  <2>2. DestinationWhole'
    BY <1>3, <2>1 DEF RemoveDestination, Inv, DestinationWhole, Content, app
  <2>3. dest' \in File  BY <2>1 DEF Inv, TypeOK, File
  <2> QED
    BY <1>3, <2>1, <2>2, <2>3
    DEF RemoveDestination, Inv, app, target, lengths, stream, TypeOK, WantedInv, OpenInv,
        BodyInv, VerifiedInv, AlignedInv, Content, CredentialsStayAtOrigin
<1>4. CASE RenamePart
  <2>1. /\ dest' = part /\ part = Content(wanted) /\ part' = NoFile
        /\ installed' = wanted /\ Return /\ UNCHANGED <<latest, refused, baseSlash, url, faults>>
    BY <1>4 DEF RenamePart, Inv, VerifiedInv
  <2>2. wanted \in 1..latest  BY DEF Inv, TypeOK, WantedInv
  <2>3. DestinationWhole'  BY <2>1, <2>2 DEF DestinationWhole, Content
  <2>4. TypeOK'
    <3>1. part' \in File /\ dest' \in File  BY <2>1 DEF Inv, TypeOK, File
    <3>2. 1 \in Release /\ 0 \in 0..(MaxRedirects - 1)  OBVIOUS
    <3> QED  BY <2>1, <3>1, <3>2 DEF Inv, TypeOK, Return
  <2> QED
    BY <2>1, <2>3, <2>4
    DEF Inv, Return, WantedInv, OpenInv, BodyInv, VerifiedInv, AlignedInv,
        CredentialsStayAtOrigin
<1> QED  BY <1>1, <1>2, <1>3, <1>4

(* The faults that end a call. *)
LEMMA FailureInv ==
  ASSUME Inv, OpenFails \/ ReadFails \/ RenameFails \/ Crash PROVE Inv'
<1>1. /\ Return /\ UNCHANGED <<dest, app>> /\ Fault
      /\ part' = part \/ (pc = "body" /\ \E n \in 0..Len(part) : part' = SubSeq(part, 1, n))
  BY DEF OpenFails, ReadFails, RenameFails, Crash, files
<1>2. faults' \in 0..MaxFaults  BY <1>1, DownloadAssumption DEF Fault, Inv, TypeOK
<1> QED  BY <1>1, <1>2, ReturnInv

(* Redirects, new releases and new calls. *)
LEMMA OtherInv == ASSUME Inv, Redirect \/ PublishRelease \/ BeginCall \/ RefuseUpdate PROVE Inv'
<1> USE DownloadAssumption, ReleaseFacts
<1>1. CASE Redirect
  <2>1. UNCHANGED <<part, dest, app>> /\ faults' \in 0..MaxFaults
    BY <1>1 DEF Redirect, Fault, files, Inv, TypeOK
  <2>2. CASE Return  BY <2>1, <2>2, ReturnInv
  <2>3. CASE /\ redirects + 1 < MaxRedirects /\ redirects' = redirects + 1
             /\ authenticated' = FALSE /\ host' \in {"origin", "other"}
             /\ UNCHANGED <<pc, wanted, lengths, stream>>
    <3>1. redirects' \in 0..(MaxRedirects - 1)
      <4>1. redirects \in Nat /\ MaxRedirects \in Nat  BY DEF Inv, TypeOK
      <4> QED  BY <2>3, <4>1
    <3>2. TypeOK'  BY <2>1, <2>3, <3>1 DEF Inv, app, lengths, stream, TypeOK
    <3>3. WantedInv' /\ OpenInv' /\ BodyInv' /\ VerifiedInv' /\ AlignedInv'
      BY <2>1, <2>3
      DEF Inv, app, lengths, stream, WantedInv, OpenInv, BodyInv, VerifiedInv,
          AlignedInv, Content
    <3>4. DestinationWhole'  BY <2>1 DEF Inv, app, DestinationWhole, Content
    <3>5. CredentialsStayAtOrigin'  BY <2>3 DEF CredentialsStayAtOrigin
    <3> QED  BY <3>2, <3>3, <3>4, <3>5 DEF Inv
  <2> QED  BY <1>1, <2>2, <2>3 DEF Redirect, RedirectHosts
<1>2. CASE PublishRelease
  <2>1. latest' \in Release /\ latest' > latest /\ latest \in Release
    BY <1>2 DEF PublishRelease, Inv, TypeOK
  <2>2. DestinationWhole'
    BY <1>2, <2>1 DEF PublishRelease, files, Inv, DestinationWhole, Content
  <2>3. WantedInv'  BY <1>2, <2>1 DEF PublishRelease, Inv, TypeOK, WantedInv
  <2> QED
    BY <1>2, <2>1, <2>2, <2>3
    DEF PublishRelease, Inv, files, target, lengths, stream, TypeOK, OpenInv, BodyInv,
        VerifiedInv, AlignedInv, Content, CredentialsStayAtOrigin
<1>3. CASE BeginCall
  <2>1. part # NoFile => part \in Seq(Chunk)  BY DEF Inv, TypeOK, File, Chunk
  <2>2. existing' \in Nat /\ (existing' > 0 => part # NoFile /\ existing' = Len(part))
    BY <1>3, <2>1 DEF BeginCall
  <2>3. OpenInv'  BY <1>3, <2>1, <2>2 DEF BeginCall, OpenInv, files
  <2>4. DestinationWhole'  BY <1>3 DEF BeginCall, Inv, files, app, DestinationWhole, Content
  <2>5. TypeOK'
    BY <1>3, <2>2 DEF BeginCall, Inv, files, app, target, stream, TypeOK
  <2>6. WantedInv'  BY <1>3 DEF BeginCall, Inv, app, TypeOK, WantedInv
  <2>7. pc = "idle" /\ pc' = "open" /\ UNCHANGED <<part, authenticated, host>>
    BY <1>3 DEF BeginCall, files, target
  <2>8. BodyInv' /\ VerifiedInv'  BY <2>7 DEF BodyInv, VerifiedInv
  <2>9. AlignedInv'  BY <2>7 DEF Inv, AlignedInv, Aligned
  <2>10. CredentialsStayAtOrigin'  BY <2>7 DEF Inv, CredentialsStayAtOrigin
  <2> QED  BY <2>3, <2>4, <2>5, <2>6, <2>8, <2>9, <2>10 DEF Inv
<1>4. CASE RefuseUpdate
  <2>1. /\ refused' \in SUBSET Release
        /\ UNCHANGED <<files, latest, installed, baseSlash, url, pc, wanted, lengths,
                       target, stream, faults>>
    BY <1>4 DEF RefuseUpdate, Inv, TypeOK
  <2>2. DestinationWhole'  BY <2>1 DEF Inv, files, DestinationWhole, Content
  <2> QED
    BY <2>1, <2>2
    DEF Inv, files, target, lengths, stream, TypeOK, WantedInv, OpenInv, BodyInv,
        VerifiedInv, AlignedInv, Content, CredentialsStayAtOrigin
<1> QED  BY <1>1, <1>2, <1>3, <1>4

(* Every step preserves the invariant. *)
LEMMA NextInv == Inv /\ [Next]_vars => Inv'
<1> SUFFICES ASSUME Inv, [Next]_vars PROVE Inv'  OBVIOUS
<1>1. CASE Next
  BY <1>1, AnswerInv, BodyStepInv, ReplaceInv, FailureInv, OtherInv DEF Next, CallStep
<1>2. CASE UNCHANGED vars
  BY <1>2
  DEF vars, files, app, target, lengths, stream, Inv, TypeOK, WantedInv, OpenInv, BodyInv,
      VerifiedInv, AlignedInv, DestinationWhole, Content, CredentialsStayAtOrigin
<1> QED  BY <1>1, <1>2

(* The invariant holds in every reachable state. *)
THEOREM Invariance == Spec => []Inv
  BY InitInv, NextInv, PTL DEF Spec

(* Type correctness of a download. *)
THEOREM TypeCorrect == Spec => []TypeOK
<1>1. Inv => TypeOK  BY DEF Inv
<1> QED  BY <1>1, Invariance, PTL

(* For every artifact size and every sequence of faults the destination    *)
(* holds complete artifacts only.                                          *)
THEOREM DestinationIsWhole == Spec => []DestinationWhole
<1>1. Inv => DestinationWhole  BY DEF Inv
<1> QED  BY <1>1, Invariance, PTL

(* Continuing a part file never shifts its data. *)
THEOREM PartIsAligned == Spec => []PartAligned
<1>1. Inv => PartAligned
  <2> SUFFICES ASSUME Inv, part # NoFile PROVE \A i \in DOMAIN part : part[i][2] = i
    BY DEF PartAligned
  <2>1. part \in Seq(Chunk) /\ Aligned(part)
    BY DEF Inv, TypeOK, File, Chunk, AlignedInv
  <2> QED  BY <2>1 DEF Aligned
<1> QED  BY <1>1, Invariance, PTL

(* Credentials are sent to the service only. *)
THEOREM CredentialsStay == Spec => []CredentialsStayAtOrigin
<1>1. Inv => CredentialsStayAtOrigin  BY DEF Inv
<1> QED  BY <1>1, Invariance, PTL

-----------------------------------------------------------------------------
(* The refinement: only the last steps of a call touch the destination. *)

(* Before the artifact is verified, a step of a call leaves the            *)
(* installation alone, and so does its end.                                *)
LEMMA TransferLeavesAlone ==
  ASSUME Inv, UNCHANGED <<dest, app>>,
         pc \notin {"replace", "rename"}, pc' \notin {"replace", "rename"}
  PROVE  UNCHANGED I!installation
  BY DEF I!installation, app

(* A call that ends without touching the destination abandons what it had  *)
(* verified, or had verified nothing.                                      *)
LEMMA ReturnAbandons ==
  ASSUME Inv, Return, UNCHANGED <<dest, app>>
  PROVE  I!Abandon \/ UNCHANGED I!installation
<1>1. CASE pc \in {"replace", "rename"}
  BY <1>1, ReleaseFacts DEF I!Abandon, Return, app, Inv, TypeOK
<1>2. CASE pc \notin {"replace", "rename"}
  BY <1>2, TransferLeavesAlone DEF Return
<1> QED  BY <1>1, <1>2

(* Every step of the transfer and of the replacement is a step of the      *)
(* installation, or leaves it alone.                                       *)
LEMMA StepSimulation == Inv /\ [Next]_vars => [I!Next]_I!installation
<1> SUFFICES ASSUME Inv, [Next]_vars PROVE I!Next \/ UNCHANGED I!installation
  OBVIOUS
<1> USE ReleaseFacts DEF app, files
<1>0. wanted \in 1..latest /\ wanted # 0
  BY DEF Inv, WantedInv, TypeOK
<1>1. CASE PublishRelease
  BY <1>1 DEF PublishRelease, I!Publish, I!Next, lengths, target, stream
<1>2. CASE BeginCall
  BY <1>2, TransferLeavesAlone DEF BeginCall
<1>12. CASE RefuseUpdate
  BY <1>12 DEF RefuseUpdate, I!installation
<1>3. CASE Answer
  <2>1. UNCHANGED <<dest, app>> /\ pc = "open" /\ pc' \notin {"replace", "rename"}
    BY <1>3 DEF Answer, FullContent, PartialContent, RangeNotSatisfiable, OpenOutput, Return
  <2> QED  BY <2>1, TransferLeavesAlone
<1>4. CASE ReadChunk \/ StreamEnds \/ WriteFails
  BY <1>4, TransferLeavesAlone DEF ReadChunk, StreamEnds, WriteFails
<1>5. CASE CheckLength
  BY <1>5, TransferLeavesAlone DEF CheckLength, Return
<1>6. CASE VerifyDownload
  <2>1. CASE part = Content(wanted) /\ pc' = "replace" /\ UNCHANGED wanted
    <3>1. I!Stage(wanted)  BY <1>6, <2>1 DEF VerifyDownload, I!Stage
    <3> QED  BY <1>0, <3>1 DEF I!Next
  <2>2. CASE Return
    BY <1>6, <2>2, ReturnAbandons DEF VerifyDownload, I!Next
  <2> QED  BY <1>6, <2>1, <2>2 DEF VerifyDownload
<1>7. CASE RemoveDestination
  <2>1. CASE dest' = NoFile
    BY <1>0, <1>7, <2>1 DEF RemoveDestination, I!Clear, I!Next
  <2>2. CASE dest' = dest
    BY <1>0, <1>7, <2>2 DEF RemoveDestination, I!installation
  <2> QED  BY <1>7, <2>1, <2>2 DEF RemoveDestination
<1>8. CASE RenamePart
  <2>1. dest' = Content(wanted)  BY <1>8 DEF RenamePart, Inv, VerifiedInv
  <2>2. wanted \in Release  BY DEF Inv, TypeOK
  <2>3. [r \in Release |-> Content(r)][wanted] = Content(wanted)  BY <2>2
  <2> QED  BY <1>0, <1>8, <2>1, <2>3 DEF RenamePart, Return, I!Install, I!Next
<1>9. CASE Redirect
  <2>1. CASE Return  BY <1>9, <2>1, ReturnAbandons DEF Redirect, I!Next
  <2>2. CASE UNCHANGED pc  BY <1>9, <2>2, TransferLeavesAlone DEF Redirect
  <2> QED  BY <1>9, <2>1, <2>2 DEF Redirect
<1>10. CASE OpenFails \/ ReadFails \/ RenameFails \/ Crash
  BY <1>10, ReturnAbandons DEF OpenFails, ReadFails, RenameFails, Crash, I!Next
<1>11. CASE UNCHANGED vars  BY <1>11 DEF vars, I!installation
<1> QED
  BY <1>1, <1>2, <1>3, <1>4, <1>5, <1>6, <1>7, <1>8, <1>9, <1>10, <1>11,
     <1>12
  DEF Next, CallStep

(* Whatever the server, the network and the disk do, for any releases and  *)
(* any number of crashes, the destination is touched only to install a     *)
(* verified, published release.                                            *)
THEOREM DownloadInstalls == Spec => ImplementsInstallation
<1>1. Init => I!Init  BY DEF Init, I!Init
<1>2. Inv /\ [Next]_vars => [I!Next]_I!installation  BY StepSimulation
<1> QED  BY <1>1, <1>2, Invariance, PTL DEF Spec, ImplementsInstallation, I!Spec

-----------------------------------------------------------------------------
(* A call ends. *)

Stage(place) ==
    CASE place = "idle" -> 0
      [] place = "rename" -> 1
      [] place = "replace" -> 2
      [] place = "verify" -> 3
      [] place = "check" -> 4
      [] place = "body" -> 5
      [] place = "open" -> 6

(* What a stage may still repeat: answers that are redirects, the one      *)
(* other request for a range, the chunks of the body and the one failure   *)
(* of a write that makes a difference.                                     *)
ToCome ==
    CASE pc = "open" -> (1 - attempt) + (MaxRedirects - redirects)
      [] pc = "body" -> 2 * (Size[body] - sent) + (IF failbit THEN 0 ELSE 1)
      [] OTHER -> 0

(* Every step of a call brings it closer to its end: the redirect loop and *)
(* the range attempts are bounded together, not each anew by the other,    *)
(* and nothing after the body returns to the network.                      *)
CallAdvances ==
    [][pc # "idle" /\ latest' = latest =>
        \/ Stage(pc') < Stage(pc)
        \/ pc' = pc /\ ToCome' \in Nat /\ ToCome' < ToCome]_vars

(* No more is sent than the artifact has. *)
SentInv == pc = "body" => sent <= Size[body]

(* A body starts within its artifact, and is sent chunk by chunk. *)
LEMMA SentStep == Inv /\ SentInv /\ [Next]_vars => SentInv'
<1> SUFFICES ASSUME Inv, SentInv, [Next]_vars, pc' = "body" PROVE sent' <= Size[body']
  BY DEF SentInv
<1> USE ReleaseFacts DEF SentInv
<1>1. ASSUME NEW s \in Release, NEW known \in BOOLEAN, FullContent(s, known)
      PROVE  sent' <= Size[body']
  BY <1>1 DEF FullContent, OpenOutput
<1>2. ASSUME NEW s \in Release, NEW known \in BOOLEAN, NEW start \in RangeStarts(s),
             PartialContent(s, start, known)
      PROVE  sent' <= Size[body']
  <2>1. start = existing /\ body' = s /\ sent' = existing
    BY <1>2 DEF PartialContent, OpenOutput, Return
  <2> QED  BY <2>1 DEF RangeStarts
<1>3. CASE ReadChunk
  BY <1>3 DEF ReadChunk, Inv, TypeOK
<1>4. CASE WriteFails \/ PublishRelease \/ UNCHANGED vars
  BY <1>4 DEF WriteFails, PublishRelease, vars, stream
<1>5. pc' # "body" \/ pc = "open" \/ ReadChunk \/ WriteFails \/ PublishRelease \/ UNCHANGED vars
  BY DEF Next, CallStep, Answer, FullContent, PartialContent, RangeNotSatisfiable, BeginCall,
         RefuseUpdate, StreamEnds, CheckLength, VerifyDownload, RemoveDestination, RenamePart,
         Redirect, OpenFails, ReadFails, RenameFails, Crash, Return
<1>6. CASE pc = "open" /\ ~PublishRelease /\ ~UNCHANGED vars
  <2>1. Answer
    BY <1>6 DEF Next, CallStep, BeginCall, RefuseUpdate, ReadChunk, StreamEnds, CheckLength, VerifyDownload,
                RemoveDestination, RenamePart, Redirect, OpenFails, WriteFails, ReadFails,
                RenameFails, Crash, Return
  <2> QED  BY <2>1, <1>1, <1>2 DEF Answer, RangeNotSatisfiable, Return
<1> QED  BY <1>3, <1>4, <1>5, <1>6

(* For any number of releases, sizes, redirects and faults, and whatever   *)
(* the server answers, download_update does not run for ever.              *)
THEOREM CallsComeToAnEnd == Spec => CallAdvances
<1> DEFINE Advances == \/ Stage(pc') < Stage(pc)
                       \/ pc' = pc /\ ToCome' \in Nat /\ ToCome' < ToCome
<1>1. ASSUME Inv, SentInv, Next, pc # "idle", latest' = latest PROVE Advances
  <2>0. /\ MaxRedirects \in Nat /\ redirects \in 0 .. MaxRedirects - 1 /\ attempt \in {0, 1}
        /\ body \in Release /\ Size[body] \in Nat /\ sent \in Nat /\ failbit \in BOOLEAN
        /\ latest \in Nat
    BY <1>1, DownloadAssumption, ReleaseFacts DEF Inv, TypeOK
  <2>1. ASSUME Return PROVE Advances
    BY <1>1, <2>1 DEF Return, Stage, Inv, TypeOK
  <2>2. CASE Answer
    <3>1. ASSUME NEW s \in Release, NEW known \in BOOLEAN, FullContent(s, known)
          PROVE  Advances
      BY <3>1 DEF FullContent, OpenOutput, Stage
    <3>2. ASSUME NEW s \in Release, NEW known \in BOOLEAN, NEW start \in RangeStarts(s),
                 PartialContent(s, start, known)
          PROVE  Advances
      <4>1. CASE Return  BY <4>1, <2>1
      <4>2. CASE pc = "open" /\ pc' = "body"  BY <4>2 DEF Stage
      <4>3. CASE /\ pc = "open" /\ pc' = pc /\ attempt = 0 /\ attempt' = 1
                 /\ redirects' = redirects
        <5>1. ToCome = 1 + (MaxRedirects - redirects)
          BY <4>3, <2>0 DEF ToCome
        <5>2. ToCome' = MaxRedirects - redirects
          BY <4>3, <2>0 DEF ToCome
        <5> QED  BY <4>3, <5>1, <5>2, <2>0
      <4> QED  BY <3>2, <4>1, <4>2, <4>3 DEF PartialContent, OpenOutput, target
    <3> QED  BY <2>2, <2>1, <3>1, <3>2 DEF Answer, RangeNotSatisfiable
  <2>3. CASE ReadChunk
    <3>1. /\ pc = "body" /\ pc' = "body" /\ body' = body /\ failbit' = failbit
          /\ sent' = sent + 1 /\ sent < Size[body]
      BY <2>3 DEF ReadChunk
    <3>2. /\ ToCome = 2 * (Size[body] - sent) + (IF failbit THEN 0 ELSE 1)
          /\ ToCome' = 2 * (Size[body] - (sent + 1)) + (IF failbit THEN 0 ELSE 1)
      BY <3>1 DEF ToCome
    <3> QED  BY <3>1, <3>2, <2>0
  <2>4. CASE WriteFails
    <3>1. /\ pc = "body" /\ pc' = "body" /\ body' = body /\ ~failbit /\ failbit'
          /\ sent' = sent /\ sent <= Size[body]
      BY <2>4, <1>1 DEF WriteFails, SentInv
    <3>2. /\ ToCome = 2 * (Size[body] - sent) + 1
          /\ ToCome' = 2 * (Size[body] - sent)
      BY <3>1, <2>0 DEF ToCome
    <3> QED  BY <3>1, <3>2, <2>0
  <2>5. CASE StreamEnds \/ RemoveDestination
    BY <2>5 DEF StreamEnds, RemoveDestination, Stage
  <2>6. CASE CheckLength
    <3>1. CASE pc = "check" /\ pc' = "verify"  BY <3>1 DEF Stage
    <3> QED  BY <2>1, <2>6, <3>1 DEF CheckLength
  <2>10. CASE VerifyDownload
    <3>1. CASE pc = "verify" /\ pc' = "replace"  BY <3>1 DEF Stage
    <3> QED  BY <2>1, <2>10, <3>1 DEF VerifyDownload
  <2>7. CASE RenamePart \/ OpenFails \/ ReadFails \/ RenameFails \/ Crash
    BY <2>1, <2>7 DEF RenamePart, OpenFails, ReadFails, RenameFails, Crash
  <2>8. CASE Redirect
    <3>1. CASE Return  BY <2>1, <3>1
    <3>2. CASE /\ pc = "open" /\ pc' = pc /\ attempt' = attempt
               /\ redirects + 1 < MaxRedirects /\ redirects' = redirects + 1
      <4>1. ToCome = (1 - attempt) + (MaxRedirects - redirects)
        BY <3>2 DEF ToCome
      <4>2. ToCome' = (1 - attempt) + (MaxRedirects - (redirects + 1))
        BY <3>2 DEF ToCome
      <4> QED  BY <3>2, <4>1, <4>2, <2>0
    <3> QED  BY <2>8, <3>1, <3>2 DEF Redirect, lengths
  <2>9. ~PublishRelease /\ ~BeginCall /\ ~RefuseUpdate
    BY <1>1, <2>0 DEF PublishRelease, BeginCall, RefuseUpdate
  <2> QED  BY <1>1, <2>2, <2>3, <2>4, <2>5, <2>6, <2>7, <2>8, <2>9, <2>10
           DEF Next, CallStep
<1>2. Init => SentInv
  BY DEF Init, SentInv
<1>3. Inv /\ SentInv /\ [Next]_vars
        => [pc # "idle" /\ latest' = latest => Advances]_vars
  BY <1>1
<1> QED  BY <1>2, <1>3, SentStep, Invariance, PTL DEF Spec, CallAdvances
=============================================================================
