------------------------------ MODULE Download ------------------------------
(***************************************************************************)
(* Client::download_update (Cpp/src/client.cpp): resuming a .part file,    *)
(* redirects, range answers, length and checksum, and the replacement of   *)
(* the destination, with the process crashing and the server, the network  *)
(* and the disk failing in between.                                        *)
(*                                                                         *)
(* A file is a sequence of chunks; a chunk is a release and its position   *)
(* in that release's artifact.  The artifact is verified by comparing all  *)
(* of its chunks (SHA-256 and the signed manifest).                        *)
(***************************************************************************)
EXTENDS Naturals, Sequences, SequencesExt

CONSTANTS
    NoFile,        \* the file does not exist
    Size,          \* the artifact sizes of releases 1, 2, ..., in chunks
    RangeSupport,  \* TRUE \in: the server may honour Range; FALSE \in: ignore it
    BaseSlash,     \* TRUE \in: base_url may have a '/' after its host; FALSE \in: not
    UrlForms,      \* what the download URLs of updates may look like
    MaxRedirects,  \* how many answers the redirect loop looks at
    MaxFaults      \* bound on crashes and failures

Release == DOMAIN Size

ASSUME DownloadAssumption ==
    /\ Size \in Seq(Nat \ {0}) /\ Size # <<>>
    /\ RangeSupport \subseteq BOOLEAN /\ RangeSupport # {}
    /\ BaseSlash \subseteq BOOLEAN /\ BaseSlash # {}
    /\ UrlForms \subseteq {"artifact", "other"} /\ UrlForms # {}
    /\ MaxRedirects \in Nat \ {0} /\ MaxFaults \in Nat

Content(r) == [i \in 1..Size[r] |-> <<r, i>>]

VARIABLES
    baseSlash,     \* whether the base_url of the options has a '/' after its host
    url,           \* the form of each release's download URL: "artifact" when the
                   \* update is a direct download from the service's own host
    refused,       \* history: releases whose download URL a call refused
    part,          \* <destination>.part
    dest,          \* the destination
    latest,        \* the newest published release
    installed,     \* history: the last release a call returned success for
    pc,            \* where the call is
    wanted,        \* the release in the call's UpdateInfo
    existing, append, expected, written,   \* the locals of the same names
    attempt,       \* range_attempt
    redirects,     \* answers that were redirects
    authenticated, \* whether session and DPoP headers are sent
    host,          \* whose URL download_url is
    body,          \* the release the server is sending
    sent,          \* chunks of it sent before and in this answer
    failbit,       \* a write to the output stream failed
    faults         \* crashes and failures so far

files == <<part, dest>>
app == <<latest, installed, refused, baseSlash, url>>
stream == <<body, sent, failbit>>
target == <<redirects, authenticated, host>>
lengths == <<existing, append, expected, written, attempt>>
vars == <<files, app, pc, wanted, lengths, target, stream, faults>>

File == Seq(Release \X Nat) \cup {NoFile}

TypeOK ==
    /\ baseSlash \in BOOLEAN /\ url \in [Release -> UrlForms] /\ refused \in SUBSET Release
    /\ part \in File /\ dest \in File
    /\ latest \in Release /\ installed \in Release \cup {0}
    /\ pc \in {"idle", "open", "body", "check", "verify", "replace", "rename"}
    /\ wanted \in Release
    /\ existing \in Nat /\ append \in BOOLEAN /\ expected \in Nat /\ written \in Nat
    /\ attempt \in {0, 1}
    /\ redirects \in 0..(MaxRedirects - 1) /\ authenticated \in BOOLEAN
    /\ host \in {"origin", "other"}
    /\ body \in Release /\ sent \in Nat /\ failbit \in BOOLEAN
    /\ faults \in 0..MaxFaults

Init ==
    /\ baseSlash \in BaseSlash /\ url \in [Release -> UrlForms] /\ refused = {}
    /\ part = NoFile /\ dest = NoFile
    /\ latest = 1 /\ installed = 0
    /\ pc = "idle" /\ wanted = 1
    /\ existing = 0 /\ append = FALSE /\ expected = 0 /\ written = 0 /\ attempt = 0
    /\ redirects = 0 /\ authenticated = TRUE /\ host = "origin"
    /\ body = 1 /\ sent = 0 /\ failbit = FALSE
    /\ faults = 0

Fault == faults < MaxFaults /\ faults' = faults + 1

(* The locals of a call end with it. *)
Return ==
    /\ pc' = "idle"
    /\ existing' = 0 /\ append' = FALSE /\ expected' = 0 /\ written' = 0 /\ attempt' = 0
    /\ redirects' = 0 /\ authenticated' = TRUE /\ host' = "origin"
    /\ body' = 1 /\ sent' = 0 /\ failbit' = FALSE
    /\ UNCHANGED wanted

-----------------------------------------------------------------------------
(* The application and the publisher. *)

PublishRelease ==
    /\ latest + 1 \in Release
    /\ latest' = latest + 1
    /\ UNCHANGED <<files, installed, refused, baseSlash, url, pc, wanted, lengths, target,
                   stream, faults>>

(* The host of base_url is delimited by a '/' that is not optional: with   *)
(* none, as in https://example.com, every URL is refused.                  *)
valid_download_url(r) == url[r] = "artifact" /\ baseSlash

(* download_update is called until it has installed the newest release. *)
BeginCall ==
    /\ pc = "idle" /\ installed # latest /\ valid_download_url(latest)
    /\ wanted' = latest
    /\ existing' = IF part = NoFile THEN 0 ELSE Len(part)
    /\ pc' = "open"
    /\ UNCHANGED <<files, app, append, expected, written, attempt, target, stream, faults>>

(* The update is refused with a Configuration error, before any file is    *)
(* looked at.                                                              *)
RefuseUpdate ==
    /\ pc = "idle" /\ installed # latest /\ ~valid_download_url(latest)
    /\ refused' = refused \cup {latest}
    /\ UNCHANGED <<files, latest, installed, baseSlash, url, pc, wanted, lengths, target,
                   stream, faults>>

-----------------------------------------------------------------------------
(* Answers to the request opened by open_download_stream. *)

(* resolve_redirect_url: a Location, absolute or relative, leads anywhere. *)
RedirectHosts == {"origin", "other"}

(* parse_content_range: a range that it accepts starts in the artifact. *)
RangeStarts(s) == 0..(Size[s] - 1)

(* Mutant of Redirect: the headers follow the redirect. *)
RedirectWithCredentials ==
    /\ pc = "open" /\ attempt = 0 /\ Fault
    /\ redirects + 1 < MaxRedirects
    /\ redirects' = redirects + 1 /\ host' = "other"
    /\ UNCHANGED <<files, app, pc, wanted, lengths, stream, authenticated>>
(* A redirect.  The last one the loop looks at, and one that answers the   *)
(* second range attempt, end the call.                                     *)
Redirect ==
    /\ pc = "open" /\ Fault
    /\ \/ /\ attempt = 0 /\ redirects + 1 < MaxRedirects
          /\ redirects' = redirects + 1
          /\ authenticated' = FALSE /\ host' \in RedirectHosts
          /\ UNCHANGED <<pc, wanted, lengths, stream>>
       \/ (attempt = 1 \/ redirects + 1 >= MaxRedirects) /\ Return
    /\ UNCHANGED <<files, app>>

(* The output stream is opened: trunc, unless the answer continues the     *)
(* part file.                                                              *)
OpenOutput(appending, start) ==
    /\ append' = appending
    /\ part' = IF appending THEN part ELSE <<>>
    /\ written' = start /\ sent' = start
    /\ failbit' = FALSE
    /\ pc' = "body"

(* Mutant of FullContent: 200 is refused when a range was asked for. *)
FullContentRefused(s, lengthKnown) ==
    /\ pc = "open"
    /\ existing = 0 \/ FALSE \in RangeSupport
    /\ s = wanted /\ UNCHANGED faults
    /\ \/ existing > 0 /\ Return /\ UNCHANGED part
       \/ /\ existing = 0
          /\ expected' = IF lengthKnown THEN Size[s] ELSE 0
          /\ body' = s
          /\ OpenOutput(FALSE, 0)
          /\ UNCHANGED <<existing, wanted, attempt, target>>
    /\ UNCHANGED <<dest, app>>
(* 200: the whole artifact, whatever was asked for.  Without a             *)
(* Content-Length expected is 0 and the length is not checked.             *)
FullContent(s, lengthKnown) ==
    /\ pc = "open"
    /\ existing = 0 \/ FALSE \in RangeSupport
    /\ \/ s = wanted /\ UNCHANGED faults
       \/ s # wanted /\ Fault
    /\ existing' = 0
    /\ expected' = IF lengthKnown THEN Size[s] ELSE 0
    /\ body' = s
    /\ OpenOutput(FALSE, 0)
    /\ UNCHANGED <<dest, app, wanted, attempt, target>>

(* 206 with a Content-Range that starts at start.  A start other than the  *)
(* local length makes the call ask once for the whole file.  With neither  *)
(* a total nor a Content-Length, expected becomes the local length.        *)
PartialContent(s, start, lengthKnown) ==
    /\ pc = "open"
    /\ start \in RangeStarts(s)
    /\ \/ s = wanted /\ start = existing /\ existing > 0 /\ TRUE \in RangeSupport
          /\ UNCHANGED faults
       \/ ~(s = wanted /\ start = existing /\ existing > 0) /\ Fault
    /\ \/ /\ start = existing
          /\ expected' = IF lengthKnown THEN Size[s] ELSE existing
          /\ body' = s
          /\ OpenOutput(existing > 0, existing)
          /\ UNCHANGED <<existing, attempt, target, wanted>>
       \/ /\ start # existing /\ attempt = 0
          /\ existing' = 0 /\ attempt' = 1
          /\ UNCHANGED <<part, pc, wanted, append, expected, written, target, stream>>
       \/ /\ start # existing /\ attempt = 1
          /\ Return
          /\ UNCHANGED part
    /\ UNCHANGED <<dest, app>>

(* 416: the part file is at least as long as the artifact.  Like every     *)
(* status of 400 and above it ends the call, and the part file stays.      *)
RangeNotSatisfiable ==
    /\ pc = "open"
    /\ TRUE \in RangeSupport /\ existing >= Size[wanted]
    /\ Return
    /\ UNCHANGED <<files, app, faults>>

(* Any other failure before the body: no connection, no session, a status  *)
(* that is refused, a missing or malformed header.                         *)
OpenFails ==
    /\ pc = "open" /\ Fault
    /\ Return
    /\ UNCHANGED <<files, app>>

-----------------------------------------------------------------------------
(* The body. *)

ReadChunk ==
    /\ pc = "body" /\ sent < Size[body]
    /\ sent' = sent + 1 /\ written' = written + 1
    /\ part' = IF failbit THEN part ELSE Append(part, <<body, sent + 1>>)
    /\ UNCHANGED <<dest, app, pc, wanted, existing, append, expected, attempt, target,
                   body, failbit, faults>>

(* output.write fails: its result is not looked at, later writes fail too. *)
WriteFails ==
    /\ pc = "body" /\ ~failbit /\ Fault
    /\ failbit' = TRUE
    /\ UNCHANGED <<files, app, pc, wanted, lengths, target, body, sent>>

(* read() returns 0: at the end of the body, or before it. *)
StreamEnds ==
    /\ pc = "body"
    /\ \/ sent = Size[body] /\ UNCHANGED faults
       \/ sent < Size[body] /\ Fault
    /\ pc' = "check"
    /\ UNCHANGED <<files, app, wanted, lengths, target, stream>>

(* read() or the progress callback throws: the part file is kept. *)
ReadFails ==
    /\ pc = "body" /\ Fault
    /\ Return
    /\ UNCHANGED <<files, app>>

-----------------------------------------------------------------------------
(* After the body. *)

(* Mutant of CheckLength: the destination is cleared before the check. *)
ClearAndCheck ==
    /\ pc = "check"
    /\ dest' = NoFile
    /\ \/ /\ expected > 0 /\ written # expected
          /\ part' = NoFile
          /\ Return
       \/ /\ ~(expected > 0 /\ written # expected)
          /\ pc' = "verify"
          /\ UNCHANGED <<part, wanted, lengths, target, stream>>
    /\ UNCHANGED <<app, faults>>
CheckLength ==
    /\ pc = "check"
    /\ \/ /\ expected > 0 /\ written # expected
          /\ part' = NoFile
          /\ Return
       \/ /\ ~(expected > 0 /\ written # expected)
          /\ pc' = "verify"
          /\ UNCHANGED <<part, wanted, lengths, target, stream>>
    /\ UNCHANGED <<dest, app, faults>>

(* Mutant of VerifyDownload: the length stands in for the checksum. *)
VerifyLengthOnly ==
    /\ pc = "verify"
    /\ \/ /\ written = Size[wanted]
          /\ pc' = "replace"
          /\ UNCHANGED <<part, wanted, lengths, target, stream>>
       \/ /\ written # Size[wanted]
          /\ part' = NoFile
          /\ Return
    /\ UNCHANGED <<dest, app, faults>>
(* sha_file and verify_download *)
VerifyDownload ==
    /\ pc = "verify"
    /\ \/ /\ part = Content(wanted)
          /\ pc' = "replace"
          /\ UNCHANGED <<part, wanted, lengths, target, stream>>
       \/ /\ part # Content(wanted)
          /\ part' = NoFile
          /\ Return
    /\ UNCHANGED <<dest, app, faults>>

(* The old destination is removed; a failure to is ignored. *)
RemoveDestination ==
    /\ pc = "replace"
    /\ \/ dest' = NoFile /\ UNCHANGED faults
       \/ dest # NoFile /\ Fault /\ UNCHANGED dest
    /\ pc' = "rename"
    /\ UNCHANGED <<part, app, wanted, lengths, target, stream>>

RenamePart ==
    /\ pc = "rename"
    /\ dest' = part /\ part' = NoFile
    /\ installed' = wanted
    /\ Return
    /\ UNCHANGED <<latest, refused, baseSlash, url, faults>>

(* The rename throws, for instance because the destination is in use: the  *)
(* complete part file stays.                                               *)
RenameFails ==
    /\ pc = "rename" /\ Fault
    /\ Return
    /\ UNCHANGED <<files, app>>

(* The process ends.  What the output stream still buffered is lost. *)
Crash ==
    /\ pc # "idle" /\ Fault
    /\ \/ /\ pc = "body"
          /\ \E n \in 0..Len(part) : part' = SubSeq(part, 1, n)
       \/ pc # "body" /\ UNCHANGED part
    /\ Return
    /\ UNCHANGED <<dest, app>>

-----------------------------------------------------------------------------
Answer ==
    \/ \E s \in Release, known \in BOOLEAN : FullContent(s, known)
    \/ \E s \in Release, known \in BOOLEAN :
         \E start \in RangeStarts(s) : PartialContent(s, start, known)
    \/ RangeNotSatisfiable

CallStep ==
    \/ Answer
    \/ ReadChunk \/ StreamEnds
    \/ CheckLength \/ VerifyDownload \/ RemoveDestination \/ RenamePart

Next ==
    \/ PublishRelease \/ BeginCall \/ RefuseUpdate \/ CallStep
    \/ Redirect \/ OpenFails \/ WriteFails \/ ReadFails \/ RenameFails \/ Crash

Spec == Init /\ [][Next]_vars

(* The application keeps calling until the newest release is installed;    *)
(* a call goes on, and an honest answer arrives, unless a fault intervenes.*)
FairSpec ==
    /\ Spec
    /\ WF_vars(BeginCall \/ RefuseUpdate)
    /\ WF_vars(CallStep /\ faults' = faults)

-----------------------------------------------------------------------------
(* The destination is always a complete artifact of a published release,   *)
(* whatever mixture of releases, ranges, short reads, failed writes and    *)
(* crashes produced the .part file.                                        *)
DestinationWhole == dest = NoFile \/ \E r \in 1..latest : dest = Content(r)

(* Every chunk of the .part file is at its own position: continuing it     *)
(* after an interruption, a 200 answer to a range request or a range that  *)
(* starts elsewhere never shifts the data.                                 *)
PartAligned == part # NoFile => \A i \in DOMAIN part : part[i][2] = i

I == INSTANCE Installation WITH
        Artifact <- [r \in Release |-> Content(r)],
        file <- dest, published <- latest, reported <- installed,
        staged <- IF pc \in {"replace", "rename"} THEN wanted ELSE 0

(* The destination is removed and replaced only while the call holds a     *)
(* verified artifact of a published release, is replaced by that artifact  *)
(* in one step, and success is reported for what it then holds, through    *)
(* every crash and failure of the transfer.                                *)
ImplementsInstallation == I!Spec

(* Session and proof-of-possession headers are sent to the service only,   *)
(* also when a redirected download is opened again for its range.          *)
CredentialsStayAtOrigin == authenticated => host = "origin"

(* Once faults cease, the newest release is installed, or the .part file   *)
(* is at least as long as its artifact, or the call was refused because of *)
(* the download URL or a base_url without a '/' after its host: there is   *)
(* no other way to get stuck.                                              *)
InstalledUnlessStuck ==
    <>[](\/ installed = latest
         \/ part # NoFile /\ Len(part) >= Size[latest]
         \/ latest \in refused)

(* Cpp/README.md: "Invalid `.part` files are deleted."  A part file that   *)
(* is not the beginning of the artifact is eventually deleted or replaced, *)
(* while the application keeps calling download_update.                    *)
InvalidPartDeleted ==
    (part # NoFile /\ ~IsPrefix(part, Content(latest)))
        ~> (part = NoFile \/ IsPrefix(part, Content(latest)))
=============================================================================
