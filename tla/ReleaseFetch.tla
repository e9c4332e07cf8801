----------------------------- MODULE ReleaseFetch -----------------------------
(***************************************************************************)
(* How `kb update` fetches a release (crate kb-update): a request with its *)
(* retries, the redirect that names the latest version, and the checks     *)
(* between the signed list of checksums and the executable that is staged. *)
(*                                                                         *)
(* Pure functions of what the release service answers.  A digest is the    *)
(* content it is of; time is in seconds.                                   *)
(***************************************************************************)
EXTENDS Integers, Sequences, FiniteSets

-----------------------------------------------------------------------------
(* Requests (http.rs).  An answer is a body, or why there is none, with    *)
(* the Retry-After header that an HTTP status may come with.               *)

Unset == -1
MaxAttempts == 3
MaxTotalWait == 3
Backoff == <<1, 2>>

Statuses == {"404", "408", "429", "500", "502", "503", "504"}
Transient == {"connection", "timeout", "premature close", "proxy"}
Permanent == {"certificate", "not https", "too long"}
Answers == [why : {"ok"} \cup Transient \cup Permanent, after : {Unset}]
           \cup [why : Statuses, after : {Unset, 0, 1, 3, 4}]

Retryable(answer) ==
  answer.why \in Transient \cup {"408", "429", "500", "502", "503", "504"}

Delay(attempt, answer) == IF answer.after = Unset THEN Backoff[attempt] ELSE answer.after

FaultyRetry(answers) ==
  LET from[k \in 1..MaxAttempts] == [waited \in 0..(2 * MaxTotalWait) |->
        LET answer == answers[k]
            ends(result) == [result |-> result, attempts |-> k, waited |-> waited]
        IN IF answer.why = "ok" THEN ends("ok")
           ELSE IF ~Retryable(answer) \/ k = MaxAttempts \/ waited > MaxTotalWait THEN ends("failed")
           ELSE from[k + 1][waited + Delay(k, answer)]]
  IN from[1][0]

\* retry: the answers that a request would get, one attempt after the other.
Retry(answers) ==
  LET from[k \in 1..MaxAttempts] == [waited \in 0..MaxTotalWait |->
        LET answer == answers[k]
            ends(result) == [result |-> result, attempts |-> k, waited |-> waited]
        IN IF answer.why = "ok" THEN ends("ok")
           ELSE IF ~Retryable(answer) \/ k = MaxAttempts
                   \/ waited + Delay(k, answer) > MaxTotalWait THEN ends("failed")
           ELSE from[k + 1][waited + Delay(k, answer)]]
  IN from[1][0]

-----------------------------------------------------------------------------
(* The latest release (release.rs).                                        *)

\* parse_latest_release_url: the page that releases/latest redirects to.
NewRelease(current, page) ==
  IF page.official /\ ~page.prerelease /\ page.version > current
    THEN {page.version} ELSE {}

-----------------------------------------------------------------------------
(* Verification (verify.rs, install.rs).                                   *)

Expected == {"kb", "LICENSE", "INSTALL.md"}

\* checksum_for: the digests that the list has for this archive.
Listed(sums, name) == {k \in DOMAIN sums.lines : sums.lines[k].name = name}

\* extract_tar_gz, extract_zip: each expected entry, once, and no other.
Extracts(entries) ==
  /\ \A k \in DOMAIN entries : entries[k].file /\ entries[k].name \in Expected
  /\ \A j, k \in DOMAIN entries : entries[j].name = entries[k].name => j = k
  /\ Len(entries) = Cardinality(Expected)

\* validate_staged_identity: what the staged executable says of itself.
Identifies(kb, version) == kb.version = version /\ kb.official /\ kb.target = "ours"

\* verify_release, then the staged executable's own report.
Verified(offer, version) ==
  LET archive == <<"archive", version>>
      lines == Listed(offer.sums, archive)
  IN /\ offer.sums.signed /\ ~offer.sums.malformed
     /\ Cardinality(lines) = 1
     /\ \A k \in lines : offer.sums.lines[k].digest = offer.archive
     /\ Extracts(offer.archive)
     /\ Identifies(offer.kb, version)

\* check_for_update, then verify_release: each request is retried by itself.
Fetched(offer, current, version) ==
  /\ \A request \in DOMAIN offer.requests : Retry(offer.requests[request]).result = "ok"
  /\ version \in NewRelease(current, offer.page)
  /\ Verified(offer, version)
=============================================================================
