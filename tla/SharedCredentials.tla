-------------------------- MODULE SharedCredentials --------------------------
(***************************************************************************)
(* What the documentation promises of credentials (README.md:543): they    *)
(* are "cached and shared across all targets that resolve to the same      *)
(* identity".  For one identity: a single fetch at a time, on behalf of    *)
(* one caller, and none while the credentials at hand are fresh.           *)
(*                                                                         *)
(* CredentialCache implements this, and so does the whole of Signing for   *)
(* each identity it knows.                                                 *)
(***************************************************************************)
CONSTANTS
  Callers, \* whoever asks for credentials
  None     \* no caller

VARIABLES
  entry,   \* the credentials at hand, as far as a fetch depends on them
  fetcher  \* on whose behalf credentials are being fetched, None if no one's

vars == <<entry, fetcher>>

\* "fresh" in the first half of their life, "due" from then on
Entries == {"none", "fresh", "due"}

Init == entry = "none" /\ fetcher = None

BeginFetch(c) ==
  /\ fetcher = None /\ entry # "fresh"
  /\ fetcher' = c
  /\ UNCHANGED entry

\* Credentials may be so short-lived that they are due at once.
FetchSucceeds ==
  /\ fetcher # None
  /\ fetcher' = None
  /\ entry' \in {"fresh", "due"}

\* The provider fails, or the caller goes away.
FetchEnds ==
  /\ fetcher # None
  /\ fetcher' = None
  /\ UNCHANGED entry

Age ==
  /\ entry = "fresh"
  /\ entry' = "due"
  /\ UNCHANGED fetcher

Next == (\E c \in Callers : BeginFetch(c)) \/ FetchSucceeds \/ FetchEnds \/ Age

Spec == Init /\ [][Next]_vars
=============================================================================
