------------------------------- MODULE MCBoot -------------------------------
(* An instance of Boot for TLC. *)
EXTENDS Boot_proofs

CONSTANTS b1, b2, b3, ci

\* Of the URLs that connect and those that do not, one of each kind.
MCUrls ==
  {url0 \in Urls : url0.scheme # "postgresql+asyncpg" => url0.params \subseteq LibpqOnly}
=============================================================================
