---------------------------- MODULE RefreshTokens ----------------------------
(***************************************************************************)
(* Refresh tokens of one user: the refresh_token_families table, the logins *)
(* that open a family (HandleCallback, HandleExchange), and HandleRefresh,  *)
(* which rotates a family's token, revokes the family when a token comes    *)
(* back a second time, and upgrades tokens from before the table existed.   *)
(*                                                                          *)
(* Every store method is one autocommitted statement, and one action here.  *)
(* A token is its family and generation: of the JWTs minted for a           *)
(* generation only the one whose hash the table took is ever answered.  So  *)
(* hash[f] is the generation whose token's hash the row holds, 0 for        *)
(* 'pending'.  A stateless token is a name.                                 *)
(***************************************************************************)
EXTENDS Naturals

CONSTANTS
    Families,    \* rows of refresh_token_families
    Callbacks,   \* logins by HandleCallback: an error aborts the login
    Exchanges,   \* logins by HandleExchange: it goes on without the table
    Refreshes,   \* HandleRefresh requests
    Old,         \* stateless tokens of dev logins, of administrators, of the time before
    Tenantless,  \* those of platform administrators, which name no tenant
    NoToken,     \* in place of a token or a family
    MaxTokenFaults   \* bound: statements that fail

Logins == Callbacks \cup Exchanges
TokenRequests == Logins \cup Refreshes

(* An exchange that falls back to a stateless token issues one of its own.  *)
Stateless == Old \cup Exchanges

ASSUME TokensConstants ==
    /\ Callbacks \cap Exchanges = {}
    /\ Logins \cap Refreshes = {}
    /\ Old \cap Exchanges = {}
    /\ Tenantless \subseteq Old
    /\ NoToken \notin Families \cup Stateless \cup (Families \X Nat)
    /\ Stateless \cap (Families \X Nat) = {}
    /\ MaxTokenFaults \in Nat

VARIABLES
    row,      \* "none" before the INSERT, "live", or "revoked" (revoked_at)
    gen,      \* current_generation
    hash,     \* current_token_hash
    legacy,   \* legacy_token_hash
    issued,   \* the tokens clients have been given
    pc,       \* where a request is
    tok,      \* the token a refresh presents
    fam,      \* the family a request works on
    new,      \* the token it will answer with
    result,
    tokenFaults

rowVars == <<row, gen, hash, legacy>>
tokensVars == <<rowVars, issued, pc, tok, fam, new, result, tokenFaults>>

Tracked == Families \X (Nat \ {0})
Tokens == Tracked \cup Stateless

TokensInit ==
    /\ row = [f \in Families |-> "none"]
    /\ gen = [f \in Families |-> 1]
    /\ hash = [f \in Families |-> 0]
    /\ legacy = [f \in Families |-> NoToken]
    /\ issued = Old
    /\ pc = [q \in TokenRequests |-> "start"]
    /\ tok = [q \in TokenRequests |-> NoToken]
    /\ fam = [q \in TokenRequests |-> NoToken]
    /\ new = [q \in TokenRequests |-> NoToken]
    /\ result = [q \in TokenRequests |-> "none"]
    /\ tokenFaults = 0
-----------------------------------------------------------------------------
Advance(q, l) == pc' = [pc EXCEPT ![q] = l]

Respond(q, r) ==
    /\ Advance(q, "done")
    /\ result' = [result EXCEPT ![q] = r]

TokenFault ==
    /\ tokenFaults < MaxTokenFaults
    /\ tokenFaults' = tokenFaults + 1

(* The INSERT of a family for request q, with the placeholder hash.         *)
InsertFamily(q, l) ==
    \E f \in Families :
        /\ row[f] = "none"
        /\ row' = [row EXCEPT ![f] = "live"]
        /\ legacy' = [legacy EXCEPT ![f] = l]
        /\ fam' = [fam EXCEPT ![q] = f]
        /\ new' = [new EXCEPT ![q] = <<f, 1>>]

(* The response reaches the client, or is lost on the way.                  *)
SendTokens(q) ==
    /\ pc[q] = "answer"
    /\ issued' \in {issued, issued \cup {new[q]}}
    /\ Respond(q, "ok")
    /\ UNCHANGED <<rowVars, tok, fam, new, tokenFaults>>
-----------------------------------------------------------------------------
(* Logins *)

(* CreateFamilyAndReturnID *)
CreateFamily(q) ==
    /\ q \in Logins
    /\ pc[q] = "start"
    /\ InsertFamily(q, NoToken)
    /\ Advance(q, "sethash")
    /\ UNCHANGED <<gen, hash, issued, tok, result, tokenFaults>>

(* It fails: a callback is answered 500, an exchange issues a stateless     *)
(* token.                                                                   *)
CreateFamilyFails(q) ==
    /\ q \in Logins
    /\ pc[q] = "start"
    /\ TokenFault
    /\ \/ q \in Callbacks /\ Respond(q, "error") /\ UNCHANGED new
       \/ q \in Exchanges /\ new' = [new EXCEPT ![q] = q] /\ Advance(q, "answer") /\ UNCHANGED result
    /\ UNCHANGED <<rowVars, issued, tok, fam>>

(* SetInitialTokenHash replaces 'pending'.                                  *)
SetInitialTokenHash(q) ==
    /\ pc[q] = "sethash"
    /\ hash[fam[q]] = 0
    /\ hash' = [hash EXCEPT ![fam[q]] = 1]
    /\ Advance(q, "answer")
    /\ UNCHANGED <<row, gen, legacy, issued, tok, fam, new, result, tokenFaults>>

(* It fails: the exchange does not look at the error.                       *)
SetInitialTokenHashFails(q) ==
    /\ pc[q] = "sethash"
    /\ TokenFault
    /\ \/ q \notin Exchanges /\ Respond(q, "error")
       \/ q \in Exchanges /\ Advance(q, "answer") /\ UNCHANGED result
    /\ UNCHANGED <<rowVars, issued, tok, fam, new>>
-----------------------------------------------------------------------------
(* HandleRefresh *)

(* A client sends any token it was ever given, again if it likes.           *)
Present(q) ==
    /\ q \in Refreshes
    /\ pc[q] = "start"
    /\ \E t \in issued :
         /\ tok' = [tok EXCEPT ![q] = t]
         /\ \/ /\ t \in Stateless
               /\ Advance(q, "check")
               /\ UNCHANGED <<fam, new>>
            \/ /\ t \in Tracked
               /\ fam' = [fam EXCEPT ![q] = t[1]]
               /\ new' = [new EXCEPT ![q] = <<t[1], t[2] + 1>>]
               /\ Advance(q, "rotate")
    /\ UNCHANGED <<rowVars, issued, result, tokenFaults>>

(* The guard of RotateToken's UPDATE.                                       *)
Current(t) == row[t[1]] = "live" /\ hash[t[1]] = t[2] /\ gen[t[1]] = t[2]

(* Mutant: the generation and the hash are read first, not in the UPDATE.   *)
RotateUnguarded(q) ==
    /\ pc[q] = "rotate"
    /\ row[fam[q]] = "live"
    /\ gen' = [gen EXCEPT ![fam[q]] = @ + 1]
    /\ hash' = [hash EXCEPT ![fam[q]] = new[q][2]]
    /\ Advance(q, "answer")
    /\ UNCHANGED <<row, legacy, issued, tok, fam, new, result, tokenFaults>>

(* Mutant: the generation moves and the hash stays. *)
RotateKeepsHash(q) ==
    /\ pc[q] = "rotate"
    /\ \/ Current(tok[q]) /\ gen' = [gen EXCEPT ![fam[q]] = @ + 1] /\ Advance(q, "answer")
       \/ ~ Current(tok[q]) /\ Advance(q, "diagnose") /\ UNCHANGED gen
    /\ UNCHANGED <<row, hash, legacy, issued, tok, fam, new, result, tokenFaults>>

RotateToken(q) ==
    /\ pc[q] = "rotate"
    /\ \/ /\ Current(tok[q])
          /\ gen' = [gen EXCEPT ![fam[q]] = @ + 1]
          /\ hash' = [hash EXCEPT ![fam[q]] = new[q][2]]
          /\ Advance(q, "answer")
       \/ /\ ~ Current(tok[q])
          /\ Advance(q, "diagnose")
          /\ UNCHANGED <<gen, hash>>
    /\ UNCHANGED <<row, legacy, issued, tok, fam, new, result, tokenFaults>>

(* diagnoseRotationFailure, its SELECT.  No row is ever deleted.            *)
Diagnose(q) ==
    /\ pc[q] = "diagnose"
    /\ \/ row[fam[q]] = "revoked" /\ Respond(q, "revoked")
       \/ row[fam[q]] = "live" /\ Advance(q, "revoke") /\ UNCHANGED result
    /\ UNCHANGED <<rowVars, issued, tok, fam, new, tokenFaults>>

(* Mutant: the reuse is reported and the family kept. *)
RevokeNothing(q) ==
    /\ pc[q] = "revoke"
    /\ Respond(q, "reuse")
    /\ UNCHANGED <<rowVars, issued, tok, fam, new, tokenFaults>>

(* Its RevokeFamily; another request may have revoked the family meanwhile. *)
RevokeFamily(q) ==
    /\ pc[q] = "revoke"
    /\ \/ /\ row[fam[q]] = "live"
          /\ row' = [row EXCEPT ![fam[q]] = "revoked"]
          /\ Respond(q, "reuse")
       \/ /\ row[fam[q]] = "revoked"
          /\ Respond(q, "notfound")
          /\ UNCHANGED row
    /\ UNCHANGED <<gen, hash, legacy, issued, tok, fam, new, tokenFaults>>

(* upgradeLegacyToken: IsLegacyTokenUpgraded.  Without a tenant the         *)
(* statement is refused, the empty string being no UUID.                    *)
IsLegacyTokenUpgraded(q) ==
    /\ pc[q] = "check"
    /\ \/ tok[q] \in Tenantless /\ Respond(q, "error")
       \/ /\ tok[q] \notin Tenantless
          /\ \E f \in Families : legacy[f] = tok[q]
          /\ Respond(q, "replay")
       \/ /\ tok[q] \notin Tenantless
          /\ \A f \in Families : legacy[f] # tok[q]
          /\ Advance(q, "upgrade")
          /\ UNCHANGED result
    /\ UNCHANGED <<rowVars, issued, tok, fam, new, tokenFaults>>

CreateFamilyForLegacyUpgrade(q) ==
    /\ pc[q] = "upgrade"
    /\ InsertFamily(q, tok[q])
    /\ Advance(q, "sethash")
    /\ UNCHANGED <<gen, hash, issued, tok, result, tokenFaults>>

(* A statement of a refresh fails, or its context ends.                     *)
Fail(q) ==
    /\ pc[q] \in {"rotate", "diagnose", "revoke", "check", "upgrade"}
    /\ TokenFault
    /\ Respond(q, "error")
    /\ UNCHANGED <<rowVars, issued, tok, fam, new>>
-----------------------------------------------------------------------------
TokensNext ==
    \E q \in TokenRequests :
        \/ CreateFamily(q) \/ CreateFamilyFails(q)
        \/ SetInitialTokenHash(q) \/ SetInitialTokenHashFails(q)
        \/ Present(q) \/ RotateToken(q) \/ Diagnose(q) \/ RevokeFamily(q)
        \/ IsLegacyTokenUpgraded(q) \/ CreateFamilyForLegacyUpgrade(q)
        \/ SendTokens(q) \/ Fail(q)

TokensSpec == TokensInit /\ [][TokensNext]_tokensVars
-----------------------------------------------------------------------------
PCs == {"start", "sethash", "check", "upgrade", "rotate", "diagnose", "revoke", "answer", "done"}

Results == {"none", "ok", "error", "reuse", "revoked", "notfound", "replay"}

(* Types of the families, the tokens and the refreshes.                     *)
TokensTypeOK ==
    /\ row \in [Families -> {"none", "live", "revoked"}]
    /\ gen \in [Families -> Nat \ {0}]
    /\ hash \in [Families -> Nat]
    /\ legacy \in [Families -> Stateless \cup {NoToken}]
    /\ issued \subseteq Tokens
    /\ pc \in [TokenRequests -> PCs]
    /\ tok \in [TokenRequests -> Tokens \cup {NoToken}]
    /\ fam \in [TokenRequests -> Families \cup {NoToken}]
    /\ new \in [TokenRequests -> Tokens \cup {NoToken}]
    /\ result \in [TokenRequests -> Results]
    /\ tokenFaults \in 0 .. MaxTokenFaults

(* Request q presented token t of a family and got, or will get, the next.  *)
Rotated(q, t) == tok[q] = t /\ (pc[q] = "answer" \/ result[q] = "ok")

(* A token of a family is good for one refresh, however many requests       *)
(* present it at the same time (RotateToken validates and rotates in one    *)
(* UPDATE).                                                                 *)
RefreshedOnce ==
    \A t \in issued \cap Tracked, q, p \in Refreshes : Rotated(q, t) /\ Rotated(p, t) => q = p

(* Reuse is detected: once two requests that presented the same token are   *)
(* over, and no statement of theirs failed, the family is revoked, whatever *)
(* the SELECT of diagnoseRotationFailure saw before its UPDATE.             *)
ReuseRevokes ==
    \A q, p \in Refreshes :
        /\ q # p
        /\ tok[q] = tok[p]
        /\ tok[q] \in Tracked
        /\ {pc[q], pc[p]} = {"done"}
        /\ "error" \notin {result[q], result[p]}
        => row[fam[q]] = "revoked"

(* Nothing else revokes a family: one of its tokens was presented twice, or *)
(* it never had one, since the exchange that opened it lost the hash.       *)
OnlyReuseRevokes ==
    \A f \in Families : row[f] = "revoked" =>
        \/ hash[f] = 0
        \/ \E q, p \in Refreshes : q # p /\ tok[q] = tok[p] /\ tok[q] \in Tracked /\ fam[q] = f

(* After a revocation the row is frozen: no request that was already on its *)
(* way rotates the family's token or brings the family back.                *)
RevokedForGood ==
    [][\A f \in Families : row[f] = "revoked" =>
          row'[f] = "revoked" /\ gen'[f] = gen[f] /\ hash'[f] = hash[f]]_tokensVars
-----------------------------------------------------------------------------
(* What the code does not keep *)

(* internal/auth/handler.go:708-709: upgradeLegacyToken "records the legacy *)
(* token's hash to reject replay attempts of the same legacy JWT".  One     *)
(* stateless token opens one family.                                        *)
UpgradedOnce ==
    \A f, g \in Families : f # g /\ legacy[f] = legacy[g] => legacy[f] = NoToken

(* internal/auth/handler.go:596-597: "Legacy tokens (without family claims) *)
(* are automatically upgraded on first refresh."                            *)
FirstRefreshUpgrades ==
    \A q \in Refreshes : result[q] = "error" => tokenFaults > 0

(* docs/lessons.md:19: "If a previously-used token is presented (reuse      *)
(* detection), revoke the entire family."  A token that was never used does *)
(* not revoke its family.                                                   *)
FreshTokenAccepted ==
    \A q \in Refreshes : result[q] = "reuse" => \E p \in Refreshes \ {q} : tok[p] = tok[q]
=============================================================================
