--------------------------- MODULE ReceiptsClient ---------------------------
(***************************************************************************)
(* The API client of the receipts library (internal/receipts/api): every   *)
(* call, the posting of a voucher included, is tried up to three times,    *)
(* and every try reads the token file, refreshing the token without a lock *)
(* when it has expired.                                                    *)
(***************************************************************************)
EXTENDS Naturals

CONSTANTS
  Posts,      \* calls of CreateVoucher
  MaxTries,   \* maxRetries
  MaxRotation \* bound: refreshes that succeed

ASSUME TriesAssumption == MaxTries \in Nat \ {0} /\ MaxRotation \in Nat

VARIABLES
  tokenFile, \* the token store: place in the rotation, and whether it expired
  liveToken, \* Fortnox: the refresh token it takes next,
  revoked,   \*   and whether one presented again has revoked the grant
  vouchers,  \* Fortnox: how often the voucher of each call was created
  post,      \* each call: where it is,
  tries,     \*   its attempts so far,
  loaded,    \*   and the refresh token it read
  lostAnswers, \* history: creations of each call whose answer did not arrive
  unserialised \* history: a refresh overlapped another, or its token was not saved

postVars == <<tokenFile, liveToken, revoked, vouchers, post, tries, loaded,
              lostAnswers, unserialised>>
token == <<tokenFile, liveToken, revoked, unserialised>>

PostTypeOK ==
  /\ tokenFile \in [place : 0..MaxRotation, expired : BOOLEAN]
  /\ liveToken \in 0..MaxRotation
  /\ revoked \in BOOLEAN /\ unserialised \in BOOLEAN
  /\ vouchers \in [Posts -> 0..MaxTries]
  /\ post \in [Posts -> {"new", "attach", "refresh", "save", "send", "wait", "ok", "error"}]
  /\ tries \in [Posts -> 0..MaxTries]
  /\ loaded \in [Posts -> 0..MaxRotation]
  /\ lostAnswers \in [Posts -> 0..MaxTries]

PostInit ==
  /\ tokenFile = [place |-> 0, expired |-> TRUE]
  /\ liveToken = 0 /\ revoked = FALSE /\ unserialised = FALSE
  /\ vouchers = [p \in Posts |-> 0]
  /\ post = [p \in Posts |-> "new"]
  /\ tries = [p \in Posts |-> 0]
  /\ loaded = [p \in Posts |-> 0]
  /\ lostAnswers = [p \in Posts |-> 0]

GoPost(p, to) == post' = [post EXCEPT ![p] = to]

CreateVoucher(p) ==
  /\ post[p] = "new" /\ GoPost(p, "attach")
  /\ UNCHANGED <<token, vouchers, tries, loaded, lostAnswers>>

Refreshing(p) == post[p] \in {"refresh", "save"}

\* The token file as it is now; one that cannot be read ends the call.
AttachToken(p) ==
  /\ post[p] = "attach"
  /\ \/ GoPost(p, "error") /\ UNCHANGED <<loaded, unserialised>>
     \/ /\ ~tokenFile.expired /\ GoPost(p, "send")
        /\ loaded' = [loaded EXCEPT ![p] = tokenFile.place] /\ UNCHANGED unserialised
     \/ /\ tokenFile.expired /\ GoPost(p, "refresh")
        /\ loaded' = [loaded EXCEPT ![p] = tokenFile.place]
        /\ unserialised' = (unserialised \/ \E q \in Posts : Refreshing(q))
  /\ UNCHANGED <<tokenFile, liveToken, revoked, vouchers, tries, lostAnswers>>

\* The token endpoint: it rotates the token it expects, and takes any other for
\* a stolen one. An error, of whatever kind, ends the call.
RefreshToken(p) ==
  /\ post[p] = "refresh"
  /\ \/ /\ loaded[p] = liveToken /\ ~revoked /\ liveToken < MaxRotation
        /\ liveToken' = liveToken + 1
        /\ \/ GoPost(p, "save") /\ UNCHANGED unserialised
           \/ GoPost(p, "error") /\ unserialised' = TRUE \* the answer is lost
        /\ UNCHANGED revoked
     \/ /\ loaded[p] # liveToken
        /\ revoked' = TRUE
        /\ GoPost(p, "error")
        /\ UNCHANGED <<liveToken, unserialised>>
     \/ /\ GoPost(p, "error")
        /\ UNCHANGED <<liveToken, revoked, unserialised>>
  /\ UNCHANGED <<tokenFile, vouchers, tries, loaded, lostAnswers>>

MutSaveLater(p) ==
  /\ post[p] = "save"
  /\ GoPost(p, "send")
  /\ UNCHANGED <<token, vouchers, tries, loaded, lostAnswers>>

\* A token that cannot be saved ends the call, and is lost.
SaveToken(p) ==
  /\ post[p] = "save"
  /\ \/ /\ tokenFile' = [place |-> loaded[p] + 1, expired |-> FALSE]
        /\ GoPost(p, "send")
        /\ UNCHANGED unserialised
     \/ /\ GoPost(p, "error") /\ unserialised' = TRUE
        /\ UNCHANGED tokenFile
  /\ UNCHANGED <<liveToken, revoked, vouchers, tries, loaded, lostAnswers>>

MutOneTryTooMany(p) ==
  /\ tries' = [tries EXCEPT ![p] = @ + 1]
  /\ GoPost(p, IF tries[p] < MaxTries THEN "wait" ELSE "error")

\* The last attempt ends the call, any other is repeated after a pause.
Repeat(p) ==
  /\ tries' = [tries EXCEPT ![p] = @ + 1]
  /\ GoPost(p, IF tries[p] + 1 < MaxTries THEN "wait" ELSE "error")

Created(p) == vouchers' = [vouchers EXCEPT ![p] = @ + 1]

MutServerErrorRepeats(p) ==
  /\ post[p] = "send"
  /\ \/ Created(p) /\ GoPost(p, "ok") /\ UNCHANGED <<tries, lostAnswers>>
     \/ Created(p) /\ Repeat(p) /\ UNCHANGED lostAnswers
  /\ UNCHANGED <<token, loaded>>

\* One POST. A transport error, before Fortnox did anything or after, and 429
\* are repeated; any other status, or an answer that does not decode, ends the
\* call, whether Fortnox did anything or not.
Send(p) ==
  /\ post[p] = "send"
  /\ \/ Created(p) /\ GoPost(p, "ok") /\ UNCHANGED <<tries, lostAnswers>>
     \/ Created(p) /\ Repeat(p) /\ lostAnswers' = [lostAnswers EXCEPT ![p] = @ + 1]
     \/ Repeat(p) /\ UNCHANGED <<vouchers, lostAnswers>>
     \/ /\ Created(p) /\ GoPost(p, "error") /\ UNCHANGED tries
        /\ lostAnswers' = [lostAnswers EXCEPT ![p] = @ + 1]
     \/ GoPost(p, "error") /\ UNCHANGED <<vouchers, tries, lostAnswers>>
  /\ UNCHANGED <<token, loaded>>

\* The pause is over, or the caller gave up meanwhile.
Resume(p) ==
  /\ post[p] = "wait"
  /\ GoPost(p, "attach") \/ GoPost(p, "error")
  /\ UNCHANGED <<token, vouchers, tries, loaded, lostAnswers>>

AccessTokenExpires ==
  /\ ~tokenFile.expired
  /\ tokenFile' = [tokenFile EXCEPT !.expired = TRUE]
  /\ UNCHANGED <<liveToken, revoked, vouchers, post, tries, loaded, lostAnswers, unserialised>>

-----------------------------------------------------------------------------
PostNext ==
  \/ \E p \in Posts : \/ CreateVoucher(p) \/ AttachToken(p) \/ RefreshToken(p)
                      \/ SaveToken(p) \/ Send(p) \/ Resume(p)
  \/ AccessTokenExpires

PostSpec == PostInit /\ [][PostNext]_postVars

-----------------------------------------------------------------------------
(***************************************************************************)
(* Properties                                                              *)
(***************************************************************************)

\* A call that is repeated posts its voucher again only where an answer was
\* lost: one voucher for each, and one more at most, however the attempts of
\* several calls and their refreshes interleave; success means one was posted.
ExtraVoucherMeansLost ==
  \A p \in Posts : /\ vouchers[p] <= lostAnswers[p] + 1
                   /\ post[p] = "ok" => vouchers[p] = lostAnswers[p] + 1

\* The grant survives as long as no two calls refresh at once and every rotated
\* token is saved: the file then always holds the token Fortnox expects.
GrantNeedsOneAtATime ==
  /\ revoked => unserialised
  /\ unserialised \/ tokenFile.place = liveToken \/ \E p \in Posts : post[p] = "save"
=============================================================================
