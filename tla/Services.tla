------------------------------ MODULE Services ------------------------------
(***************************************************************************)
(* The small services and programs that share no state with one another,   *)
(* side by side: `unit` is the one whose steps this behaviour takes, the   *)
(* others stay as they begin. A behaviour is one of each unit's own        *)
(* specification (ServiceProofs), so that what holds of each holds here.   *)
(***************************************************************************)
EXTENDS SandboxBooks, BorrowedToken, OwnerLogin, SupplierCache, ReceiptsClient, ReviewPost,
        ChatLoop, InvoiceTools, PaymentFile, LedgerFigures, OverviewRun

VARIABLE unit

\* What the programs and services hold, and what the figures are read into.
programVars == <<sandboxVars, borrowVars, postVars, reviewVars>>
serviceVars == <<loginVars, cacheVars, chatVars>>
figureVars == <<toolVars, fileVars, ledgerVars, overviewVars>>

Init ==
  /\ unit \in {"sandbox", "borrow", "post", "review", "login", "cache", "chat",
               "tools", "file", "ledger", "overview"}
  /\ SandboxInit /\ BorrowInit /\ PostInit /\ ReviewInit
  /\ LoginInit /\ CacheInit /\ ChatInit
  /\ ToolInit /\ FileInit /\ LedgerInit /\ OverviewInit

Program ==
  \/ unit = "sandbox" /\ SandboxNext /\ UNCHANGED <<borrowVars, postVars, reviewVars>>
  \/ unit = "borrow" /\ BorrowNext /\ UNCHANGED <<sandboxVars, postVars, reviewVars>>
  \/ unit = "post" /\ PostNext /\ UNCHANGED <<sandboxVars, borrowVars, reviewVars>>
  \/ unit = "review" /\ ReviewNext /\ UNCHANGED <<sandboxVars, borrowVars, postVars>>

Service ==
  \/ unit = "login" /\ LoginNext /\ UNCHANGED <<cacheVars, chatVars>>
  \/ unit = "cache" /\ CacheNext /\ UNCHANGED <<loginVars, chatVars>>
  \/ unit = "chat" /\ ChatNext /\ UNCHANGED <<loginVars, cacheVars>>

Figure ==
  \/ unit = "tools" /\ ToolNext /\ UNCHANGED <<fileVars, ledgerVars, overviewVars>>
  \/ unit = "file" /\ FileNext /\ UNCHANGED <<toolVars, ledgerVars, overviewVars>>
  \/ unit = "ledger" /\ LedgerNext /\ UNCHANGED <<toolVars, fileVars, overviewVars>>
  \/ unit = "overview" /\ OverviewNext /\ UNCHANGED <<toolVars, fileVars, ledgerVars>>

Next ==
  /\ UNCHANGED unit
  /\ \/ Program /\ UNCHANGED <<serviceVars, figureVars>>
     \/ Service /\ UNCHANGED <<programVars, figureVars>>
     \/ Figure /\ UNCHANGED <<programVars, serviceVars>>

Spec == Init /\ [][Next]_<<unit, programVars, serviceVars, figureVars>>

\* The types of all units: among them, that no call is repeated more often than
\* it may, no list read past its end and no figure a tool never computes.
TypesOK ==
  /\ SandboxTypeOK /\ BorrowTypeOK /\ PostTypeOK /\ ReviewTypeOK
  /\ LoginTypeOK /\ CacheTypeOK /\ ChatTypeOK
  /\ ToolTypeOK /\ FileTypeOK /\ LedgerTypeOK /\ OverviewTypeOK
=============================================================================
