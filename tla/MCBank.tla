------------------------------- MODULE MCBank -------------------------------
(***************************************************************************)
(* A handful of actions for the bank-servicing bundle, at model-checking   *)
(* size: 2 stands for a refund a human need not see, 3 for one that needs  *)
(* an approval.                                                            *)
(***************************************************************************)
EXTENDS BankPolicy

MCTool(a) ==
  CASE a \in {"small", "large", "dollars", "garbled"} -> "payments.refund"
    [] a = "mail"   -> "email.send"
    [] a = "fetch"  -> "web.fetch"
    [] a = "report" -> "db.report"
    [] a = "lookup" -> "crm.lookup"
    [] a = "inbox"  -> "inbox.read"

MCAmount(a) == IF a = "large" THEN 3 ELSE 2

MCEuros == {"small", "large"}

\* The fetch and the report are listed, the mail goes to a stranger.
MCListed == {"fetch", "report"}
=============================================================================
