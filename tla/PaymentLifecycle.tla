-------------------------- MODULE PaymentLifecycle --------------------------
(***************************************************************************)
(* The status graph of a REAL_PAYMENT leg (org_order_payments_dtl), as the *)
(* constants of order-financial.ts tabulate it.  It holds no state: the    *)
(* modules of the transition service and of the gateway webhook share it.  *)
(***************************************************************************)

Actions == {"VERIFY", "CANCEL", "FAIL_BOUNCE", "VOID", "REVERSE", "CAPTURE", "SETTLE"}

\* EXPIRED, REFUSED and CAPTURE_PENDING are classified below too, but no
\* transition of this service leads to them.
Statuses == {"PENDING", "PROCESSING", "AUTHORIZED", "COMPLETED", "CAPTURED", "SETTLED",
             "FAILED", "CANCELLED", "VOIDED", "REVERSED"}

TargetStatus_BadCode ==  \* mutant: a code the status column does not know
  [VERIFY      |-> "COMPLETED",
   CANCEL      |-> "CANCELED",
   FAIL_BOUNCE |-> "FAILED",
   VOID        |-> "VOIDED",
   REVERSE     |-> "REVERSED",
   CAPTURE     |-> "CAPTURED",
   SETTLE      |-> "SETTLED"]
TargetStatus ==
  [VERIFY      |-> "COMPLETED",
   CANCEL      |-> "CANCELLED",
   FAIL_BOUNCE |-> "FAILED",
   VOID        |-> "VOIDED",
   REVERSE     |-> "REVERSED",
   CAPTURE     |-> "CAPTURED",
   SETTLE      |-> "SETTLED"]

SourceStatuses_CancelsPaid ==  \* mutant: CANCEL also takes a leg that is paid
  [VERIFY      |-> {"PENDING", "PROCESSING"},
   CANCEL      |-> {"PENDING", "PROCESSING", "COMPLETED"},
   FAIL_BOUNCE |-> {"PENDING", "PROCESSING"},
   VOID        |-> {"PENDING", "PROCESSING", "AUTHORIZED"},
   REVERSE     |-> {"COMPLETED", "CAPTURED", "SETTLED"},
   CAPTURE     |-> {"AUTHORIZED"},
   SETTLE      |-> {"CAPTURED"}]
SourceStatuses ==
  [VERIFY      |-> {"PENDING", "PROCESSING"},
   CANCEL      |-> {"PENDING", "PROCESSING"},
   FAIL_BOUNCE |-> {"PENDING", "PROCESSING"},
   VOID        |-> {"PENDING", "PROCESSING", "AUTHORIZED"},
   REVERSE     |-> {"COMPLETED", "CAPTURED", "SETTLED"},
   CAPTURE     |-> {"AUTHORIZED"},
   SETTLE      |-> {"CAPTURED"}]

\* ORDER_PAYMENT_LIFECYCLE_STATUSES: what a leg counts as in the header.
CompletedStatuses == {"COMPLETED", "CAPTURED", "SETTLED"}
Bucket(st) ==
  IF st \in CompletedStatuses THEN "paid"
  ELSE IF st \in {"PENDING", "PROCESSING"} THEN "pending"
  ELSE IF st = "AUTHORIZED" THEN "authorized" ELSE "failed"
Buckets == {"paid", "pending", "authorized", "failed"}
=============================================================================
