-------------------------------- MODULE Notices --------------------------------
(***************************************************************************)
(* What an administrator has sent to customers (notifications/             *)
(* notifications.service.ts): an SMS to each, one e-mail made from a       *)
(* template to all, or one of his own words to all, through the service    *)
(* everything else is sent with (shared/notifications, shared/mailer).     *)
(*                                                                         *)
(* All requests are for one text and the same customers: whoever is        *)
(* answered with an error asks again.                                      *)
(***************************************************************************)
EXTENDS Integers, FiniteSets

CONSTANTS
    Requests,       \* numbers, in the order in which they are made
    Customers

VARIABLES
    kind,           \* [Requests -> NotificationType, e-mails told apart]
    answer,         \* [Requests -> "none", "awaited", "isSent", "error"]
    sending,        \* [Requests -> SUBSET Customers]: messages on their way out
    delivered       \* <<request, customer>>

noticeVars == <<kind, answer, sending, delivered>>

NotificationType == {"SMS", "TEMPLATE", "CUSTOM"}

TypeOK ==
    /\ kind \in [Requests -> NotificationType]
    /\ answer \in [Requests -> {"none", "awaited", "isSent", "error"}]
    /\ sending \in [Requests -> SUBSET Customers]
    /\ delivered \subseteq Requests \X Customers

Init ==
    /\ kind \in [Requests -> NotificationType]
    /\ answer = [r \in Requests |-> "none"]
    /\ sending = [r \in Requests |-> {}]
    /\ delivered = {}

Answered(r, a) == answer' = [answer EXCEPT ![r] = a]
Sent(r, customers) ==
    /\ sending' = [sending EXCEPT ![r] = @ \ customers]
    /\ delivered' = delivered \cup ({r} \X customers)
Lost(r, customers) ==
    /\ sending' = [sending EXCEPT ![r] = @ \ customers]
    /\ UNCHANGED delivered

Send(r) ==
    /\ answer[r] = "none" /\ \A q \in Requests : q < r => answer[q] = "error"
    /\ sending' = [sending EXCEPT ![r] = Customers]
    /\ Answered(r, "awaited")
    /\ UNCHANGED <<kind, delivered>>

-----------------------------------------------------------------------------
(* The messages                                                            *)

(* A message that Twilio refuses taken for sent.                           *)
RefusedSMS_Sent(a) == a

(* Promise.all: the first that fails is the answer; the others go on.      *)
RefusedSMS(a) == IF a = "awaited" THEN "error" ELSE a

Pass(r, a) == IF a = "awaited" /\ Cardinality(sending[r]) = 1 THEN "isSent" ELSE a

SendSMS(r, p) ==
    /\ kind[r] = "SMS" /\ p \in sending[r]
    /\ Sent(r, {p})
    /\ Answered(r, Pass(r, answer[r]))
    /\ UNCHANGED kind

(* Refused, or sent and not heard of.                                      *)
SMSFails(r, p) ==
    /\ kind[r] = "SMS" /\ p \in sending[r]
    /\ Sent(r, {p}) \/ Lost(r, {p})
    /\ Answered(r, Pass(r, RefusedSMS(answer[r])))
    /\ UNCHANGED kind

(* sendEmail: an error is logged, and the answer is the same.              *)
SendEmail(r) ==
    /\ kind[r] = "TEMPLATE" /\ answer[r] = "awaited"
    /\ Sent(r, Customers) \/ Lost(r, Customers)
    /\ Answered(r, "isSent")
    /\ UNCHANGED kind

SendCustomEmail(r) ==
    /\ kind[r] = "CUSTOM" /\ answer[r] = "awaited"
    /\ \/ Sent(r, Customers) /\ Answered(r, "isSent")
       \/ (Sent(r, Customers) \/ Lost(r, Customers)) /\ Answered(r, "error")
    /\ UNCHANGED kind

Next ==
    \E r \in Requests :
        \/ Send(r) \/ SendEmail(r) \/ SendCustomEmail(r)
        \/ \E p \in Customers : SendSMS(r, p) \/ SMSFails(r, p)

Spec == Init /\ [][Next]_noticeVars

-----------------------------------------------------------------------------
(* "isSent" is true: everyone has had the text, but for an e-mail made     *)
(* from a template, whose errors are kept from the caller                  *)
(* (notification.service.ts 76-94).  An error leaves customers who have    *)
(* had it or yet will, and the next request sends it to them once more:    *)
(* nobody has it more often than there were errors, and once.              *)
SentIsSent ==
    /\ \A r \in Requests : answer[r] = "isSent" /\ kind[r] # "TEMPLATE" =>
          {r} \X Customers \subseteq delivered
    /\ \A p \in Customers :
          Cardinality({r \in Requests : <<r, p>> \in delivered})
            <= 1 + Cardinality({r \in Requests : answer[r] = "error"})
=============================================================================
