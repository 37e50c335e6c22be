---------------------------- MODULE Registration -----------------------------
(***************************************************************************)
(* How an account comes to be.  A client that is not logged in asks for a  *)
(* code: the worker looks whether the address is new, makes a code out of  *)
(* the second, mails it in an SMTP dialogue that may break off anywhere,   *)
(* and only after its last reply keeps code, time and address in the       *)
(* Client.  The client sends the code back: a right one in time is spent   *)
(* and then the account is inserted.                                       *)
(*                                                                         *)
(* The requests of one client are carried out one after the other (before  *)
(* a login no timer event names it: Dispatch's OneThreadUntilTimer).  Only *)
(* the actor table tells clients from each other.  Its keys are not known: *)
(* any insertion may fail, and one that has taken place may look failed.   *)
(***************************************************************************)
EXTENDS Integers, Sequences

CONSTANTS Clients,
          NoClient,     \* a worker that has no request
          Workers,
          Emails,
          ShortEmails,  \* the addresses shorter than "@qq.com"
          NoEmail,      \* the empty address
          CodeOf,       \* the code rand() makes when seeded with each second
          MaxTime,      \* bound: the seconds a behaviour has
          Interval,     \* Config::registerCodeOutTimeInterval
          MaxMails      \* bound: how many mails are delivered

Times == 1..MaxTime

ASSUME RegistrationAssumption ==
    /\ NoClient \notin Clients /\ NoEmail \notin Emails /\ ShortEmails \subseteq Emails
    /\ MaxTime \in Nat \ {0} /\ Interval \in Nat /\ MaxMails \in Nat
    /\ CodeOf \in [Times -> Nat \ {0}]

(* What SendEmail waits for, in this order: a reply to each of these.  The *)
(* mail is delivered with BODY.                                            *)
Dialogue == <<"CONNECT", "EHLO", "AUTH LOGIN", "USER", "PASSWORD", "MAIL FROM",
              "RCPT TO", "DATA", "BODY", "QUIT">>

VARIABLES
    now,        \* the clock, in seconds
    code,       \* Client::registerCode, 0: none
    time,       \* Client::registerCodeTime, 0: none, or spent
    email,      \* Client::emailAddress
    pc,         \* where each worker is
    client,     \* the client whose request it carries out
    addr,       \* the address of the request
    wcode,      \* the code it has made
    wtime,      \* local nTime
    stage,      \* how far it is in the Dialogue
    accounts,   \* the rows of the table actor, in the order of insertion
    crashed,    \* the server is gone
    mails,      \* history: what mails have been delivered
    mail,       \* history: the mail each client's code came with
    wmail       \* history: the one the worker's mail will be, or is

held    == <<code, time, email>>
workers == <<pc, client, addr, wcode, wtime, stage, wmail>>
vars    == <<now, held, workers, accounts, crashed, mails, mail>>

Init ==
    /\ now = 1 /\ crashed = FALSE
    /\ code = [c \in Clients |-> 0] /\ time = [c \in Clients |-> 0]
    /\ email = [c \in Clients |-> NoEmail]
    /\ pc = [w \in Workers |-> "idle"] /\ client = [w \in Workers |-> NoClient]
    /\ addr = [w \in Workers |-> NoEmail] /\ wcode = [w \in Workers |-> 0]
    /\ wtime = [w \in Workers |-> 0] /\ stage = [w \in Workers |-> 0]
    /\ accounts = <<>> /\ mails = <<>>
    /\ mail = [c \in Clients |-> 0] /\ wmail = [w \in Workers |-> 0]

Tick ==
    /\ ~crashed /\ now < MaxTime
    /\ now' = now + 1
    /\ UNCHANGED <<held, workers, accounts, crashed, mails, mail>>

(* Worker w takes a request of c. *)
Take(w, c, label) ==
    /\ ~crashed /\ pc[w] = "idle" /\ \A v \in Workers : client[v] # c
    /\ pc' = [pc EXCEPT ![w] = label] /\ client' = [client EXCEPT ![w] = c]

(* It has answered the request. *)
Done(w) ==
    /\ pc' = [pc EXCEPT ![w] = "idle"] /\ client' = [client EXCEPT ![w] = NoClient]
    /\ addr' = [addr EXCEPT ![w] = NoEmail]
    /\ wcode' = [wcode EXCEPT ![w] = 0] /\ wtime' = [wtime EXCEPT ![w] = 0]
    /\ stage' = [stage EXCEPT ![w] = 0] /\ wmail' = [wmail EXCEPT ![w] = 0]

(* A faulty SetCode: code and time are interchanged. *)
SetCodeSwapped(c, k, t, e) ==
    /\ code' = [code EXCEPT ![c] = t] /\ time' = [time EXCEPT ![c] = k]
    /\ email' = [email EXCEPT ![c] = e]

(* What the client c holds. *)
SetCode(c, k, t, e) ==
    /\ code' = [code EXCEPT ![c] = k] /\ time' = [time EXCEPT ![c] = t]
    /\ email' = [email EXCEPT ![c] = e]

Crash == crashed' = TRUE /\ UNCHANGED <<now, held, workers, accounts, mails, mail>>

------------------------------------------------------------------------------
(* c_registered_token_request.                                             *)

GetRegisteredToken(w, c, e) ==
    /\ Take(w, c, "judge")
    /\ addr' = [addr EXCEPT ![w] = e]
    /\ UNCHANGED <<now, held, wcode, wtime, stage, wmail, accounts, crashed, mails, mail>>

(* The address is new: the code of this second is made. *)
JudegeEmailBrandNew(w) ==
    /\ ~crashed /\ pc[w] = "judge"
    /\ \A i \in DOMAIN accounts : accounts[i].email # addr[w]
    /\ pc' = [pc EXCEPT ![w] = "mail"]
    /\ wcode' = [wcode EXCEPT ![w] = CodeOf[now]]
    /\ UNCHANGED <<now, held, client, addr, wtime, stage, wmail, accounts, crashed, mails, mail>>

(* It is not, or the query has failed.  After a failure the rows of the    *)
(* result before are counted: there may be no result, a null pointer.      *)
JudegeRefuses(w) ==
    /\ ~crashed /\ pc[w] = "judge"
    /\ \/ Done(w) /\ UNCHANGED <<now, held, accounts, crashed, mails, mail>>
       \/ Crash

(* Once the time is read, the dialogue goes on for as long as the replies  *)
(* are the expected ones.                                                  *)
SendEmail(w) ==
    /\ ~crashed /\ pc[w] = "mail" /\ stage[w] < Len(Dialogue)
    /\ stage' = [stage EXCEPT ![w] = @ + 1]
    /\ wtime' = IF stage[w] = 0 THEN [wtime EXCEPT ![w] = now] ELSE wtime
    /\ IF Dialogue[stage[w] + 1] = "BODY"
       THEN /\ Len(mails) < MaxMails
            /\ mails' = Append(mails, [to |-> addr[w], code |-> wcode[w], at |-> wtime[w]])
            /\ wmail' = [wmail EXCEPT ![w] = Len(mails')]
       ELSE UNCHANGED <<mails, wmail>>
    /\ UNCHANGED <<now, held, pc, client, addr, wcode, accounts, crashed, mail>>

(* A faulty SendEmailFails: what is asked is not whether it was sent. *)
SetsUnsent(w) ==
    /\ ~crashed /\ pc[w] = "mail" /\ stage[w] < Len(Dialogue)
    /\ SetCode(client[w], wcode[w], wtime[w], addr[w])
    /\ Done(w)
    /\ UNCHANGED <<now, accounts, crashed, mails, mail>>

(* Another reply or none: the client keeps the code it had.  A mail that   *)
(* was delivered has been delivered all the same.                          *)
SendEmailFails(w) ==
    /\ ~crashed /\ pc[w] = "mail" /\ stage[w] < Len(Dialogue)
    /\ Done(w)
    /\ UNCHANGED <<now, held, accounts, crashed, mails, mail>>

(* SendEmail has returned 0. *)
EndToken(w) ==
    /\ ~crashed /\ pc[w] = "mail" /\ stage[w] = Len(Dialogue)
    /\ SetCode(client[w], wcode[w], wtime[w], addr[w])
    /\ mail' = [mail EXCEPT ![client[w]] = wmail[w]]
    /\ Done(w)
    /\ UNCHANGED <<now, accounts, crashed, mails>>

------------------------------------------------------------------------------
(* c_registered_request with the code k.                                   *)

Holding(c) == code[c] # 0 /\ time[c] # 0
InTime(c)  == time[c] <= now /\ now - time[c] <= Interval

(* A faulty JudgeRegisterCode: the code is not spent. *)
JudgeWithoutSpending(w, c, k) ==
    /\ Take(w, c, "insert")
    /\ Holding(c) /\ InTime(c) /\ code[c] = k
    /\ addr' = [addr EXCEPT ![w] = email[c]]
    /\ wcode' = [wcode EXCEPT ![w] = k] /\ wtime' = [wtime EXCEPT ![w] = now]
    /\ wmail' = [wmail EXCEPT ![w] = mail[c]]
    /\ UNCHANGED <<now, held, stage, accounts, crashed, mails, mail>>

(* The right code, in time, is spent; the address is the client's.         *)
JudgeRegisterCode(w, c, k) ==
    /\ Take(w, c, "insert")
    /\ Holding(c) /\ InTime(c) /\ code[c] = k
    /\ time' = [time EXCEPT ![c] = 0]
    /\ addr' = [addr EXCEPT ![w] = email[c]]
    /\ wcode' = [wcode EXCEPT ![w] = k] /\ wtime' = [wtime EXCEPT ![w] = now]
    /\ wmail' = [wmail EXCEPT ![w] = mail[c]]
    /\ UNCHANGED <<now, code, email, stage, accounts, crashed, mails, mail>>

(* One too late is taken from the client.                                  *)
Expires(w, c) ==
    /\ ~crashed /\ pc[w] = "idle" /\ \A v \in Workers : client[v] # c
    /\ Holding(c) /\ ~InTime(c)
    /\ SetCode(c, 0, 0, NoEmail)
    /\ UNCHANGED <<now, workers, accounts, crashed, mails, mail>>

(* Registered takes seven characters off the end of the address.           *)
EraseThrows(w) == ~crashed /\ pc[w] = "insert" /\ addr[w] \in ShortEmails /\ Crash

Insert(w) ==
    accounts' = Append(accounts, [email |-> addr[w], code |-> wcode[w],
                                  at |-> wtime[w], mail |-> wmail[w]])

Registered(w) ==
    /\ ~crashed /\ pc[w] = "insert" /\ addr[w] \notin ShortEmails
    /\ Insert(w)
    /\ SetCode(client[w], 0, 0, NoEmail)
    /\ Done(w)
    /\ UNCHANGED <<now, crashed, mails, mail>>

(* The insertion fails, or has taken place but its reply is lost.          *)
InsertFails(w) ==
    /\ ~crashed /\ pc[w] = "insert" /\ addr[w] \notin ShortEmails
    /\ Insert(w) \/ UNCHANGED accounts
    /\ Done(w)
    /\ UNCHANGED <<now, held, crashed, mails, mail>>

Next ==
    \/ Tick
    \/ \E w \in Workers, c \in Clients :
          \/ \E e \in Emails : GetRegisteredToken(w, c, e)
          \/ \E t \in Times : JudgeRegisterCode(w, c, CodeOf[t])
          \/ Expires(w, c)
    \/ \E w \in Workers :
          \/ JudegeEmailBrandNew(w) \/ JudegeRefuses(w)
          \/ SendEmail(w) \/ SendEmailFails(w) \/ EndToken(w)
          \/ EraseThrows(w) \/ Registered(w) \/ InsertFails(w)

Spec == Init /\ [][Next]_vars

------------------------------------------------------------------------------
Mails    == [to : Emails, code : Nat, at : Times]
Accounts == [email : Emails, code : Nat, at : Times, mail : DOMAIN mails]

(* What the clients hold, what the workers have, what has come of it. *)
HeldTypes ==
    /\ now \in Times /\ crashed \in BOOLEAN
    /\ code \in [Clients -> Nat] /\ time \in [Clients -> Times \cup {0}]
    /\ email \in [Clients -> Emails \cup {NoEmail}]

WorkerTypes ==
    /\ pc \in [Workers -> {"idle", "judge", "mail", "insert"}]
    /\ client \in [Workers -> Clients \cup {NoClient}]
    /\ addr \in [Workers -> Emails \cup {NoEmail}]
    /\ wcode \in [Workers -> Nat] /\ wtime \in [Workers -> Times \cup {0}]
    /\ stage \in [Workers -> 0..Len(Dialogue)]

HistoryTypes ==
    /\ mails \in Seq(Mails) /\ Len(mails) <= MaxMails
    /\ mail \in [Clients -> 0..Len(mails)] /\ wmail \in [Workers -> 0..Len(mails)]
    /\ accounts \in Seq(Accounts)

TypeOK == HeldTypes /\ WorkerTypes /\ HistoryTypes

(* Each account has been made with a code that was mailed to its address   *)
(* no longer than Interval before it was accepted (GetRegisteredToken,     *)
(* SendEmail, JudgeRegisterCode).                                          *)
AccountsAreProven ==
    \A i \in DOMAIN accounts : LET a == accounts[i] IN
        \E j \in DOMAIN mails : /\ mails[j].to = a.email /\ mails[j].code = a.code
                                /\ a.at - mails[j].at \in 0..Interval

(* No mail yields two accounts, even if the reply to an insertion is lost  *)
(* and the client tries again (JudgeRegisterCode spends the code first).   *)
CodeUsedOnce ==
    \A i, j \in DOMAIN accounts : i # j => accounts[i].mail # accounts[j].mail
==============================================================================
