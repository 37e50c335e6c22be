-------------------------- MODULE RegistrationProofs --------------------------
(***************************************************************************)
(* Registration, for any clients, workers, addresses and times: types,     *)
(* AccountsAreProven and CodeUsedOnce.  A delivered mail is with one owner *)
(* at a time, the worker that has sent it, the client that holds its code, *)
(* the worker that registers with it, or the account; and what the owner   *)
(* has of it is what the mail says.                                        *)
(***************************************************************************)
EXTENDS Registration, TLAPS

(* A worker with a request knows whose it is and the address it is about;  *)
(* the time is read before the mail is sent.                               *)
Placed ==
    \A w \in Workers :
        /\ pc[w] # "idle" => client[w] \in Clients
        /\ pc[w] \in {"judge", "mail"} => addr[w] \in Emails
        /\ pc[w] = "mail" /\ stage[w] > 0 => wtime[w] \in Times

(* A worker has a mail from BODY on, and until its request is answered. *)
MailInHand ==
    \A w \in Workers :
        /\ pc[w] \in {"idle", "judge"} => wmail[w] = 0 /\ stage[w] = 0
        /\ pc[w] = "mail" => (wmail[w] # 0 <=> stage[w] >= 9)
        /\ pc[w] = "insert" => wmail[w] # 0 /\ stage[w] = 0

(* What a worker or a client has of its mail is what the mail says. *)
AsMailed ==
    /\ \A w \in Workers : wmail[w] # 0 =>
          /\ mails[wmail[w]].to = addr[w] /\ mails[wmail[w]].code = wcode[w]
          /\ pc[w] = "mail" => mails[wmail[w]].at = wtime[w]
          /\ pc[w] = "insert" => wtime[w] - mails[wmail[w]].at \in 0..Interval
    /\ \A c \in Clients : Holding(c) =>
          /\ mail[c] # 0
          /\ mails[mail[c]].to = email[c] /\ mails[mail[c]].code = code[c]
          /\ mails[mail[c]].at = time[c]

(* Nobody else has the mail that a worker, a client or an account has. *)
OneOwner ==
    /\ \A w, v \in Workers : w # v /\ wmail[w] # 0 => wmail[w] # wmail[v]
    /\ \A c, d \in Clients : c # d /\ Holding(c) /\ Holding(d) => mail[c] # mail[d]
    /\ \A w \in Workers, c \in Clients : Holding(c) => wmail[w] # mail[c]
    /\ \A i \in DOMAIN accounts :
          /\ \A w \in Workers : wmail[w] # accounts[i].mail
          /\ \A c \in Clients : Holding(c) => mail[c] # accounts[i].mail

(* An account's mail is the one that proves it. *)
ProvenByItsMail ==
    \A i \in DOMAIN accounts :
        LET m == mails[accounts[i].mail] IN
        /\ m.to = accounts[i].email /\ m.code = accounts[i].code
        /\ accounts[i].at - m.at \in 0..Interval

IInv == /\ HeldTypes /\ WorkerTypes /\ HistoryTypes /\ Placed /\ MailInHand
        /\ AsMailed /\ OneOwner /\ ProvenByItsMail /\ CodeUsedOnce

------------------------------------------------------------------------------
(* Of the ten waits of the dialogue the ninth delivers the mail. *)
LEMMA DialogueShape ==
  /\ Len(Dialogue) = 10
  /\ \A i \in 1..10 : Dialogue[i] = "BODY" <=> i = 9
  BY DEF Dialogue

(* Every account has one of the mails. *)
LEMMA AccountsHaveMails ==
  ASSUME HistoryTypes
  PROVE  /\ DOMAIN mails = 1..Len(mails) /\ Len(mails) \in Nat
         /\ \A i \in DOMAIN accounts : accounts[i].mail \in DOMAIN mails
         /\ \A i \in DOMAIN accounts : accounts[i].mail # 0
  <1>1. DOMAIN mails = 1..Len(mails) /\ Len(mails) \in Nat
    BY DEF HistoryTypes
  <1>2. \A i \in DOMAIN accounts : accounts[i] \in Accounts
    BY DEF HistoryTypes
  <1>3. \A i \in DOMAIN accounts : accounts[i].mail \in DOMAIN mails
    BY <1>2 DEF Accounts
  <1> QED
    BY <1>1, <1>3

LEMMA InitInv == Init => IInv
  <1> SUFFICES ASSUME Init PROVE IInv
    OBVIOUS
  <1> USE RegistrationAssumption DEF Init
  <1>1. HeldTypes
    <2>1. 1 \in Times
      BY DEF Times
    <2>2. crashed \in BOOLEAN
      OBVIOUS
    <2> QED
      BY <2>1, <2>2 DEF HeldTypes
  <1>2. WorkerTypes
    BY DialogueShape DEF WorkerTypes
  <1>3. HistoryTypes
    BY DEF HistoryTypes
  <1>4. Placed /\ MailInHand /\ AsMailed /\ OneOwner
    BY DEF Placed, MailInHand, AsMailed, OneOwner, Holding
  <1>5. ProvenByItsMail /\ CodeUsedOnce
    BY DEF ProvenByItsMail, CodeUsedOnce
  <1> QED
    BY <1>1, <1>2, <1>3, <1>4, <1>5 DEF IInv


LEMMA TickStep ==
  ASSUME IInv, Tick
  PROVE  IInv'
  <1> USE RegistrationAssumption DEF IInv, Tick, held, workers
  <1>1. HeldTypes'
    BY DEF HeldTypes, Times
  <1>2. WorkerTypes'
    BY DEF HeldTypes, WorkerTypes
  <1>3. HistoryTypes'
    BY DEF WorkerTypes, HistoryTypes, Accounts
  <1>4. Placed'
    BY DEF WorkerTypes, Placed
  <1>5. MailInHand'
    BY DEF WorkerTypes, HistoryTypes, MailInHand
  <1>6. AsMailed'
    BY DEF HeldTypes, WorkerTypes, HistoryTypes, AsMailed, MailInHand, Holding
  <1>7. OneOwner'
    BY DEF HeldTypes, WorkerTypes, HistoryTypes, OneOwner, MailInHand, Holding
  <1>8. ProvenByItsMail'
    BY DEF HistoryTypes, ProvenByItsMail
  <1>9. CodeUsedOnce'
    BY DEF HistoryTypes, CodeUsedOnce
  <1> QED
    BY <1>1, <1>2, <1>3, <1>4, <1>5, <1>6, <1>7, <1>8, <1>9

LEMMA GetRegisteredTokenStep ==
  ASSUME IInv, NEW w \in Workers, NEW c \in Clients, NEW e \in Emails, GetRegisteredToken(w, c, e)
  PROVE  IInv'
  <1> USE RegistrationAssumption DEF IInv, GetRegisteredToken, Take, held, workers
  <1>1. HeldTypes'
    BY DEF HeldTypes, Times
  <1>2. WorkerTypes'
    BY DEF HeldTypes, WorkerTypes
  <1>3. HistoryTypes'
    BY DEF WorkerTypes, HistoryTypes, Accounts
  <1>4. Placed'
    BY DEF WorkerTypes, Placed
  <1>5. MailInHand'
    BY DEF WorkerTypes, HistoryTypes, MailInHand
  <1>6. AsMailed'
    BY DEF HeldTypes, WorkerTypes, HistoryTypes, AsMailed, MailInHand, Holding
  <1>7. OneOwner'
    BY DEF HeldTypes, WorkerTypes, HistoryTypes, OneOwner, MailInHand, Holding
  <1>8. ProvenByItsMail'
    BY DEF HistoryTypes, ProvenByItsMail
  <1>9. CodeUsedOnce'
    BY DEF HistoryTypes, CodeUsedOnce
  <1> QED
    BY <1>1, <1>2, <1>3, <1>4, <1>5, <1>6, <1>7, <1>8, <1>9

LEMMA JudegeEmailBrandNewStep ==
  ASSUME IInv, NEW w \in Workers, JudegeEmailBrandNew(w)
  PROVE  IInv'
  <1> USE RegistrationAssumption DEF IInv, JudegeEmailBrandNew, held, workers
  <1>1. HeldTypes'
    BY DEF HeldTypes, Times
  <1>2. WorkerTypes'
    BY DEF HeldTypes, WorkerTypes, Times
  <1>3. HistoryTypes'
    BY DEF WorkerTypes, HistoryTypes, Accounts
  <1>4. Placed'
    BY DEF WorkerTypes, Placed, MailInHand
  <1>5. MailInHand'
    BY DEF WorkerTypes, HistoryTypes, MailInHand
  <1>6. AsMailed'
    BY DEF HeldTypes, WorkerTypes, HistoryTypes, AsMailed, MailInHand, Holding
  <1>7. OneOwner'
    BY DEF HeldTypes, WorkerTypes, HistoryTypes, OneOwner, MailInHand, Holding
  <1>8. ProvenByItsMail'
    BY DEF HistoryTypes, ProvenByItsMail
  <1>9. CodeUsedOnce'
    BY DEF HistoryTypes, CodeUsedOnce
  <1> QED
    BY <1>1, <1>2, <1>3, <1>4, <1>5, <1>6, <1>7, <1>8, <1>9

(* A worker that has answered has nothing left; what is held, mailed and   *)
(* registered is as it was.                                                *)
LEMMA DoneStep ==
  ASSUME IInv, NEW w \in Workers, Done(w),
         UNCHANGED <<now, held, accounts, crashed, mails, mail>>
  PROVE  IInv'
  <1> USE RegistrationAssumption DEF IInv, Done, held
  <1>0. /\ \A i \in DOMAIN accounts : accounts[i].mail # 0
        /\ \A c \in Clients : Holding(c) => mail[c] # 0
    BY AccountsHaveMails DEF AsMailed
  <1>1. HeldTypes'
    BY DEF HeldTypes
  <1>2. WorkerTypes'
    BY DialogueShape DEF WorkerTypes
  <1>3. HistoryTypes'
    BY DEF HistoryTypes, Accounts
  <1>4. Placed'
    BY DEF WorkerTypes, Placed
  <1>5. MailInHand'
    BY DEF WorkerTypes, HistoryTypes, MailInHand
  <1>6. AsMailed'
    BY DEF HeldTypes, WorkerTypes, HistoryTypes, AsMailed, Holding
  <1>7. OneOwner'
    BY <1>0 DEF HeldTypes, WorkerTypes, HistoryTypes, OneOwner, Holding
  <1>8. ProvenByItsMail'
    BY DEF ProvenByItsMail
  <1>9. CodeUsedOnce'
    BY DEF CodeUsedOnce
  <1> QED
    BY <1>1, <1>2, <1>3, <1>4, <1>5, <1>6, <1>7, <1>8, <1>9

LEMMA CrashStep ==
  ASSUME IInv, Crash
  PROVE  IInv'
  <1> USE DEF IInv, Crash, held, workers
  <1>1. HeldTypes' /\ WorkerTypes' /\ Placed' /\ MailInHand'
    BY DEF HeldTypes, WorkerTypes, Placed, MailInHand
  <1>2. HistoryTypes'
    BY DEF HistoryTypes, Accounts
  <1>3. AsMailed' /\ OneOwner'
    BY DEF AsMailed, OneOwner, Holding
  <1>4. ProvenByItsMail' /\ CodeUsedOnce'
    BY DEF ProvenByItsMail, CodeUsedOnce
  <1> QED
    BY <1>1, <1>2, <1>3, <1>4

LEMMA JudegeRefusesStep ==
  ASSUME IInv, NEW w \in Workers, JudegeRefuses(w)
  PROVE  IInv'
  BY DoneStep, CrashStep DEF JudegeRefuses

LEMMA SendEmailStep ==
  ASSUME IInv, NEW w \in Workers, SendEmail(w)
  PROVE  IInv'
  <1> USE RegistrationAssumption DEF IInv, held
  <1> DEFINE body == stage[w] = 8
             new  == [to |-> addr[w], code |-> wcode[w], at |-> wtime[w]]
  <1>a. /\ pc[w] = "mail" /\ stage[w] \in 0..9 /\ stage' = [stage EXCEPT ![w] = @ + 1]
        /\ wtime' = IF stage[w] = 0 THEN [wtime EXCEPT ![w] = now] ELSE wtime
        /\ UNCHANGED <<now, held, pc, client, addr, wcode, accounts, crashed, mail>>
    BY DialogueShape DEF SendEmail, WorkerTypes
  <1>b. CASE ~body
    <2>1. UNCHANGED <<mails, wmail>>
      BY <1>a, <1>b, DialogueShape DEF SendEmail
    <2>2. HeldTypes' /\ Placed'
      BY <1>a DEF HeldTypes, WorkerTypes, Placed
    <2>3. WorkerTypes'
      BY <1>a, DialogueShape DEF WorkerTypes, HeldTypes
    <2>4. HistoryTypes'
      BY <1>a, <2>1 DEF HistoryTypes, Accounts
    <2>5. MailInHand'
      BY <1>a, <1>b, <2>1 DEF WorkerTypes, MailInHand
    <2>6. AsMailed'
      BY <1>a, <1>b, <2>1 DEF WorkerTypes, MailInHand, AsMailed, Holding
    <2>7. OneOwner' /\ ProvenByItsMail' /\ CodeUsedOnce'
      BY <1>a, <2>1 DEF OneOwner, ProvenByItsMail, CodeUsedOnce, Holding
    <2> QED
      BY <2>2, <2>3, <2>4, <2>5, <2>6, <2>7
  <1>c. CASE body
    <2>1. /\ Len(mails) < MaxMails /\ mails' = Append(mails, new)
          /\ wmail' = [wmail EXCEPT ![w] = Len(mails')] /\ wtime' = wtime
      BY <1>a, <1>c, DialogueShape DEF SendEmail
    <2>2. new \in Mails
      BY <1>a, <1>c DEF Placed, WorkerTypes, Mails
    <2>3. /\ mails' \in Seq(Mails) /\ Len(mails') = Len(mails) + 1
          /\ mails'[Len(mails) + 1] = new /\ \A i \in 1..Len(mails) : mails'[i] = mails[i]
      BY <2>1, <2>2 DEF HistoryTypes
    <2>4. /\ DOMAIN mails = 1..Len(mails) /\ Len(mails) \in Nat
          /\ wmail'[w] = Len(mails) + 1 /\ \A v \in Workers \ {w} : wmail'[v] = wmail[v]
          /\ \A v \in Workers : wmail[v] \in 0..Len(mails)
          /\ \A c \in Clients : mail[c] \in 0..Len(mails)
          /\ \A i \in DOMAIN accounts : accounts[i].mail \in 1..Len(mails)
      BY <2>1, <2>3, AccountsHaveMails DEF HistoryTypes
    <2>5. HeldTypes' /\ Placed'
      BY <1>a DEF HeldTypes, WorkerTypes, Placed
    <2>6. WorkerTypes'
      BY <1>a, DialogueShape DEF WorkerTypes, HeldTypes
    <2>7. HistoryTypes'
      <3>1. Accounts \subseteq Accounts'
        BY <2>3, <2>4 DEF Accounts, HistoryTypes
      <3>2. accounts \in Seq(Accounts')
        BY <3>1 DEF HistoryTypes
      <3>3. /\ Len(mails') <= MaxMails /\ mail' \in [Clients -> 0..Len(mails')]
            /\ wmail' \in [Workers -> 0..Len(mails')]
        BY <1>a, <2>1, <2>3, <2>4 DEF HistoryTypes
      <3> QED
        BY <1>a, <2>3, <3>2, <3>3 DEF HistoryTypes
    <2>8. MailInHand'
      <3>1. stage'[w] = 9 /\ \A v \in Workers \ {w} : stage'[v] = stage[v]
        BY <1>a, <1>c DEF WorkerTypes
      <3> QED
        BY <1>a, <2>4, <3>1 DEF MailInHand
    <2>9. AsMailed'
      BY <1>a, <1>c, <2>1, <2>3, <2>4 DEF AsMailed, Holding, WorkerTypes
    <2>10. OneOwner'
      BY <1>a, <2>4 DEF OneOwner, Holding
    <2>11. ProvenByItsMail' /\ CodeUsedOnce'
      BY <1>a, <2>3, <2>4 DEF ProvenByItsMail, CodeUsedOnce
    <2> QED
      BY <2>5, <2>6, <2>7, <2>8, <2>9, <2>10, <2>11
  <1> QED
    BY <1>b, <1>c

LEMMA SendEmailFailsStep ==
  ASSUME IInv, NEW w \in Workers, SendEmailFails(w)
  PROVE  IInv'
  BY DoneStep DEF SendEmailFails

LEMMA EndTokenStep ==
  ASSUME IInv, NEW w \in Workers, EndToken(w)
  PROVE  IInv'
  <1> USE RegistrationAssumption DEF IInv, EndToken, SetCode, Done, held, workers
  <1>0. client[w] \in Clients /\ wmail[w] # 0 /\ addr[w] \in Emails
    BY DialogueShape DEF Placed, MailInHand
  <1>1. HeldTypes'
    BY <1>0 DEF HeldTypes, WorkerTypes
  <1>2. WorkerTypes'
    BY DEF HeldTypes, WorkerTypes
  <1>3. HistoryTypes'
    <2>1. mail' \in [Clients -> 0..Len(mails)] /\ wmail' \in [Workers -> 0..Len(mails)]
      BY <1>0 DEF HistoryTypes
    <2> QED
      BY <2>1 DEF HistoryTypes, Accounts
  <1>4. Placed'
    BY DEF WorkerTypes, Placed
  <1>5. MailInHand'
    BY DEF WorkerTypes, HistoryTypes, MailInHand
  <1>6. AsMailed'
    <2>1. ASSUME NEW v \in Workers, wmail'[v] # 0
          PROVE  v # w /\ wmail'[v] = wmail[v] /\ wmail[v] # 0
      BY <2>1 DEF HistoryTypes
    <2>2. ASSUME NEW d \in Clients, d # client[w]
          PROVE  /\ Holding(d)' <=> Holding(d)
                 /\ mail'[d] = mail[d] /\ email'[d] = email[d] /\ code'[d] = code[d]
                 /\ time'[d] = time[d]
      BY <2>2 DEF Holding, HeldTypes, HistoryTypes
    <2>3. LET d == client[w] IN
          /\ mail'[d] = wmail[w] /\ email'[d] = addr[w] /\ code'[d] = wcode[w]
          /\ time'[d] = wtime[w]
      BY <1>0 DEF HeldTypes, HistoryTypes
    <2>4. ASSUME NEW v \in Workers, v # w
          PROVE  pc'[v] = pc[v] /\ addr'[v] = addr[v] /\ wcode'[v] = wcode[v] /\ wtime'[v] = wtime[v]
      BY <2>4 DEF WorkerTypes
    <2> QED
      BY <1>0, <2>1, <2>2, <2>3, <2>4 DEF AsMailed
  <1>7. OneOwner'
    <2>1. \A v \in Workers : wmail'[v] = IF v = w THEN 0 ELSE wmail[v]
      BY DEF HistoryTypes
    <2>2. \A d \in Clients : mail'[d] = IF d = client[w] THEN wmail[w] ELSE mail[d]
      BY DEF HistoryTypes
    <2>3. \A d \in Clients \ {client[w]} : Holding(d)' <=> Holding(d)
      BY DEF Holding, HeldTypes
    <2>4. /\ \A d \in Clients : Holding(d) => mail[d] # 0
          /\ \A i \in DOMAIN accounts : accounts[i].mail # 0
      BY AccountsHaveMails DEF AsMailed
    <2> QED
      BY <1>0, <2>1, <2>2, <2>3, <2>4 DEF OneOwner
  <1>8. ProvenByItsMail'
    BY DEF HistoryTypes, ProvenByItsMail
  <1>9. CodeUsedOnce'
    BY DEF HistoryTypes, CodeUsedOnce
  <1> QED
    BY <1>1, <1>2, <1>3, <1>4, <1>5, <1>6, <1>7, <1>8, <1>9

LEMMA JudgeRegisterCodeStep ==
  ASSUME IInv, NEW w \in Workers, NEW c \in Clients, NEW t \in Times, JudgeRegisterCode(w, c, CodeOf[t])
  PROVE  IInv'
  <1> USE RegistrationAssumption DEF IInv, JudgeRegisterCode, Take, held, workers
  <1>0. Holding(c) /\ mail[c] # 0 /\ stage[w] = 0
    BY DEF AsMailed, MailInHand
  <1>1. HeldTypes'
    BY DEF HeldTypes, Times
  <1>2. WorkerTypes'
    BY DEF HeldTypes, WorkerTypes
  <1>3. HistoryTypes'
    BY DEF WorkerTypes, HistoryTypes, Accounts
  <1>4. Placed'
    BY DEF WorkerTypes, Placed
  <1>5. MailInHand'
    BY <1>0 DEF WorkerTypes, HistoryTypes, MailInHand
  <1>6. AsMailed'
    <2>1. \A v \in Workers \ {w} :
            /\ wmail'[v] = wmail[v] /\ pc'[v] = pc[v] /\ addr'[v] = addr[v]
            /\ wcode'[v] = wcode[v] /\ wtime'[v] = wtime[v]
      BY DEF WorkerTypes, HistoryTypes
    <2>2. /\ wmail'[w] = mail[c] /\ pc'[w] = "insert" /\ addr'[w] = email[c]
          /\ wcode'[w] = code[c] /\ wtime'[w] = now
      BY DEF WorkerTypes, HistoryTypes
    <2>3. now - time[c] \in 0..Interval
      <3>1. time[c] <= now /\ now - time[c] <= Interval
        BY DEF InTime
      <3>2. time[c] \in Int /\ now \in Int
        BY DEF HeldTypes, Times
      <3> QED
        BY <3>1, <3>2
    <2>4. \A d \in Clients : Holding(d)' => Holding(d) /\ time'[d] = time[d]
      BY DEF HeldTypes, Holding
    <2> QED
      BY <1>0, <2>1, <2>2, <2>3, <2>4 DEF AsMailed
  <1>7. OneOwner'
    BY DEF HeldTypes, WorkerTypes, HistoryTypes, OneOwner, MailInHand, Holding
  <1>8. ProvenByItsMail'
    BY DEF HistoryTypes, ProvenByItsMail
  <1>9. CodeUsedOnce'
    BY DEF HistoryTypes, CodeUsedOnce
  <1> QED
    BY <1>1, <1>2, <1>3, <1>4, <1>5, <1>6, <1>7, <1>8, <1>9

LEMMA ExpiresStep ==
  ASSUME IInv, NEW w \in Workers, NEW c \in Clients, Expires(w, c)
  PROVE  IInv'
  <1> USE RegistrationAssumption DEF IInv, Expires, SetCode, held, workers
  <1>1. HeldTypes'
    BY DEF HeldTypes, Times
  <1>2. WorkerTypes'
    BY DEF HeldTypes, WorkerTypes
  <1>3. HistoryTypes'
    BY DEF WorkerTypes, HistoryTypes, Accounts
  <1>4. Placed'
    BY DEF WorkerTypes, Placed
  <1>5. MailInHand'
    BY DEF WorkerTypes, HistoryTypes, MailInHand
  <1>6. AsMailed'
    BY DEF HeldTypes, WorkerTypes, HistoryTypes, AsMailed, MailInHand, Holding
  <1>7. OneOwner'
    BY DEF HeldTypes, WorkerTypes, HistoryTypes, OneOwner, MailInHand, Holding
  <1>8. ProvenByItsMail'
    BY DEF HistoryTypes, ProvenByItsMail
  <1>9. CodeUsedOnce'
    BY DEF HistoryTypes, CodeUsedOnce
  <1> QED
    BY <1>1, <1>2, <1>3, <1>4, <1>5, <1>6, <1>7, <1>8, <1>9

LEMMA EraseThrowsStep ==
  ASSUME IInv, NEW w \in Workers, EraseThrows(w)
  PROVE  IInv'
  BY CrashStep DEF EraseThrows

(* An account is inserted by the worker that has the mail. *)
LEMMA InsertAdds ==
  ASSUME IInv, NEW w \in Workers, pc[w] = "insert", addr[w] \notin ShortEmails, Insert(w),
         Done(w), UNCHANGED <<now, crashed, mails, mail>>,
         UNCHANGED held \/ SetCode(client[w], 0, 0, NoEmail)
  PROVE  IInv'
  <1> USE RegistrationAssumption DEF IInv
  <1> DEFINE new == [email |-> addr[w], code |-> wcode[w], at |-> wtime[w], mail |-> wmail[w]]
  <1>1. /\ client[w] \in Clients /\ wmail[w] \in DOMAIN mails
        /\ \A i \in DOMAIN accounts : accounts[i].mail # 0
    BY AccountsHaveMails DEF Placed, MailInHand, HistoryTypes
  <1>2. new \in Accounts
    <2>1. addr[w] = mails[wmail[w]].to /\ mails[wmail[w]] \in Mails
      BY <1>1 DEF AsMailed, MailInHand, HistoryTypes
    <2>2. addr[w] \in Emails /\ wcode[w] \in Nat
      BY <2>1 DEF Mails, WorkerTypes
    <2>3. wtime[w] \in Times
      <3>1. mails[wmail[w]].at \in Times
        BY <2>1 DEF Mails
      <3>2. wtime[w] - mails[wmail[w]].at \in 0..Interval
        BY <1>1 DEF AsMailed, MailInHand
      <3> QED
        BY <3>1, <3>2 DEF WorkerTypes, Times
    <2> QED
      BY <1>1, <2>2, <2>3 DEF Accounts
  <1>3. /\ accounts' \in Seq(Accounts) /\ DOMAIN accounts = 1..Len(accounts)
        /\ DOMAIN accounts' = 1..Len(accounts) + 1 /\ Len(accounts) \in Nat
        /\ accounts'[Len(accounts) + 1] = new
        /\ \A i \in 1..Len(accounts) : accounts'[i] = accounts[i]
    BY <1>2 DEF Insert, HistoryTypes
  <1>4. \A c \in Clients : Holding(c)' =>
           /\ Holding(c) /\ code'[c] = code[c] /\ time'[c] = time[c]
           /\ email'[c] = email[c]
    BY <1>1 DEF SetCode, held, HeldTypes, Holding
  <1>5. /\ pc' = [pc EXCEPT ![w] = "idle"] /\ wmail' = [wmail EXCEPT ![w] = 0]
        /\ \A v \in Workers \ {w} : /\ pc'[v] = pc[v] /\ addr'[v] = addr[v]
              /\ wcode'[v] = wcode[v] /\ wtime'[v] = wtime[v] /\ wmail'[v] = wmail[v]
        /\ wmail'[w] = 0 /\ pc'[w] = "idle"
    BY DEF Done, WorkerTypes, HistoryTypes
  <1>6. HeldTypes'
    BY <1>1 DEF HeldTypes, SetCode, held
  <1>7. WorkerTypes'
    BY DialogueShape DEF WorkerTypes, Done
  <1>8. HistoryTypes'
    <2>1. accounts' \in Seq(Accounts')
      BY <1>3 DEF Accounts
    <2> QED
      BY <1>5, <2>1 DEF HistoryTypes
  <1>9. Placed'
    BY DEF WorkerTypes, Placed, Done
  <1>10. MailInHand'
    BY DEF WorkerTypes, HistoryTypes, MailInHand, Done
  <1>11. AsMailed'
    BY <1>4, <1>5 DEF AsMailed
  <1>12. OneOwner'
    <2>1. \A c \in Clients : Holding(c) => mail[c] # 0 /\ mail[c] # wmail[w]
      BY DEF AsMailed, OneOwner
    <2>2. \A i \in DOMAIN accounts' :
             /\ \A v \in Workers : wmail'[v] # accounts'[i].mail
             /\ \A c \in Clients : Holding(c) => mail[c] # accounts'[i].mail
      <3>1. \A i \in DOMAIN accounts :
               /\ \A v \in Workers : wmail'[v] # accounts[i].mail
               /\ \A c \in Clients : Holding(c) => mail[c] # accounts[i].mail
        BY <1>1, <1>5 DEF OneOwner
      <3>2. \A v \in Workers : wmail'[v] # new.mail
        BY <1>1, <1>5, AccountsHaveMails DEF OneOwner
      <3> QED
        BY <1>3, <2>1, <3>1, <3>2
    <2> QED
      BY <1>4, <1>5, <2>1, <2>2 DEF OneOwner
  <1>13. ProvenByItsMail'
    <2>1. /\ mails[wmail[w]].to = new.email /\ mails[wmail[w]].code = new.code
          /\ new.at - mails[wmail[w]].at \in 0..Interval
      BY <1>1 DEF AsMailed, MailInHand
    <2> QED
      BY <1>3, <2>1 DEF ProvenByItsMail
  <1>14. CodeUsedOnce'
    <2>1. \A i \in DOMAIN accounts : accounts[i].mail # new.mail
      BY <1>1 DEF OneOwner
    <2> QED
      BY <1>3, <2>1 DEF CodeUsedOnce
  <1> QED
    BY <1>6, <1>7, <1>8, <1>9, <1>10, <1>11, <1>12, <1>13, <1>14

LEMMA RegisteredStep ==
  ASSUME IInv, NEW w \in Workers, Registered(w)
  PROVE  IInv'
  BY InsertAdds DEF Registered

LEMMA InsertFailsStep ==
  ASSUME IInv, NEW w \in Workers, InsertFails(w)
  PROVE  IInv'
  BY InsertAdds, DoneStep DEF InsertFails

LEMMA NextInv == IInv /\ [Next]_vars => IInv'
  <1> SUFFICES ASSUME IInv, [Next]_vars PROVE IInv'
    OBVIOUS
  <1>1. CASE UNCHANGED vars
    <2> USE <1>1 DEF IInv, vars, held, workers
    <2>1. HeldTypes' /\ WorkerTypes' /\ Placed' /\ MailInHand'
      BY DEF HeldTypes, WorkerTypes, Placed, MailInHand
    <2>2. HistoryTypes'
      BY DEF HistoryTypes, Accounts
    <2>3. AsMailed' /\ OneOwner'
      BY DEF AsMailed, OneOwner, Holding
    <2>4. ProvenByItsMail' /\ CodeUsedOnce'
      BY DEF ProvenByItsMail, CodeUsedOnce
    <2> QED
      BY <2>1, <2>2, <2>3, <2>4
  <1>2. CASE Tick
    BY <1>2, TickStep
  <1>3. ASSUME NEW w \in Workers, NEW c \in Clients, NEW e \in Emails,
               GetRegisteredToken(w, c, e)
        PROVE  IInv'
    BY <1>3, GetRegisteredTokenStep
  <1>4. ASSUME NEW w \in Workers, NEW c \in Clients, NEW t \in Times,
               JudgeRegisterCode(w, c, CodeOf[t])
        PROVE  IInv'
    BY <1>4, JudgeRegisterCodeStep
  <1>5. ASSUME NEW w \in Workers, NEW c \in Clients, Expires(w, c)
        PROVE  IInv'
    BY <1>5, ExpiresStep
  <1>6. ASSUME NEW w \in Workers,
               \/ JudegeEmailBrandNew(w) \/ JudegeRefuses(w)
               \/ SendEmail(w) \/ SendEmailFails(w) \/ EndToken(w)
        PROVE  IInv'
    BY <1>6, JudegeEmailBrandNewStep, JudegeRefusesStep, SendEmailStep,
       SendEmailFailsStep, EndTokenStep
  <1>7. ASSUME NEW w \in Workers, EraseThrows(w) \/ Registered(w) \/ InsertFails(w)
        PROVE  IInv'
    BY <1>7, EraseThrowsStep, RegisteredStep, InsertFailsStep
  <1> QED
    BY <1>1, <1>2, <1>3, <1>4, <1>5, <1>6, <1>7 DEF Next

(* Every variable keeps its type, whatever fails (the codes the clients    *)
(* hold, the workers' locals, the mails and the table actor).              *)
THEOREM RegistrationTypeOK == Spec => []TypeOK
  <1>1. IInv => TypeOK
    BY DEF IInv, TypeOK
  <1> QED
    BY InitInv, NextInv, <1>1, PTL DEF Spec

(* Each account has been made with a code that was mailed to its address   *)
(* in time, for any clients, workers, addresses and lengths of the         *)
(* interval, also when two seconds make one code (GetRegisteredToken,      *)
(* SendEmail, JudgeRegisterCode).                                          *)
THEOREM AccountsAreAlwaysProven == Spec => []AccountsAreProven
  <1>1. IInv => AccountsAreProven
    BY AccountsHaveMails DEF IInv, ProvenByItsMail, AccountsAreProven
  <1> QED
    BY InitInv, NextInv, <1>1, PTL DEF Spec

(* No mail yields two accounts, whatever becomes of the insertions         *)
(* (JudgeRegisterCode spends the code before the account is inserted).     *)
THEOREM CodesAreUsedOnce == Spec => []CodeUsedOnce
  <1>1. IInv => CodeUsedOnce
    BY DEF IInv
  <1> QED
    BY InitInv, NextInv, <1>1, PTL DEF Spec

==============================================================================
