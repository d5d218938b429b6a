----------------------------- MODULE CreateForm -----------------------------
(***************************************************************************)
(* The page that creates a circle (app/src/app/create/CreateClient.tsx):    *)
(* the form, its validation, the amounts it shows and its submission to the *)
(* factory.  A text field is a record of what its text means and of how it  *)
(* is written; amounts count tenths of a stroop, one digit more than USDC   *)
(* has.                                                                     *)
(***************************************************************************)
EXTENDS Validators

CONSTANTS
  MIN_FORM_MEMBERS, MAX_FORM_MEMBERS,   \* the form's own limits
  MAX_NAME_LENGTH, MAX_ROUND_USDC, MAX_ROUND_DAYS,
  STROOP,                               \* stroops in one USDC
  LEDGERS_PER_DAY,
  Names, Entries, AmountTexts, DayTexts \* what may be typed into the form

\* Nothing the form accepts as an amount can overflow in the contract.
ASSUME CreateFormAssumption ==
  MAX_ROUND_USDC * STROOP * PENALTY_BPS <= I128_MAX

\* The form's limits lie within the contracts'.
ASSUME FormLimitsAssumption ==
  /\ MIN_FORM_MEMBERS = 2 /\ MAX_FORM_MEMBERS \in MIN_FORM_MEMBERS..MAX_MEMBERS
  /\ MAX_FORM_MEMBERS <= PENALTY_BPS
  /\ MAX_ROUND_USDC \in Nat /\ STROOP \in Nat \ {0}
  /\ LEDGERS_PER_DAY \in Nat /\ MIN_ROUND_DEADLINE_LEDGERS <= LEDGERS_PER_DAY

\* An entry of the list is of a kind and of somebody; the texts mean whole numbers,
\* of tenths of a stroop and of days.
ASSUME TextsAssumption ==
  /\ \A e \in Entries : e = [kind |-> e.kind, who |-> e.who]
  /\ \A a \in AmountTexts : a.tenths \in Int
  /\ \A d \in DayTexts : d.mantissa \in Int

VARIABLE page     \* how the last submission ended

allVars == <<vars, page>>

\* The form: the length of the trimmed name, the rows of the member list, which
\* addMember and removeMember keep within the limits, and the two numbers.
Forms == [name : Names, amount : AmountTexts, days : DayTexts,
          members : UNION {[1..n -> Entries] :
                             n \in MIN_FORM_MEMBERS..MAX_FORM_MEMBERS}]

-----------------------------------------------------------------------------
(* Members.                                                                *)

isStellarPublicKey(e) == e.kind \in {"account", "miskeyed"}
isValidStellarAccount(e) == isStellarPublicKey(e) /\ e.kind # "miskeyed"

getFilledMembers(members) == Without(members, {e \in Range(members) : e.kind = "blank"})

getMemberCountStatus(n) ==
  IF n < MIN_FORM_MEMBERS THEN "too_few"
  ELSE IF n > MAX_FORM_MEMBERS THEN "too_many" ELSE "ok"

\* What the counter beside the list shows; addresses are compared in lower case.
summarizeMemberRows(members) ==
  LET filled   == getFilledMembers(members)
      distinct == Cardinality(
        {<<IF e.kind = "lowercase" THEN "account" ELSE e.kind, e.who>> :
           e \in Range(filled)})
  IN  [count |-> distinct, blankRows |-> Len(members) - Len(filled),
       duplicateRows |-> Len(filled) - distinct,
       status |-> getMemberCountStatus(distinct)]

findDuplicateAddress(ms) == \E i, j \in DOMAIN ms : i < j /\ ms[i] = ms[j]

\* Why a row is refused, or "".
validateMemberEntry(e) ==
  IF e.kind = "blank"                 THEN ""
  ELSE IF e.kind = "lowercase"        THEN "uppercase"
  ELSE IF e.kind = "contract"         THEN "contract"
  ELSE IF e.kind = "muxed"            THEN "muxed"
  ELSE IF ~isStellarPublicKey(e)      THEN "generic"
  ELSE IF ~isValidStellarAccount(e)   THEN "checksum"
  ELSE ""

-----------------------------------------------------------------------------
(* Amounts and days.                                                       *)

\* Digits beyond a stroop, trailing zeros aside; an exponent hides them.
TooManyDecimals(a) == a.notation # "exponent" /\ a.tenths % 10 # 0

\* usdcToStroops throws on a sign, on an empty text, on a leading point and on
\* digits it would have to drop.
usdcToStroops(a) ==
  IF a.notation \in {"empty", "leading-point"} \/ a.tenths < 0 \/ a.tenths % 10 # 0
    THEN {} ELSE {a.tenths \div 10}

\* The dollars and cents shown, as cents, truncated.
formatUsdc(stroops) == (stroops * 100) \div STROOP
formatPot(stroops, count) == formatUsdc(stroops * count)

\* What the page shows before the form is validated: 0 for what it cannot read.
roundStroops(a) ==
  IF usdcToStroops(a) = {} THEN 0 ELSE CHOOSE s \in usdcToStroops(a) : TRUE

\* Why the amount is refused, or "".
amountError(a) ==
  IF a.notation = "empty"                             THEN "required"
  ELSE IF a.tenths < 0                                THEN "positive"
  ELSE IF a.tenths = 0                                THEN "zero"
  ELSE IF a.tenths > MAX_ROUND_USDC * STROOP * 10     THEN "maximum"
  ELSE IF TooManyDecimals(a)                          THEN "decimals"
  ELSE IF usdcToStroops(a) = {}                       THEN "invalid"
  ELSE ""

\* parseInt stops at the exponent, which it does not know.
daysError(d) ==
  IF d.notation = "empty"                 THEN "required"
  ELSE IF d.notation = "point"            THEN "whole"
  ELSE IF d.mantissa < 1                  THEN "minimum"
  ELSE IF d.mantissa > MAX_ROUND_DAYS     THEN "maximum"
  ELSE ""

daysToLedgers(days) == days * LEDGERS_PER_DAY

-----------------------------------------------------------------------------
(* The form as a whole.                                                    *)

validMembers(f) ==
  Without(f.members, {e \in Range(f.members) :
                        e.kind = "blank" \/ validateMemberEntry(e) # ""})

\* The messages: one per row, one per field, one for the list.
Errors(f) ==
  LET ms == validMembers(f)
  IN  [name    |-> IF f.name = 0 THEN "required"
                   ELSE IF f.name > MAX_NAME_LENGTH THEN "too-long" ELSE "",
       amount  |-> amountError(f.amount),
       days    |-> daysError(f.days),
       members |-> [i \in DOMAIN f.members |-> validateMemberEntry(f.members[i])],
       membersGeneral |->
         IF getMemberCountStatus(Len(ms)) # "ok" THEN getMemberCountStatus(Len(ms))
         ELSE IF findDuplicateAddress(ms) THEN "duplicate" ELSE ""]

hasErrors(e) ==
  \/ e.name # "" \/ e.amount # "" \/ e.days # "" \/ e.membersGeneral # ""
  \/ \E i \in DOMAIN e.members : e.members[i] # ""

validateCreateForm(f) ==
  IF hasErrors(Errors(f)) THEN {}
  ELSE {[validMembers |-> [i \in DOMAIN validMembers(f) |-> validMembers(f)[i].who],
         amountStroops |-> roundStroops(f.amount),
         roundDays |-> f.days.mantissa]}

\* The field the cursor is put into: the first with a message, else the first
\* blank row, if there is one.
focusFirstError(f) ==
  LET e == Errors(f)
      firstRow(P) == {i \in P : \A j \in P : i <= j}
      wrong == {i \in DOMAIN f.members : e.members[i] # ""}
      blank == {i \in DOMAIN f.members : f.members[i].kind = "blank"}
  IN  IF e.name # ""        THEN {"name"}
      ELSE IF e.amount # "" THEN {"amount"}
      ELSE IF e.days # ""   THEN {"days"}
      ELSE firstRow(IF wrong # {} THEN wrong ELSE blank)

-----------------------------------------------------------------------------
(* Submission.                                                             *)

\* The arguments the page encodes: the name is one of them.
CreateArgs(creator, v) ==
  <<ScVal("address", creator), ScVal("string", "name"), ScVal("vec", v.validMembers),
    ScVal("i128", v.amountStroops), ScVal("u32", daysToLedgers(v.roundDays))>>

\* How handleSubmit ends for a form, a wallet ("" when there is none) and the
\* verdict of the deployment check.
handleSubmit(f, wallet, deploymentVerified) ==
  LET v == validateCreateForm(f)
  IN  IF ~deploymentVerified THEN "unverified"
      ELSE IF v = {} THEN "invalid"
      ELSE IF wallet = "" THEN "no wallet"
      ELSE IF \E x \in v : wallet \in Range(x.validMembers) THEN "creator listed"
      ELSE IF \A x \in v : ~HostTakes("create_circle", CreateArgs(wallet, x)) THEN "mismatch"
      ELSE "sent"

Outcomes == {handleSubmit(f, wallet, verified) :
               f \in Forms, wallet \in Creator \cup {""}, verified \in BOOLEAN}

\* One click on Create Circle; a second click while the first is under way is
\* ignored.
Submit ==
  /\ page' \in Outcomes
  /\ UNCHANGED vars

\* FactoryClient.createCircle, sent by a program that uses the SDK.
SdkCreate ==
  /\ \E p \in CreateParams : \E call \in createCircle(p) :
       /\ HostTakes("create_circle", call)
       /\ create_circle(call[1].v, call[2].v, call[3].v, call[4].v)
  /\ UNCHANGED page

CreateInit == Init /\ page = "idle"
CreateNext == (Next /\ UNCHANGED page) \/ Submit \/ SdkCreate
CreateSpec == CreateInit /\ [][CreateNext]_allVars

-----------------------------------------------------------------------------
(* Properties.                                                             *)

\* What the form accepts the factory accepts, a deadline beyond the contract's
\* maximum aside; the well-formed rows of a member list are refused only if the
\* factory would refuse them; the pot and the member count on the page are those
\* of the circle that is asked for; and the cursor is put where there is
\* something to mend, but for duplicates.
FormAgreesWithContract ==
  \A f \in Forms :
    /\ \A v \in validateCreateForm(f) :
         LET verdict == validate_create_inputs(v.validMembers, v.amountStroops,
                                               daysToLedgers(v.roundDays))
         IN  /\ \/ verdict = "ok"
                \/ /\ verdict = "DeadlineAboveMaximum"
                   /\ daysToLedgers(v.roundDays) > MAX_ROUND_DEADLINE_LEDGERS
             /\ summarizeMemberRows(f.members).count = Len(v.validMembers)
             /\ formatPot(roundStroops(f.amount), summarizeMemberRows(f.members).count)
                  = formatUsdc(v.amountStroops * Len(v.validMembers))
             /\ v.roundDays = f.days.mantissa \/ f.days.notation = "exponent"
    /\ LET e == Errors(f)
           ms == [i \in DOMAIN validMembers(f) |-> validMembers(f)[i].who]
       IN  /\ e.membersGeneral # "" =>
                validate_create_inputs(ms, 1, MIN_ROUND_DEADLINE_LEDGERS) # "ok"
           /\ (hasErrors(e) /\ e.membersGeneral # "duplicate") => focusFirstError(f) # {}

\* Every layer between a form and a circle draws the same line: the circle's
\* checks and the factory's, the SDK's checks, encoders and decoders, the web
\* form, and both deployment checks.
FormAndSdkAgree ==
  /\ ValidationAgrees
  /\ SdkSendsWhatIsAsked
  /\ EveryCircleReads
  /\ VerificationIsRight
  /\ FormAgreesWithContract

\* The create flow of README.md: from the /create page, through invokeContract,
\* to create_circle, which deploys a new circle.  A form that passes every check
\* of the page is a call the factory takes.
ArgumentsMatch == page # "mismatch"
=============================================================================
