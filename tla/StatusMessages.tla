--------------------------- MODULE StatusMessages ---------------------------
(***************************************************************************)
(* What the server understands of a status message, and what it says of a  *)
(* disturbance: types/status.go ComputeMsgType, types/disturbance.go       *)
(* Categories, utils.go DisturbanceReasonString and the banner of          *)
(* website/disturbance.go. A text is the set of the known phrases that it  *)
(* contains (strings.Contains). A message type is the sequence of its      *)
(* parts: <<cause, state, outlook>> for ML_cause_state_outlook, one part   *)
(* for any other, and none for a status without a type.                    *)
(***************************************************************************)
EXTENDS Naturals, Sequences, SequencesExt

\* The phrases that decide alone, in the order of the first switch.
Whole == <<"GENERIC", "SOLVED", "CLOSED", "SPECIAL",
           "REPORT_BEGIN", "REPORT_CONFIRM", "REPORT_RECONFIRM", "REPORT_SOLVED">>

\* The phrases of $1, $2 and $3, in the order of the other three switches.
Causes == <<"SIGNAL", "TRAIN", "POWER", "3RDPARTY", "PASSENGER", "STATION">>
States == <<"SINCE", "HALTED", "BETWEEN", "DELAYED">>
Outlooks == <<"LONGHALT", "LONGWAIT", "SOON", "UNDER15", "OVER15">>

Phrases == ToSet(Whole) \cup ToSet(Causes) \cup ToSet(States) \cup ToSet(Outlooks)

\* The first alternative of a switch whose phrase is in the text, or none.
FirstOf(alternatives, text) ==
    LET hits == {i \in DOMAIN alternatives : alternatives[i] \in text}
    IN  IF hits = {} THEN "" ELSE alternatives[Min(hits)]

\* mlCompositeMessageMatcher
IsComposite(type) == Len(type) = 3

CauseOnly(text, type) ==                                             \* (mutant)
    LET cause == FirstOf(Causes, text)
    IN  IF cause = "" THEN type ELSE <<cause, "DELAYED", "LONGWAIT">>

\* A text that matches no alternative keeps the type it has.
ComputeMsgType(text, type) ==
    LET whole == FirstOf(Whole, text)
        cause == FirstOf(Causes, text)
        state == FirstOf(States, text)
        outlook == FirstOf(Outlooks, text)
    IN  IF whole # "" THEN <<whole>>
        ELSE IF cause = "" \/ state = "" \/ outlook = "" THEN type
        ELSE <<cause, state, outlook>>

\* Status.Update stores RAW for a status without a type.
StoredType(type) == IF type = <<>> THEN <<"RAW">> ELSE type

ReportTypes == {<<"REPORT_BEGIN">>, <<"REPORT_CONFIRM">>, <<"REPORT_RECONFIRM">>, <<"REPORT_SOLVED">>}

CategoryOf(type) ==
    IF IsComposite(type) THEN type[1]
    ELSE IF type \in ReportTypes THEN "COMMUNITY_REPORTED" ELSE ""

\* The categories of a disturbance's statuses, each where it comes first.
Categories(types) ==
    FoldLeft(LAMBDA found, type :
                 IF CategoryOf(type) \in ToSet(found) \cup {""} THEN found
                 ELSE Append(found, CategoryOf(type)),
             <<>>, types)

\* The words for the categories: "relacionada com" goes before the first cause.
DisturbanceReasonString(types) ==
    LET categories == Categories(types)
        reasons == {i \in DOMAIN categories : categories[i] # "COMMUNITY_REPORTED"}
    IN  [words |-> categories,
         related |-> IF reasons = {} THEN 0 ELSE CHOOSE i \in reasons : \A j \in reasons : i <= j]

\* The image of the page of a disturbance, from its latest status.
BannerImage(isDowntime, type) ==
    IF ~isDowntime THEN "solved"
    ELSE IF ~IsComposite(type) THEN "generic"
    ELSE IF type[2] \in {"HALTED", "SINCE"} THEN "halted"
    ELSE IF type[2] = "BETWEEN" THEN "partial" ELSE "generic"

\* UpdateStatusMsgTypes: the types of the stored statuses, computed again.
UpdateStatusMsgTypes(statuses) ==
    [i \in DOMAIN statuses |->
        [text |-> statuses[i].text,
         MsgType |-> StoredType(ComputeMsgType(statuses[i].text, statuses[i].MsgType))]]
(***************************************************************************)
(* A restart computes the types of all statuses again (compute/            *)
(* linestatus.go): whatever they were stored with when they were added,    *)
(* the second restart changes nothing that the first did not, and the      *)
(* categories of a disturbance are told once each, the cause first.        *)
(***************************************************************************)
TypesStayIn(statuses) ==
    LET once == UpdateStatusMsgTypes(statuses)
        reason == DisturbanceReasonString([i \in DOMAIN once |-> once[i].MsgType])
    IN  /\ UpdateStatusMsgTypes(once) = once
        /\ \A i, j \in DOMAIN reason.words : reason.words[i] = reason.words[j] => i = j
        /\ \A i \in DOMAIN once :
              IsComposite(once[i].MsgType) => once[i].MsgType[1] \in Range(reason.words) /\ reason.related > 0
=============================================================================
