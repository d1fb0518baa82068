----------------------------- MODULE GameLedger -----------------------------
(***************************************************************************)
(* What the pages of the game compute from the ledger of XP transactions   *)
(* (types/pp_player.go, types/posplay.go, posplay/web-leaderboards.go and  *)
(* web-profile.go), and the settings of a player (types/                   *)
(* pp_notification_setting.go, posplay/web-personal.go).                   *)
(*                                                                         *)
(* The ledger is a set of [id, DiscordID, Time, Type, Value]. The week of  *)
(* the game begins on Monday at two; a day has DayHours hours, hour 0 is   *)
(* the midnight of a Monday.                                               *)
(***************************************************************************)
EXTENDS Integers, FiniteSetsExt, SequencesExt, Sums

CONSTANT DayHours                \* more than 2: 24

\* ORDER BY the key DESC, of equals any: the sequence of a set.
Descending(S, Key(_)) ==
    CHOOSE q \in SetToSeqs(S) : \A i, j \in DOMAIN q : i < j => Key(q[i]) >= Key(q[j])

Sum(ledger) == Total([x \in ledger |-> x.Value])

Later(ledger, start, end) == {x \in ledger : start < x.Time /\ x.Time <= end}      \* (mutant)

\* BETWEEN has both ends in it.
Between(ledger, start, end) == {x \in ledger : start <= x.Time /\ x.Time <= end}

OfPlayer(ledger, player) == {x \in ledger : x.DiscordID = player}

OfType(ledger, type) == {x \in ledger : x.Type = type}

XPBalance(ledger, player) == Sum(OfPlayer(ledger, player))

XPBalanceWithType(ledger, player, type) == Sum(OfType(OfPlayer(ledger, player), type))

XPBalanceBetween(ledger, player, start, end) == Sum(OfPlayer(Between(ledger, start, end), player))

XPBalanceWithTypeBetween(ledger, player, type, start, end) ==
    Sum(OfType(OfPlayer(Between(ledger, start, end), player), type))

\* XPTransactions and its like: the latest first, of equal times any.
XPTransactionsLimit(ledger, player, limit) ==
    LET all == Descending(OfPlayer(ledger, player), LAMBDA x : x.Time)
    IN  SubSeq(all, 1, Min({limit, Len(all)}))

-----------------------------------------------------------------------------
(***************************************************************************)
(* Ranks. Players without a transaction in the period have none.           *)
(***************************************************************************)
Players(ledger) == {x.DiscordID : x \in ledger}

Ahead(ledger, player) ==
    {p \in Players(ledger) : XPBalance(ledger, p) > XPBalance(ledger, player)}

RankBetween(ledger, player, start, end) ==
    LET period == Between(ledger, start, end)
    IN  IF player \in Players(period) THEN 1 + Cardinality(Ahead(period, player)) ELSE 0

\* PPLeaderboardBetween: rows in the order of the sums (of equals, some order),
\* the first ones and those next to the players that must be there.
Leaderboard(ledger, start, end, size, showNeighbors, mustIncludes) ==
    LET period == Between(ledger, start, end)
        rows == Descending(Players(period), LAMBDA p : XPBalance(period, p))
        Shown(i) ==
            \/ i <= size
            \/ \E j \in DOMAIN rows : rows[j] \in mustIncludes
                                      /\ i - j <= showNeighbors /\ j - i <= showNeighbors
    IN  {[Player |-> rows[i], RowNum |-> i, Score |-> XPBalance(period, rows[i]),
          Position |-> 1 + Cardinality(Ahead(period, rows[i]))] : i \in {i \in DOMAIN rows : Shown(i)}}

Week == 7 * DayHours

\* On a Monday before two, it is still the week before.
WeekStart(now) == ((now - 2) \div Week) * Week + 2

\* leaderboardsWeekPage: this week and the four before.
WeekPage(ledger, player, now) ==
    [i \in 1..5 |->
        LET start == WeekStart(now) - (i - 1) * Week
        IN  Leaderboard(ledger, start, IF i = 1 THEN now ELSE start + Week, 15, 2, {player})]

AllTimePage(ledger, player, now) == Leaderboard(ledger, 0, now, 50, 2, {player})

\* initPageCommons, for a player who is logged in.
PageCommons(ledger, player, now) ==
    [XP |-> XPBalance(ledger, player),
     XPthisWeek |-> XPBalanceBetween(ledger, player, WeekStart(now), now),
     RankThisWeek |-> RankBetween(ledger, player, WeekStart(now), now)]

-----------------------------------------------------------------------------
(***************************************************************************)
(* Settings.                                                               *)
(***************************************************************************)
\* profilePage: who sees a profile; viewers who are not logged in are "nobody".
ShowAsPrivate(privacy, profile, viewer) ==
    CASE privacy = "PRIVATE" -> viewer # profile
      [] privacy = "PLAYERS_ONLY" -> viewer = "nobody"
      [] OTHER -> FALSE

\* settings has a value for what the player has set; defaults, for all.
GetNotificationSetting(settings, defaults, type, method) ==
    IF <<type, method>> \in DOMAIN settings THEN settings[<<type, method>>] ELSE defaults[<<type, method>>]

SetNotificationSetting(settings, type, method, enabled) ==
    [k \in DOMAIN settings \cup {<<type, method>>} |-> IF k = <<type, method>> THEN enabled ELSE settings[k]]

Boxes == {"guildEventWon", "achievementAchieved"} \X {"discordDM", "appNotif"}

\* settingsLikePage: preferences that the form has not are kept; but for
\* onboarding, every box is saved, and one that is not ticked is false.
SaveSettings(player, form, isOnboarding) ==
    LET Kept(field, values) == IF form[field] \in values THEN form[field] ELSE player[field]
    IN  [player EXCEPT
            !.NameType = Kept("NameType", {"USERNAME_DISCRIM", "USERNAME", "NICKNAME"}),
            !.LBPrivacy = Kept("LBPrivacy", {"PUBLIC", "PRIVATE"}),
            !.ProfilePrivacy = Kept("ProfilePrivacy", {"PUBLIC", "PLAYERS_ONLY", "PRIVATE"}),
            !.settings = IF isOnboarding THEN @
                         ELSE FoldSet(LAMBDA box, all : SetNotificationSetting(all, box[1], box[2], box \in form.ticked),
                                      @, Boxes)]

-----------------------------------------------------------------------------
(***************************************************************************)
(* The numbers beside a player's name, which come from queries of their    *)
(* own, are those of the leaderboards: the rank and the XP of this week,   *)
(* and the XP of all time, which is also that of all of the transactions   *)
(* and of all types. Weeks follow one another: what was earned since the   *)
(* first week that is shown is in one of them, or in two if it was earned  *)
(* at the very instant when one ends and the next begins (types/           *)
(* pp_player.go RankBetween, types/posplay.go, posplay/web.go).            *)
(***************************************************************************)
RanksAgreeIn(ledger, player, now) ==
    LET weeks == WeekPage(ledger, player, now)
        commons == PageCommons(ledger, player, now)
        RowsOf(board) == {row \in board : row.Player = player}
        ScoreIn(board) == Total([row \in RowsOf(board) |-> row.Score])
        since == WeekStart(now) - 4 * Week
        Seam(i) == WeekStart(now) - (i - 1) * Week
    IN  /\ ScoreIn(weeks[1]) = commons.XPthisWeek
        /\ ScoreIn(AllTimePage(ledger, player, now)) = commons.XP
        /\ Sum(Range(XPTransactionsLimit(ledger, player, Cardinality(ledger)))) = commons.XP
        /\ Total([type \in {x.Type : x \in ledger} |-> XPBalanceWithType(ledger, player, type)]) = commons.XP
        /\ \A row \in RowsOf(weeks[1]) : row.Position = commons.RankThisWeek
        /\ RowsOf(weeks[1]) = {} <=> commons.RankThisWeek = 0
        /\ Total([i \in 1..5 |-> ScoreIn(weeks[i])])
              = Sum({x \in OfPlayer(ledger, player) : x.Time >= since})
                + Sum({x \in OfPlayer(ledger, player) : \E i \in 1..4 : x.Time = Seam(i)})

(***************************************************************************)
(* Settings that are saved are those that are read; onboarding and what a  *)
(* form has not, or has with a value that is not known, leave them as they *)
(* were; and nobody is shown a profile as private that is their own.       *)
(***************************************************************************)
SettingsKeptIn(player, form, isOnboarding, defaults) ==
    LET saved == SaveSettings(player, form, isOnboarding)
        Reads(p, k) == GetNotificationSetting(p.settings, defaults, k[1], k[2])
    IN  /\ \A k \in DOMAIN defaults :
              Reads(saved, k) <=> IF k \in Boxes /\ ~isOnboarding THEN k \in form.ticked ELSE Reads(player, k)
        /\ saved.ProfilePrivacy \in {player.ProfilePrivacy, form.ProfilePrivacy}
        /\ ~ShowAsPrivate(saved.ProfilePrivacy, "owner", "owner")
=============================================================================
