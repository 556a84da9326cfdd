---------------------------- MODULE TimeNormalizer ----------------------------
(***************************************************************************)
(* TimeNormalizer::normalize(): the words of a time slot as seconds from   *)
(* now, or a range of them (Utils/TimeNormalizer.cpp).                     *)
(*                                                                         *)
(* A phrase is taken apart as the regular expressions do; what none of     *)
(* them knows is "other".  Optional parts are sequences of at most one.    *)
(* Moments are seconds since the first midnight of a calendar of           *)
(* MonthDays, whose second month has a day more every fourth year.         *)
(***************************************************************************)
EXTENDS Integers, Sequences, FiniteSetsExt, SequencesExt

CONSTANTS
  MonthDays,       (* the lengths of the months, in a year without leap day    *)
  Nows,            (* the moments something is said                            *)
  Numbers,         (* said in full, with Chinese characters                    *)
  Phrases          (* what else is said                                        *)

VARIABLES now, phrase, answer

timeVars == <<now, phrase, answer>>

Nothing == <<>>
Hour == 3600
Day == 24 * Hour

-----------------------------------------------------------------------------
(* QDate: days are counted from 0, the first being a Monday.               *)
DaysIn(y, m) == IF m = 2 /\ y % 4 = 0 THEN MonthDays[m] + 1 ELSE MonthDays[m]
Valid(date) == date.m \in DOMAIN MonthDays /\ date.d \in 1..DaysIn(date.y, date.m)
DayOf(date) ==
  MapThenSumSet(LAMBDA ym : DaysIn(ym[1], ym[2]),
                {ym \in (0..date.y) \X (DOMAIN MonthDays) :
                   ym[1] < date.y \/ ym[2] < date.m}) + date.d - 1
DateOf(day) ==
  CHOOSE date \in [y : 0..8, m : DOMAIN MonthDays, d : 1..31] :
    Valid(date) /\ DayOf(date) = day
Weekday(day) == (day % 7) + 1
AddYear(date) ==
  [date EXCEPT !.y = @ + 1, !.d = Min({@, DaysIn(date.y + 1, date.m)})]

(* QDateTime: a time there is not is midnight, on a day there is not       *)
(* secsTo() is 0.                                                          *)
Moment(day, h, mi) == day * Day + (IF h <= 23 /\ mi <= 59 THEN h * Hour + mi * 60 ELSE 0)
Today == now \div Day
SecsTo(moment) == moment - now

-----------------------------------------------------------------------------
(* cnNumber(): digits are themselves and units their size.                 *)
CnStep(acc, c) ==
  LET count == IF acc.pending < 0 THEN 1 ELSE acc.pending
  IN  CASE c < 10 -> [acc EXCEPT !.pending = c]
        [] c = 10000 -> [total |-> acc.total + (acc.section + count) * c, section |-> 0, pending |-> 0 - 1]
        [] OTHER -> [acc EXCEPT !.section = @ + count * c, !.pending = 0 - 1]
CnNumber(s) ==
  LET read == FoldLeft(CnStep, [total |-> 0, section |-> 0, pending |-> 0 - 1], s)
  IN  read.total + read.section + (IF read.pending < 0 THEN 0 ELSE read.pending)

(* parseAmount(), in halves.  The dot of a decimal went with the marks.    *)
Dot == 0 - 2
Halves(amount) ==
  CASE amount.cn = Nothing /\ amount.arabic = Nothing -> <<1>>
    [] amount.cn # Nothing -> <<2 * CnNumber(amount.cn) + (IF amount.half THEN 1 ELSE 0)>>
    [] amount.arabic # Nothing /\ amount.half -> Nothing
    [] OTHER -> <<2 * FoldLeft(LAMBDA v, c : IF c = Dot THEN v ELSE 10 * v + c, 0, amount.arabic)>>

-----------------------------------------------------------------------------
(* resolveRange(): whole days from midnight to midnight.                   *)
Span(from, to) == <<SecsTo(Moment(Today + from, 0, 0)), SecsTo(Moment(Today + to, 0, 0))>>
ToSaturday == IF Weekday(Today) = 7 THEN 0 - 1 ELSE 6 - Weekday(Today)
ResolveRange(p) ==
  CASE p.kind = "weekend" -> Span(ToSaturday, ToSaturday + 2)
    [] p.kind = "span"    -> Span(p.from, p.to)
    [] p.kind = "future"  ->
         LET n == Halves(p.amount)
         IN  IF n = Nothing \/ n[1] < 2 THEN Nothing ELSE Span(1, 1 + n[1] \div 2)
    [] OTHER -> Nothing

(* resolveDuration(): rounded to seconds.                                  *)
Scale == [hour |-> Hour, quarter |-> 900, minute |-> 60, second |-> 1, day |-> Day]
ResolveDuration(p) ==
  LET n == Halves(p.amount)
      extra == IF p.unit = "minute" /\ p.andHalf THEN Scale[p.unit] ELSE 0
  IN  IF n = Nothing THEN Nothing ELSE <<(n[1] * Scale[p.unit] + extra + 1) \div 2>>

-----------------------------------------------------------------------------
PeriodHour == [dawn |-> 3, morning |-> 7, noon |-> 12, afternoon |-> 14, evening |-> 19, midnight |-> 23]
Afternoon == {"noon", "afternoon", "evening"}

(* resolvePoint(): a day ("今晚" is a day and a part of it), a part of the *)
(* day, and the hour on the clock, "半" for half past.                     *)
ShortHour(p, h) ==
  CASE h = Nothing -> <<IF p.evening THEN 19 ELSE 7>>
    [] h # Nothing /\ p.evening /\ h[1] < 12 -> <<h[1] + 12>>
    [] OTHER -> h
PeriodOf(p, h) ==
  CASE h = Nothing -> <<PeriodHour[p.period[1]]>>
    [] h # Nothing /\ p.period[1] \in Afternoon /\ h[1] < 12 -> <<h[1] + 12>>
    [] OTHER -> h
HourOf(p) ==
  CASE p.day = "short" -> ShortHour(p, p.hour)
    [] p.day # "short" /\ p.period # Nothing -> PeriodOf(p, p.hour)
    [] OTHER -> p.hour
DayOffset(p) ==
  CASE p.day \in {"short", "word"} -> p.offset
    [] p.day = "week" -> ((p.target - Weekday(Today) + 7) % 7) + 7 * p.weeks
    [] OTHER -> 0

(* Only an hour, and passed: tomorrow's.                                   *)
Later_Slip(moment) == IF moment < now THEN moment + Day ELSE moment
Later(moment) == IF moment <= now THEN moment + Day ELSE moment
Assemble(p) ==
  LET h == HourOf(p)
      moment == CASE h = Nothing -> Moment(Today + DayOffset(p), 0, 0)
                  [] h = <<24>>  -> Moment(Today + DayOffset(p) + 1, 0, 0)
                  [] OTHER       -> Moment(Today + DayOffset(p), h[1], IF p.hour = Nothing THEN 0 ELSE p.minute)
  IN  CASE p.day = "none" /\ h = Nothing -> Nothing
        [] p.day = "none" /\ h # Nothing -> <<SecsTo(Later(moment))>>
        [] OTHER -> <<SecsTo(moment)>>

(* A day of a month: the next year's when passed and none is named; a day  *)
(* there is not is not known.                                              *)
ResolveDate(p) ==
  LET here == DateOf(Today)
      said == [y |-> IF p.year = Nothing THEN here.y ELSE p.year[1],
               m |-> IF p.month = Nothing THEN here.m ELSE p.month[1], d |-> p.date]
      date == IF p.year = Nothing /\ DayOf(said) < Today THEN AddYear(said) ELSE said
  IN  IF ~Valid(said) \/ p.period # Nothing THEN Nothing
      ELSE <<SecsTo(IF p.hour = Nothing THEN Moment(DayOf(date), 0, 0)
                    ELSE Moment(DayOf(date), p.hour[1], p.minute))>>

(* A whole month, which is not asked to be one.                            *)
ResolveMonth(p) ==
  LET here == DateOf(Today)
      said == [y |-> IF p.year = Nothing THEN here.y ELSE p.year[1], m |-> p.month[1], d |-> 1]
  IN  CASE ~Valid(said) -> <<0>>
        [] Valid(said) /\ p.year = Nothing /\ DayOf(said) < Today ->
             <<SecsTo(Moment(DayOf(AddYear(said)), 0, 0))>>
        [] OTHER -> <<SecsTo(Moment(DayOf(said), 0, 0))>>

-----------------------------------------------------------------------------
(* normalize(): the first that knows the phrase; the value, the ends of    *)
(* the range or nothing.                                                   *)
Normalize(p) ==
  CASE p.kind \in {"weekend", "span", "future"} -> ResolveRange(p)
    [] p.kind = "duration" -> ResolveDuration(p)
    [] p.kind = "now"   -> <<0>>
    [] p.kind = "month" -> ResolveMonth(p)
    [] p.kind = "point" -> IF p.day = "date" THEN ResolveDate(p) ELSE Assemble(p)
    [] OTHER -> Nothing

(* How a number is said: 3005 as three thousand naught five, 15 as ten     *)
(* five, 20005 as two ten-thousands naught five.                           *)
Digit(n, unit) == (n \div unit) % 10
Group(n) ==
  LET part(unit) ==
        CASE Digit(n, unit) = 0 ->
               IF n > 10 * unit /\ n % unit # 0 /\ Digit(n, 10 * unit) # 0 THEN <<0>> ELSE <<>>
          [] Digit(n, unit) # 0 /\ unit = 1 -> <<Digit(n, 1)>>
          [] Digit(n, unit) = 1 /\ unit = 10 /\ n < 100 -> <<10>>
          [] OTHER -> <<Digit(n, unit), unit>>
  IN  part(1000) \o part(100) \o part(10) \o part(1)
Said(n) ==
  IF n < 10000 THEN Group(n)
  ELSE Group(n \div 10000) \o <<10000>>
         \o (IF n % 10000 \in 1..999 THEN <<0>> ELSE <<>>) \o Group(n % 10000)

InFull(n) ==
  [kind |-> "duration", number |-> n, unit |-> "second", andHalf |-> FALSE,
   amount |-> [cn |-> Said(n), arabic |-> Nothing, half |-> FALSE]]

Init == now \in Nows /\ phrase = [kind |-> "other"] /\ answer = Nothing
Ask(p) == phrase' = p /\ answer' = Normalize(p) /\ UNCHANGED now
Next ==
  /\ phrase.kind = "other"
  /\ \/ \E p \in Phrases : Ask(p)
     \/ \E n \in Numbers : Ask(InFull(n))

Spec == Init /\ [][Next]_timeVars

-----------------------------------------------------------------------------
Single == Len(answer) = 1
At == now + answer[1]

(* "Only to the day" is midnight; ranges are whole days that are not over. *)
RangesWhole ==
  Len(answer) = 2 =>
    /\ answer[1] < answer[2] /\ 0 < answer[2]
    /\ At % Day = 0 /\ (now + answer[2]) % Day = 0
    /\ phrase.kind = "weekend" => Weekday(At \div Day) = 6

(* What names no day is in the day to come; what names one is on it, and   *)
(* without a year not over (the three rules of TimeNormalizer.h:35-39).    *)
PointsMeant ==
  phrase.kind = "point" /\ Single =>
    /\ phrase.day = "none" => answer[1] > 0 /\ answer[1] <= Day
    /\ phrase.day \in {"short", "word"} /\ HourOf(phrase) # <<24>> =>
         At \div Day = Today + phrase.offset
    /\ phrase.day = "week" /\ HourOf(phrase) # <<24>> =>
         Weekday(At \div Day) = phrase.target /\ At \div Day >= Today
    /\ phrase.day = "date" =>
         LET date == DateOf(At \div Day)
         IN  /\ phrase.year = Nothing => At \div Day >= Today
             /\ phrase.month # Nothing => date.m = phrase.month[1]
             /\ date.d <= phrase.date

(* Numbers are read as they are said.                                      *)
NumbersRead == phrase.kind = "duration" /\ "number" \in DOMAIN phrase => answer = <<phrase.number>>

TimeSound == RangesWhole /\ PointsMeant /\ NumbersRead

(* A month there is not is not recognised (TimeNormalizer.h:26).           *)
UnknownIsEmpty ==
  phrase.kind = "month" /\ phrase.month[1] \notin DOMAIN MonthDays => answer = Nothing

(* "This evening at eight" is in the evening (TimeNormalizer.h:29,         *)
(* TimeNormalizer.cpp:352), and so is twelve o'clock of it.                *)
EveningsAreLate ==
  phrase.kind = "point" /\ phrase.day = "short" /\ phrase.evening /\ Single
    => At >= Moment(Today + phrase.offset, 18, 0)
=============================================================================
