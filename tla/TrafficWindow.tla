---------------------------- MODULE TrafficWindow ----------------------------
(***************************************************************************)
(* InfluxService.getTrafficHistory (src/influx/influx.service.ts): the     *)
(* window its query averages over, which it chooses from the length of the *)
(* range the client asks for.                                              *)
(*                                                                         *)
(* A range is a number and a unit, read by parseDurationToHours; lengths   *)
(* are in minutes here, so that a range in minutes is no fraction.  The    *)
(* database reads the same range by itself: a month there is a calendar    *)
(* month.  A range that is no number and unit, which counts as an hour, is *)
(* left out; so is one of several numbers and units, which counts as that. *)
(***************************************************************************)
EXTENDS Integers, TLAPS

Minute == 1
Hour   == 60
Day    == 1440
Week   == 10080

\* The cases of the switch of parseDurationToHours, in lower case.
KnownUnit == {"m", "h", "d", "w", "mo", "y"}

\* parseDurationToHours: a unit it does not know counts as hours.
MinutesRead(unit) ==
  IF unit = "m" THEN 1
  ELSE IF unit = "d" THEN Day
  ELSE IF unit = "w" THEN Week
  ELSE IF unit = "mo" THEN 30 * Day
  ELSE IF unit = "y" THEN 365 * Day
  ELSE Hour

DurationRead(value, unit) == value * MinutesRead(unit)

\* every: a month or more by weeks, a week or more by days, a day or more by
\* hours, anything shorter by minutes.
Every(duration) ==
  IF duration >= 720 * Hour THEN Week
  ELSE IF duration >= 168 * Hour THEN Day
  ELSE IF duration >= 24 * Hour THEN Hour
  ELSE Minute

\* The lengths the database may give the range: months and years vary.
ShortestUnit(unit) == IF unit = "mo" THEN 28 * Day ELSE MinutesRead(unit)
LongestUnit(unit)  == IF unit = "mo" THEN 31 * Day
                      ELSE IF unit = "y" THEN 366 * Day ELSE MinutesRead(unit)

Lengths(value, unit) ==
  {n \in Nat : value * ShortestUnit(unit) <= n /\ n <= value * LongestUnit(unit)}

LEMMA DurationOfUnit ==
  ASSUME NEW value \in Nat
  PROVE  /\ DurationRead(value, "m") = value
         /\ DurationRead(value, "h") = value * 60
         /\ DurationRead(value, "d") = value * 1440
         /\ DurationRead(value, "w") = value * 10080
         /\ DurationRead(value, "mo") = value * 43200
         /\ DurationRead(value, "y") = value * 525600
BY DEF DurationRead, MinutesRead, Hour, Day, Week

\* The window is never longer than the range it divides: a range of any length
\* in a unit the service knows gives at least one full window, calendar months
\* of 28 days included.
THEOREM WindowFitsRange ==
  ASSUME NEW value \in Nat \ {0}, NEW unit \in KnownUnit,
         NEW length \in Lengths(value, unit)
  PROVE  Every(DurationRead(value, unit)) <= length
<1>1. CASE unit = "m"
  BY <1>1, DurationOfUnit DEF Every, Lengths, ShortestUnit,
     LongestUnit, MinutesRead, Minute, Hour, Day, Week
<1>2. CASE unit = "h"
  BY <1>2, DurationOfUnit DEF Every, Lengths, ShortestUnit,
     LongestUnit, MinutesRead, Minute, Hour, Day, Week
<1>3. CASE unit = "d"
  BY <1>3, DurationOfUnit DEF Every, Lengths, ShortestUnit,
     LongestUnit, MinutesRead, Minute, Hour, Day, Week
<1>4. CASE unit = "w"
  BY <1>4, DurationOfUnit DEF Every, Lengths, ShortestUnit,
     LongestUnit, MinutesRead, Minute, Hour, Day, Week
<1>5. CASE unit = "mo"
  BY <1>5, DurationOfUnit DEF Every, Lengths, ShortestUnit,
     LongestUnit, MinutesRead, Minute, Hour, Day, Week
<1>6. CASE unit = "y"
  BY <1>6, DurationOfUnit DEF Every, Lengths, ShortestUnit,
     LongestUnit, MinutesRead, Minute, Hour, Day, Week
<1> QED
  BY <1>1, <1>2, <1>3, <1>4, <1>5, <1>6 DEF KnownUnit

\* An answer stays small: at most 1440 points for any range shorter than a
\* month, and a point a week above that, however the units are mixed.
THEOREM FewPoints ==
  ASSUME NEW value \in Nat, NEW unit \in KnownUnit \ {"mo", "y"},
         NEW length \in Lengths(value, unit)
  PROVE  LET every == Every(DurationRead(value, unit)) IN
         IF length < 30 * Day THEN length <= 1440 * every ELSE every = Week
<1>1. CASE unit = "m"
  BY <1>1, DurationOfUnit DEF Every, Lengths, ShortestUnit,
     LongestUnit, MinutesRead, Minute, Hour, Day, Week
<1>2. CASE unit = "h"
  BY <1>2, DurationOfUnit DEF Every, Lengths, ShortestUnit,
     LongestUnit, MinutesRead, Minute, Hour, Day, Week
<1>3. CASE unit = "d"
  BY <1>3, DurationOfUnit DEF Every, Lengths, ShortestUnit,
     LongestUnit, MinutesRead, Minute, Hour, Day, Week
<1>4. CASE unit = "w"
  BY <1>4, DurationOfUnit DEF Every, Lengths, ShortestUnit,
     LongestUnit, MinutesRead, Minute, Hour, Day, Week
<1> QED
  BY <1>1, <1>2, <1>3, <1>4 DEF KnownUnit

\* Where it stops: a unit outside the switch counts as hours, and a range in
\* seconds, which the database accepts, is averaged over windows longer than
\* itself.  24 seconds get windows of an hour.
THEOREM SecondsCountAsHours == Every(DurationRead(24, "s")) = Hour
BY DEF Every, DurationRead, MinutesRead, Minute, Hour, Day, Week
=============================================================================
