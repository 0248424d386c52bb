----------------------------- MODULE Durations ------------------------------
(***************************************************************************)
(* The lifetime of a refresh token, JWT_REFRESH_TTL, as its two readers    *)
(* take it: ttlToSeconds (src/src/auth/utils/ttl.util.ts) for the Redis    *)
(* key, and jsonwebtoken for the token.  A setting is a number and a unit, *)
(* "none" when it is only a number.                                        *)
(***************************************************************************)
EXTENDS Integers

Units == {"none", "s", "m", "h", "d", "w", "y"}

\* The configuration takes every string that is not empty; these are the ones
\* that jsonwebtoken takes too.
Settings == [amount : Nat, unit : Units]

\* Variant of the operator below with a mistake in it: a day has twelve hours.
MultiplierShortDay(unit) ==
    CASE unit \in {"none", "s"} -> 1
      [] unit = "m" -> 60
      [] unit = "h" -> 3600
      [] unit = "d" -> 43200

\* The units ttlToSeconds knows, in seconds; no unit is taken for "s".
Multiplier(unit) ==
    CASE unit \in {"none", "s"} -> 1
      [] unit = "m" -> 60
      [] unit = "h" -> 3600
      [] unit = "d" -> 86400

\* The others make ttlToSeconds throw.
Parsable(v) == v.unit \in {"none", "s", "m", "h", "d"}

TtlToSeconds(v) == v.amount * Multiplier(v.unit)

\* redis.set refuses an EX of 0, after both tokens have been signed.
Storable(v) == Parsable(v) /\ TtlToSeconds(v) > 0

\* jsonwebtoken reads a number without a unit as milliseconds.
JwtSeconds(v) ==
    CASE v.unit = "none"  -> v.amount \div 1000
      [] v.unit = "s" -> v.amount
      [] v.unit = "m" -> v.amount * 60
      [] v.unit = "h" -> v.amount * 3600
      [] v.unit = "d" -> v.amount * 86400
      [] v.unit = "w" -> v.amount * 604800
      [] v.unit = "y" -> v.amount * 31557600
=============================================================================
