----------------------------- MODULE FuelPrice -----------------------------
(***************************************************************************)
(* A fuel's price and colour on their way between the settings page, the   *)
(* table tovar and the pump page.  The price is a float in between: saved  *)
(* as text with two decimals (floatToString), handed to the settings page  *)
(* as it is, and shown on the pump page as text with six decimals of which *)
(* four are cut off.  The colour is one number in the table (get_rgb) and  *)
(* three on the pages.                                                     *)
(*                                                                         *)
(* Prices are in hundredths.  The float n / 2^k nearest to p / 100 is the  *)
(* pair of n and k, with n < 2^24.                                         *)
(***************************************************************************)
EXTENDS Integers

CONSTANTS
  Prices,   \* the prices that are typed in, at least 1.00
  Colors,   \* red, green and blue that are typed in
  None

ASSUME PricesAssumption == \A p \in Prices : p \in Nat /\ 100 <= p /\ p < 10000
ASSUME ColorsAssumption == \A c \in Colors : \A k \in 1 .. 3 : c[k] \in Int

VARIABLES
  typed,   \* history: the price and colour that were typed in
  form,    \* what the settings page holds
  tovar,   \* the row of the table, None as long as it is an earlier one
  shown    \* the price on the pump page

vars == <<typed, form, tovar, shown>>

-----------------------------------------------------------------------------
(* The conversions.                                                        *)

\* a / b to the nearest integer, or to the even one of two.
Nearest(a, b) ==
  LET q == a \div b
      r == a % b
  IN IF 2 * r > b \/ (2 * r = b /\ q % 2 = 1) THEN q + 1 ELSE q

\* The float nearest to p / 100: k such that 2^23 <= n < 2^24.
FloatOf(p) ==
  LET k == CHOOSE k \in 17 .. 23 : 2^(23 - k) * 100 <= p /\ p < 2^(24 - k) * 100
  IN [n |-> Nearest(p * 2^k, 100), k |-> k]

\* Mutant: the digits that are not asked for are cut.
floatToStringCut(f) == (f.n * 25) \div 2^(f.k - 2)

\* floatToString(number, 2): 100 / 2^k = 25 / 2^(k - 2).
floatToString(f) == Nearest(f.n * 25, 2^(f.k - 2))

\* std::to_string: six decimals, 10^6 / 2^k = 15625 / 2^(k - 6).
to_string(f) ==
  LET m == 2^(f.k - 6) IN (f.n \div m) * 15625 + Nearest((f.n % m) * 15625, m)

\* Mutant: one decimal is left.
ShownPriceTenths(f) == (to_string(f) \div 100000) * 10

\* price.resize(pos + 3).
ShownPrice(f) == to_string(f) \div 10000

\* x & 0xFF, for a negative x as well.
Byte(x) == x % 256

get_rgb(c) == Byte(c[1]) * 65536 + Byte(c[2]) * 256 + Byte(c[3])

ColorOf(rgb) == <<(rgb \div 65536) % 256, (rgb \div 256) % 256, rgb % 256>>

-----------------------------------------------------------------------------

\* Somebody has typed a price and a colour in on the settings page.
Init ==
  /\ \E p \in Prices, c \in Colors :
       /\ typed = [price |-> p, color |-> c]
       /\ form = [price |-> FloatOf(p), color |-> c]
  /\ tovar = None /\ shown = None

\* api_settings_set: set_Tovar.
Save ==
  /\ tovar' = [price |-> floatToString(form.price), color |-> get_rgb(form.color)]
  /\ UNCHANGED <<typed, form, shown>>

\* api_settings_get: the float goes to the page with all its digits, and comes
\* back the same when the page is saved.
Get ==
  /\ tovar # None
  /\ form' = [price |-> FloatOf(tovar.price), color |-> ColorOf(tovar.color)]
  /\ UNCHANGED <<typed, tovar, shown>>

\* main_trk.
Show ==
  /\ tovar # None
  /\ shown' = ShownPrice(FloatOf(tovar.price))
  /\ UNCHANGED <<typed, form, tovar>>

Next == Save \/ Get \/ Show

Spec == Init /\ [][Next]_vars

-----------------------------------------------------------------------------
(* Properties.                                                             *)

\* A colour as far as it consists of bytes.
Bytes(c) == [k \in 1 .. 3 |-> Byte(c[k])]

\* However often the page is loaded and saved again, the table keeps what was
\* typed: rounding to a float and to two decimals does not add up, and a colour
\* survives as far as it consists of bytes.
KeptAsTyped ==
  tovar # None =>
    /\ tovar.price = typed.price
    /\ ColorOf(tovar.color) = Bytes(typed.color)

\* The pump page shows the price of the table below 16.00, where six decimals
\* are fewer than a float has, and from there on either that or a hundredth
\* less.
ShownOneLessAtMost ==
  shown # None =>
    /\ shown \in {typed.price - 1, typed.price}
    /\ typed.price < 1600 => shown = typed.price

\* The inductive invariant: the settings page holds the float of the price that
\* was typed in, and the same bytes.
IInv ==
  /\ typed.price \in Prices /\ typed.color \in Colors
  /\ form.price = FloatOf(typed.price)
  /\ \A k \in 1 .. 3 : form.color[k] \in Int
  /\ Bytes(form.color) = Bytes(typed.color)
  /\ KeptAsTyped /\ ShownOneLessAtMost

=============================================================================
