------------------------------- MODULE Screen -------------------------------
(***************************************************************************)
(* What the display daemon makes of a CurrentWeather: the texts and their  *)
(* places (vetero_displayd.cc, updateDisplay), printf and the conversion   *)
(* of the texts to the character set of the display (charset.cc), and the  *)
(* text display with its fonts (serdisplibdisplay.cc).  Pure operators.    *)
(*                                                                         *)
(* A text is where it starts, its font and its number of ASCII characters  *)
(* and of degree signs: no text has any other character, the German labels *)
(* have no umlauts.  The width of a number is what printf makes of it, up  *)
(* to how a half is rounded.                                               *)
(***************************************************************************)
EXTENDS Integers, FiniteSets

-----------------------------------------------------------------------------
(* The display *)

FontWidth  == 6
FontHeight == 8
GapX == 0
GapY == 1

(* Mutant of Rows: without the gap between two lines *)
RowsWithoutGap(display) == display.height \div FontHeight

(* SerdisplibTextDisplay::getRows, getColumns *)
Rows(display) == display.height \div (FontHeight + GapY)
Columns(display) == display.width \div (FontWidth + GapX)

-----------------------------------------------------------------------------
(* Characters *)

DegreeSign == 176

(* toLatin1: two bytes of UTF-8 are one character. *)
SizeInLatin1(text) == text.ascii + text.degrees

(* HD44780_charmap, of the characters of a text: ASCII but for the         *)
(* backslash is left as it is.                                             *)
HD44780(c) == CASE c = 92 -> 47 [] c = DegreeSign -> 223 [] OTHER -> c

(* The characters the fonts have a picture for; the rest of their tables is*)
(* blank.                                                                  *)
Font6x8     == 33 .. 127 \union {223, 225, 226, 239, 245}
Font6x8Bold == 33 .. 127 \union {223, 225, 226, 239, 245}
Pictures(font) == IF font = "bold" THEN Font6x8Bold ELSE Font6x8

-----------------------------------------------------------------------------
(* SerdisplibTextDisplay::renderText *)

OutOfRange(display, text) == text.line < 0 \/ text.line >= Rows(display)

(* The difference is a size_t: a text that starts behind the last column   *)
(* is not cut.                                                             *)
MaxCharIndex(display, text) ==
  LET left == Columns(display) - text.start
      size == SizeInLatin1(text)
  IN  IF left < 0 \/ size < left THEN size ELSE left

-----------------------------------------------------------------------------
(* Texts *)

Label(line, start, size) ==
  [line |-> line, start |-> start, font |-> "bold", ascii |-> size, degrees |-> 0]

Digits(n) == CHOOSE k \in 1 .. 10 : n < 10^k /\ (k = 1 \/ n >= 10^(k - 1))

(* The size of %<least>.1lf and %<least>.0lf of a number of tenths *)
SizeOf(least, decimals, tenths) ==
  LET size  == IF tenths < 0 THEN -tenths ELSE tenths
      whole == IF decimals = 0 THEN (size + 5) \div 10 ELSE size \div 10
      n == (IF tenths < 0 THEN 1 ELSE 0) + Digits(whole) + (IF decimals = 0 THEN 0 ELSE 2)
  IN  IF n < least THEN least ELSE n

(* A number and its unit, which has degree signs and that many letters *)
Number(line, start, size, degrees, letters) ==
  [line |-> line, start |-> start, font |-> "normal",
   ascii |-> size + letters, degrees |-> degrees]

(* The sizes of the labels, in English and as po/vetero-displayd/de.po     *)
(* translates them.                                                        *)
Languages == {"C", "de"}
LabelSize(language) ==
  IF language = "de"
    THEN [temperature |-> 10, humid |-> 7, wind |-> 11, rain |-> 12, pressure |-> 9]
    ELSE [temperature |-> 11, humid |-> 5, wind |-> 10, rain |-> 4, pressure |-> 12]

Tenths(hundredths) ==
  IF hundredths < 0 THEN -((5 - hundredths) \div 10) ELSE (hundredths + 5) \div 10

(* VeteroDisplayd::updateDisplay.  The values are hundredths, and rain is  *)
(* in 1/1000 mm.                                                           *)
UpdateDisplay(language, v) ==
  LET label == LabelSize(language)
      Real(least, x) == SizeOf(least, 1, Tenths(x))
  IN  { Label(0, 0, label.temperature),
        Number(0, 13, Real(6, v.temp), 1, 1),
        Number(1, 2, 9 + Real(5, v.min) + Real(5, v.max), 0, 0),
        Label(2, 0, label.humid),
        Number(2, 10, SizeOf(2, 0, Tenths(v.humid)), 0, 1),
        Number(2, 14, Real(5, v.dewpoint), 1, 1),
        Label(3, 0, label.wind),
        Number(3, 11, Real(5, v.wind), 0, 5),
        Number(4, 6, 4, 0, 0),
        Number(4, 11, Real(5, v.maxWind), 0, 5),
        Label(5, 0, label.rain),
        Number(5, 13, SizeOf(5, 1, (v.rain + 50) \div 100), 0, 3),
        Label(6, 0, label.pressure),
        Number(6, 12, SizeOf(5, 0, Tenths(v.pressure)), 0, 4) }

-----------------------------------------------------------------------------
(* No text is painted over another when none of them is cut. *)
Apart(texts) ==
  \A t \in texts : \A u \in { x \in texts : x.line = t.line /\ x.start > t.start } :
    t.start + SizeInLatin1(t) <= u.start

(* Every text is painted to its last character, with pictures that are not *)
(* blank.                                                                  *)
Complete(display, texts) ==
  \A t \in texts :
    /\ ~OutOfRange(display, t)
    /\ MaxCharIndex(display, t) = t.ascii + t.degrees
    /\ t.start + MaxCharIndex(display, t) <= Columns(display)
    /\ t.degrees > 0 => HD44780(DegreeSign) \in Pictures(t.font)
=============================================================================
