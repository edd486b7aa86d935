------------------------------ MODULE ImportTax ------------------------------
(***************************************************************************)
(* calculate_import_tax, src/app/tools/import_tax.py.  Amounts are whole   *)
(* fen and rates are percent, so that quantize(0.01, ROUND_HALF_UP) is a   *)
(* division of integers.                                                   *)
(***************************************************************************)
LOCAL INSTANCE Integers

\* _money of the non-negative fraction n / d.
Money(n, d) == (2 * n + d) \div (2 * d)

PolicyPercent == 70

\* valuation.customs_value_cny, or price, freight and insurance when there is no valuation.
CustomsValue(e, price, freight) ==
    IF e.valued THEN e.value ELSE price + freight + e.insurance

GeneralTrade(e, value) ==
    LET tariff      == Money(value * e.tariff, 100)
        consumption == Money((value + tariff) * e.consumption, 100 - e.consumption)
        vat         == Money((value + tariff + consumption) * e.vat, 100)
    IN  tariff + consumption + vat

CrossBorder(e, value) ==
    LET base == 100 * (100 - e.consumption)      \* the tax base is 100 * value / base
    IN  Money(value * e.consumption * PolicyPercent, base)
          + Money(value * e.vat * PolicyPercent, base)

PersonalPostal(e) ==
    LET due == Money(e.value * e.postal, 100)
    IN  IF due <= e.threshold THEN 0 ELSE due

\* total_import_tax_cny
ImportTax(e, price, freight) ==
    CASE e.regime = "general_trade"            -> GeneralTrade(e, CustomsValue(e, price, freight))
      [] e.regime = "cross_border_ecommerce"   -> CrossBorder(e, CustomsValue(e, price, freight))
      [] e.regime = "personal_postal"          -> PersonalPostal(e)
      [] OTHER                                 -> e.collected

=============================================================================
