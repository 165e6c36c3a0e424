\* Fractional tax rates, item taxes and shipping lines, each sent and read back.
SPECIFICATION Spec
CONSTANTS
    Classes = {"OrderTaxRate", "OrderFeeLine", "OrderShippingLine"}
    InStr = {"empty", "text", "zero", "neg", "int", "frac"}
    InNum = {"neg", "zero", "int", "frac"}
    FractionalFields = {"price", "ratePercent"}
CHECK_DEADLOCK FALSE
INVARIANT RestBodyFaithful
