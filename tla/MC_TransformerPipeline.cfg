SPECIFICATION Spec
CONSTANTS
    Classes = {"BillingOrderAddress", "ShippingOrderAddress", "OrderTaxRate", "OrderRefundLine", "OrderCouponLine", "OrderFeeLine", "OrderLineItem", "OrderShippingLine", "Order"}
    InStr = {"empty", "text", "zero", "neg", "int", "frac"}
    InNum = {"neg", "zero", "int", "frac"}
    FractionalFields = {"price", "ratePercent"}
CHECK_DEADLOCK FALSE
INVARIANTS
    TypeOK
    FromModelContract
    ToModelContract
    ModelSideNeverFails
