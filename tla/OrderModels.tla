----------------------------- MODULE OrderModels -----------------------------
(***************************************************************************)
(* The order model classes (models/orders/shared/classes.ts) and the order *)
(* transformers built from them (repositories/rest/orders/transformer.ts). *)
(* Each class is a table field -> [type, default]: `type` is the field's   *)
(* TypeScript type, `default` the value its initialiser gives it.          *)
(***************************************************************************)
EXTENDS PropertyBag

F(type, default) == [type |-> type, default |-> default]
NoItems == List(<<>>)

\* OrderItemMeta: the metaData array shared by the order item classes.
OrderItemMetaFields == ("metaData" :> F("list MetaData", NoItems))

OrderItemTaxFields ==
    ("total" :> F("string", Str("empty"))) @@ ("subtotal" :> F("string", Str("empty")))

ShippingOrderAddressFields ==
    [k \in {"firstName", "lastName", "company", "address1", "address2",
            "city", "state", "postCode", "country"} |-> F("string", Str("empty"))]

BillingOrderAddressFields ==
    ShippingOrderAddressFields @@
    ("email" :> F("string", Str("empty"))) @@ ("phone" :> F("string", Str("empty")))

OrderLineItemFields ==
    OrderItemMetaFields @@
    [k \in {"name", "taxClass", "subtotal", "subtotalTax", "total", "totalTax", "sku"}
        |-> F("string", Str("empty"))] @@
    ("productId" :> F("number", Num("neg"))) @@
    ("variationId" :> F("number", Num("zero"))) @@
    ("quantity" :> F("number", Num("neg"))) @@
    ("taxes" :> F("list OrderItemTax", NoItems)) @@
    ("price" :> F("number", Num("neg"))) @@
    ("parentName" :> F("string|null", Null))

OrderTaxRateFields ==
    [k \in {"rateCode", "label", "taxTotal", "shippingTaxTotal"} |-> F("string", Str("empty"))] @@
    ("rateId" :> F("number", Num("zero"))) @@
    ("compoundRate" :> F("boolean", Bool(FALSE))) @@
    ("ratePercent" :> F("number", Num("zero")))

\* methodId is `ModelID | undefined` with no initialiser: absent by default.
OrderShippingLineFields ==
    OrderItemMetaFields @@
    [k \in {"methodTitle", "instanceId", "total", "totalTax"} |-> F("string", Str("empty"))] @@
    ("taxes" :> F("list OrderItemTax", NoItems))

OrderFeeLineFields ==
    OrderItemMetaFields @@
    [k \in {"name", "taxClass", "amount", "total", "totalTax"} |-> F("string", Str("empty"))] @@
    ("taxStatus" :> F("string", Str("text"))) @@
    ("taxes" :> F("list OrderItemTax", NoItems))

OrderCouponLineFields ==
    OrderItemMetaFields @@
    [k \in {"code", "discount", "discountTax"} |-> F("string", Str("empty"))]

OrderRefundLineFields ==
    [k \in {"reason", "total"} |-> F("string", Str("empty"))]

\* Optional fields of a class: declared without an initialiser.
OptionalFields ==
    [c \in {"OrderShippingLine"} |-> ("methodId" :> F("number", Num("int")))]

ClassFields ==
    ("OrderItemTax" :> OrderItemTaxFields) @@
    ("ShippingOrderAddress" :> ShippingOrderAddressFields) @@
    ("BillingOrderAddress" :> BillingOrderAddressFields) @@
    ("OrderLineItem" :> OrderLineItemFields) @@
    ("OrderTaxRate" :> OrderTaxRateFields) @@
    ("OrderShippingLine" :> OrderShippingLineFields) @@
    ("OrderFeeLine" :> OrderFeeLineFields) @@
    ("OrderCouponLine" :> OrderCouponLineFields) @@
    ("OrderRefundLine" :> OrderRefundLineFields)

\* The Order and MetaData classes are defined outside the sources; their
\* construction is modelled as adding no initialised fields.
ClassDefaults ==
    [c \in DOMAIN ClassFields |-> [k \in DOMAIN ClassFields[c] |-> ClassFields[c][k].default]]
    @@ ("Order" :> EmptyBag) @@ ("MetaData" :> EmptyBag)

(***************************************************************************)
(* transformer.ts                                                          *)
(***************************************************************************)
Typed(keys, type) == [k \in keys |-> type]

OrderTransformer == <<
    IgnorePropertyTransformation({"date_created", "date_modified"}),
    ModelTransformerTransformation("billing", "BillingOrderAddress", "billing"),
    ModelTransformerTransformation("shipping", "ShippingOrderAddress", "shipping"),
    ModelTransformerTransformation("taxLines", "OrderTaxRate", "taxRate"),
    ModelTransformerTransformation("refunds", "OrderRefundLine", "refundLine"),
    ModelTransformerTransformation("couponLines", "OrderCouponLine", "couponLine"),
    ModelTransformerTransformation("feeLines", "OrderFeeLine", "feeLine"),
    ModelTransformerTransformation("lineItems", "OrderLineItem", "lineItem"),
    ModelTransformerTransformation("shippingLines", "OrderShippingLine", "shippingLine"),
    ModelTransformerTransformation("metaData", "MetaData", "metaData"),
    PropertyTypeTransformation(
        Typed({"status", "currency", "discountTotal", "discountTax", "shippingTotal",
               "shippingTax", "cartTax", "total", "totalTax", "customerNote",
               "paymentMethod", "transactionId"}, "String") @@
        Typed({"pricesIncludeTax", "setPaid"}, "Boolean") @@
        ("customerId" :> "Integer")),
    KeyChangeTransformation(
        ("discountTotal" :> "discount_total") @@ ("discountTax" :> "discount_tax") @@
        ("shippingTotal" :> "shipping_total") @@ ("shippingTax" :> "shipping_tax") @@
        ("cartTax" :> "cart_tax") @@ ("totalTax" :> "total_tax") @@
        ("pricesIncludeTax" :> "prices_include_tax") @@ ("customerId" :> "customer_id") @@
        ("customerNote" :> "customer_note") @@ ("paymentMethod" :> "payment_method") @@
        ("transactionId" :> "transaction_id") @@ ("setPaid" :> "set_paid") @@
        ("lineItems" :> "line_items") @@ ("taxLines" :> "tax_lines") @@
        ("shippingLines" :> "shipping_lines") @@ ("feeLines" :> "fee_lines") @@
        ("couponLines" :> "coupon_lines") @@ ("metaData" :> "meta_data")) >>

AddressKeyChanges ==
    ("firstName" :> "first_name") @@ ("lastName" :> "last_name") @@
    ("address1" :> "address_1") @@ ("address2" :> "address_2") @@
    ("postCode" :> "postcode")

BillingAddressTransformer == <<
    PropertyTypeTransformation(Typed(DOMAIN BillingOrderAddressFields, "String")),
    KeyChangeTransformation(AddressKeyChanges) >>

ShippingAddressTransformer == <<
    PropertyTypeTransformation(Typed(DOMAIN ShippingOrderAddressFields, "String")),
    KeyChangeTransformation(AddressKeyChanges) >>

\* Mutant: compoundRate declared PropertyType.Integer.
OrderTaxRateTransformerCompoundInteger == <<
    PropertyTypeTransformation(
        Typed({"rateCode", "label", "taxTotal", "shippingTaxTotal"}, "String") @@
        Typed({"rateId", "ratePercent", "compoundRate"}, "Integer")),
    KeyChangeTransformation(
        ("rateCode" :> "rate_code") @@ ("ratePercent" :> "rate_percent") @@
        ("rateId" :> "rate_id") @@ ("compoundRate" :> "compound") @@
        ("taxTotal" :> "tax_total") @@ ("shippingTaxTotal" :> "shipping_tax_total")) >>

OrderTaxRateTransformer == <<
    PropertyTypeTransformation(
        Typed({"rateCode", "label", "taxTotal", "shippingTaxTotal"}, "String") @@
        Typed({"rateId", "ratePercent"}, "Integer") @@ ("compoundRate" :> "Boolean")),
    KeyChangeTransformation(
        ("rateCode" :> "rate_code") @@ ("ratePercent" :> "rate_percent") @@
        ("rateId" :> "rate_id") @@ ("compoundRate" :> "compound") @@
        ("taxTotal" :> "tax_total") @@ ("shippingTaxTotal" :> "shipping_tax_total")) >>

OrderRefundLineTransformer == <<
    PropertyTypeTransformation(Typed({"reason", "total"}, "String")) >>

OrderCouponLineTransformer == <<
    ModelTransformerTransformation("metaData", "MetaData", "metaData"),
    PropertyTypeTransformation(Typed({"code", "discount", "discountTax"}, "String")),
    KeyChangeTransformation(("discountTax" :> "discount_tax") @@ ("metaData" :> "meta_data")) >>

OrderFeeLineTransformer == <<
    ModelTransformerTransformation("taxes", "OrderTaxRate", "taxRate"),
    PropertyTypeTransformation(
        Typed({"name", "taxClass", "taxStatus", "total", "totalTax"}, "String")),
    KeyChangeTransformation(
        ("taxClass" :> "tax_class") @@ ("taxStatus" :> "tax_status") @@
        ("totalTax" :> "total_tax")) >>

\* Mutant: the KeyChange placed before the PropertyType transformation.
OrderLineItemTransformerRenameFirst == <<
    ModelTransformerTransformation("taxes", "OrderTaxRate", "taxRate"),
    KeyChangeTransformation(
        ("productId" :> "product_id") @@ ("variationId" :> "variation_id") @@
        ("taxClass" :> "tax_class") @@ ("subtotalTax" :> "subtotal_tax") @@
        ("totalTax" :> "total_tax")),
    PropertyTypeTransformation(
        Typed({"name", "taxClass", "subtotal", "subtotalTax", "total", "totalTax",
               "sku", "parentName"}, "String") @@
        Typed({"productId", "variationId", "quantity", "price"}, "Integer")) >>

OrderLineItemTransformer == <<
    ModelTransformerTransformation("taxes", "OrderTaxRate", "taxRate"),
    PropertyTypeTransformation(
        Typed({"name", "taxClass", "subtotal", "subtotalTax", "total", "totalTax",
               "sku", "parentName"}, "String") @@
        Typed({"productId", "variationId", "quantity", "price"}, "Integer")),
    KeyChangeTransformation(
        ("productId" :> "product_id") @@ ("variationId" :> "variation_id") @@
        ("taxClass" :> "tax_class") @@ ("subtotalTax" :> "subtotal_tax") @@
        ("totalTax" :> "total_tax")) >>

OrderShippingItemTransformer == <<
    ModelTransformerTransformation("taxes", "OrderTaxRate", "taxRate"),
    PropertyTypeTransformation(
        Typed({"methodTitle", "total", "totalTax"}, "String") @@ ("methodId" :> "Integer")),
    KeyChangeTransformation(
        ("methodTitle" :> "method_title") @@ ("methodId" :> "method_id") @@
        ("totalTax" :> "total_tax")) >>

\* createMetaDataTransformer is outside the sources; only empty metaData
\* arrays reach it in this model, so its steps are left empty.
MetaDataTransformer == << >>

OrderTransformers ==
    ("order" :> OrderTransformer) @@ ("billing" :> BillingAddressTransformer) @@
    ("shipping" :> ShippingAddressTransformer) @@ ("taxRate" :> OrderTaxRateTransformer) @@
    ("refundLine" :> OrderRefundLineTransformer) @@ ("couponLine" :> OrderCouponLineTransformer) @@
    ("feeLine" :> OrderFeeLineTransformer) @@ ("lineItem" :> OrderLineItemTransformer) @@
    ("shippingLine" :> OrderShippingItemTransformer) @@ ("metaData" :> MetaDataTransformer)

\* The transformer each class is converted with.
TransformerOf ==
    ("BillingOrderAddress" :> "billing") @@ ("ShippingOrderAddress" :> "shipping") @@
    ("OrderTaxRate" :> "taxRate") @@ ("OrderRefundLine" :> "refundLine") @@
    ("OrderCouponLine" :> "couponLine") @@ ("OrderFeeLine" :> "feeLine") @@
    ("OrderLineItem" :> "lineItem") @@ ("OrderShippingLine" :> "shippingLine")

=============================================================================
