\* Every amount from 0 to 1500; U64_MAX is out of reach of these amounts.
SPECIFICATION Spec
CONSTANTS
  U64_MAX = 1000000
  MaxAmount = 1500
INVARIANTS
  BuyerPaysAtMostMaxPay
  SellerGetsMinOut
  SellerFloorIsTight
  FlipFeeIsBounded
CHECK_DEADLOCK FALSE
