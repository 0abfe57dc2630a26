SPECIFICATION Spec
CONSTANTS
  Nothing = Nothing
  Torn = Torn
  MaxFrames = 4
INVARIANTS EndpointsAgree PictureIsOfItsFrame PublishedIsServed
